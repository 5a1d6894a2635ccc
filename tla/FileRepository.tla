--------------------------- MODULE FileRepository ---------------------------
(***************************************************************************)
(* JsonRuleRepository and XmlRuleRepository: rules kept in memory, changed *)
(* by save and remove, and written to one file by flush and by the         *)
(* destructor.  Several repositories, in threads or processes of their     *)
(* own, share the file; each may crash at any time.  mutex_ makes every    *)
(* operation of one repository atomic for its other threads, so only the   *)
(* steps of write(), which other repositories see, are actions of their    *)
(* own.                                                                    *)
(*                                                                         *)
(* A crash is that of a process: what was written to a file is not lost    *)
(* with it (there is no fsync in the code).                                *)
(***************************************************************************)
EXTENDS Integers, Sequences, SequencesExt

CONSTANTS
  Repos,
  Ids,          \* Rule::id
  Bodies,       \* the other fields that ruleToJson and ruleToXml keep
  SavedRules,   \* the rules that are saved, with their childRules
  Files,        \* what the file may hold at first
  Absent,       \* no file, no rule
  Torn          \* a file that does not parse

Formats == {"json", "xml"}

(* One stored rule.  childRules are not part of it: save stores them as    *)
(* rules of their own, and a rule that is read has none.                   *)
Items == [id : Ids, body : Bodies]
Contents == Seq(Items) \cup {Absent, Torn}

ASSUME FilesAssumption ==
  /\ Files \subseteq Contents
  /\ SavedRules \subseteq [id : Ids, body : Bodies, children : Seq(Items)]
  /\ {"unknown", "removed"} \cap Bodies = {} /\ Absent # Torn

VARIABLES
  format,    \* which of the two classes; it never changes
  file,      \* the file at filepath_
  temp,      \* temp[r]: the temporary file that r writes
  data,      \* data[r]: data_ of the JSON, doc_ of the XML repository
  dirty,     \* dirty[r]: dirty_
  pc,        \* pc[r]: "closed", "open", or where r is in write()
  closing,   \* closing[r]: the flush is that of the destructor
  changed,   \* history: data[r] is not what r last loaded or wrote
  last       \* history: last[r][i]: what r was last told about id i

vars == <<format, file, temp, data, dirty, pc, closing, changed, last>>

TypeOK ==
  /\ format \in Formats
  /\ file \in Contents
  /\ temp \in [Repos -> Contents]
  /\ data \in [Repos -> Seq(Items)]
  /\ dirty \in [Repos -> BOOLEAN]
  /\ pc \in [Repos -> {"closed", "open", "write", "rename"}]
  /\ closing \in [Repos -> BOOLEAN]
  /\ changed \in [Repos -> BOOLEAN]
  /\ last \in [Repos -> [Ids -> Bodies \cup {"unknown", "removed"}]]

NothingKnown == [i \in Ids |-> "unknown"]

(* A file edited by hand may hold an id twice.  XmlRuleRepository::remove  *)
(* takes only the first such rule away, so its files have no twins here.   *)
HasTwins(f) ==
  f \in Seq(Items) /\ \E i, j \in DOMAIN f : i # j /\ f[i].id = f[j].id

Init ==
  /\ format \in Formats
  /\ file \in {f \in Files : format = "xml" => ~HasTwins(f)}
  /\ temp = [r \in Repos |-> Absent]
  /\ data = [r \in Repos |-> << >>]
  /\ dirty = [r \in Repos |-> FALSE]
  /\ pc = [r \in Repos |-> "closed"]
  /\ closing = [r \in Repos |-> FALSE]
  /\ changed = [r \in Repos |-> FALSE]
  /\ last = [r \in Repos |-> NothingKnown]

(* The object is gone, and its memory with it. *)
Gone(r) ==
  /\ pc' = [pc EXCEPT ![r] = "closed"]
  /\ data' = [data EXCEPT ![r] = << >>]
  /\ changed' = [changed EXCEPT ![r] = FALSE]
  /\ dirty' = [dirty EXCEPT ![r] = FALSE]
  /\ temp' = [temp EXCEPT ![r] = Absent]
  /\ closing' = [closing EXCEPT ![r] = FALSE]
  /\ last' = [last EXCEPT ![r] = NothingKnown]

(* What load() makes of a file.  JSON that does not parse, or is not an    *)
(* array, is an empty repository; pugixml keeps the rules before the error. *)
(* A file that cannot be opened counts as an empty one.                    *)
Loaded(f) ==
  CASE f = Absent -> {<< >>}
    [] f = Torn -> IF format = "json" THEN {<< >>}
                   ELSE {<< >>} \cup {<<it>> : it \in Items}
    [] OTHER -> {f, << >>}

Open(r) ==
  /\ pc[r] = "closed"
  /\ \E d \in Loaded(file) : data' = [data EXCEPT ![r] = d]
  /\ pc' = [pc EXCEPT ![r] = "open"]
  /\ UNCHANGED <<format, file, temp, dirty, closing, changed, last>>

(***************************************************************************)
(* save and remove.                                                        *)
(***************************************************************************)
PlacesOf(d, i) == {n \in DOMAIN d : d[n].id = i}
FirstPlace(d, i) == CHOOSE n \in PlacesOf(d, i) : \A m \in PlacesOf(d, i) : n <= m
Without(d, i) ==
  LET kept[n \in 0 .. Len(d)] ==
        IF n = 0 THEN << >>
        ELSE IF d[n].id = i THEN kept[n - 1] ELSE Append(kept[n - 1], d[n])
  IN kept[Len(d)]

(* findById; exists is Find(d, i) # Absent. *)
Find(d, i) == IF PlacesOf(d, i) = {} THEN Absent ELSE d[FirstPlace(d, i)].body

(* JSON replaces the first rule with the id in place; XML takes all of     *)
(* them away and appends.                                                  *)
Upsert(d, it) ==
  IF format = "xml" THEN Append(Without(d, it.id), it)
  ELSE IF PlacesOf(d, it.id) = {} THEN Append(d, it)
  ELSE [d EXCEPT ![FirstPlace(d, it.id)] = it]

(* The rule and then its direct children, one after the other. *)
ItemsOf(rule) == <<[id |-> rule.id, body |-> rule.body]>> \o rule.children

(* The memory after all of them, and what save was told of each id. *)
UpsertAll(d, items) ==
  LET up[n \in 0 .. Len(items)] == IF n = 0 THEN d ELSE Upsert(up[n - 1], items[n])
  IN up[Len(items)]
Told(l, items) ==
  LET told[n \in 0 .. Len(items)] ==
        IF n = 0 THEN l ELSE [told[n - 1] EXCEPT ![items[n].id] = items[n].body]
  IN told[Len(items)]

Save(r, rule) ==
  /\ pc[r] = "open"
  /\ data' = [data EXCEPT ![r] = UpsertAll(@, ItemsOf(rule))]
  /\ dirty' = [dirty EXCEPT ![r] = TRUE]
  /\ changed' = [changed EXCEPT ![r] = @ \/ data'[r] # data[r]]
  /\ last' = [last EXCEPT ![r] = Told(@, ItemsOf(rule))]
  /\ UNCHANGED <<format, file, temp, pc, closing>>

(* Only a rule that is there makes the repository dirty. *)
RemoveRule(r, i) ==
  /\ pc[r] = "open"
  /\ LET n == FirstPlace(data[r], i)
         d == IF PlacesOf(data[r], i) = {} THEN data[r]
              ELSE IF format = "json" THEN Without(data[r], i)
              ELSE RemoveAt(data[r], n)
     IN data' = [data EXCEPT ![r] = d]
  /\ dirty' = [dirty EXCEPT ![r] = @ \/ PlacesOf(data[r], i) # {}]
  /\ changed' = [changed EXCEPT ![r] = @ \/ data'[r] # data[r]]
  /\ last' = [last EXCEPT ![r][i] = "removed"]
  /\ UNCHANGED <<format, file, temp, pc, closing>>

(***************************************************************************)
(* flush, the destructor, and write().                                     *)
(***************************************************************************)
(* A bug: write() opens the file itself. *)
BeginWriteInPlace(r, destructor) ==
  /\ pc[r] = "open"
  /\ dirty[r]
  /\ file' = Torn
  /\ pc' = [pc EXCEPT ![r] = "write"]
  /\ closing' = [closing EXCEPT ![r] = destructor]
  /\ UNCHANGED <<format, temp, data, dirty, changed, last>>

(* write() creates its temporary file, under a name no other writer has: a  *)
(* counter and the id of the thread, which are distinct in one process, and *)
(* in several as far as their thread ids differ.                            *)
BeginWrite(r, destructor) ==
  /\ pc[r] = "open"
  /\ dirty[r]
  /\ temp' = [temp EXCEPT ![r] = Torn]
  /\ pc' = [pc EXCEPT ![r] = "write"]
  /\ closing' = [closing EXCEPT ![r] = destructor]
  /\ UNCHANGED <<format, file, data, dirty, changed, last>>

(* The destructor of a repository that is clean. *)
CloseClean(r) ==
  /\ pc[r] = "open"
  /\ ~dirty[r]
  /\ Gone(r)
  /\ UNCHANGED <<format, file>>

(* flush() returns or throws, leaving the flag d and the history c; the    *)
(* destructor swallows what is thrown, and the object is gone.             *)
AfterFlush(r, d, c) ==
  IF closing[r] THEN Gone(r)
  ELSE /\ pc' = [pc EXCEPT ![r] = "open"]
       /\ dirty' = [dirty EXCEPT ![r] = d]
       /\ changed' = [changed EXCEPT ![r] = c]
       /\ temp' = [temp EXCEPT ![r] = Absent]
       /\ UNCHANGED <<data, closing, last>>

(* The stream took everything. *)
WriteTemp(r) ==
  /\ pc[r] = "write"
  /\ temp' = [temp EXCEPT ![r] = data[r]]
  /\ pc' = [pc EXCEPT ![r] = "rename"]
  /\ UNCHANGED <<format, file, data, dirty, closing, changed, last>>

(* The temporary file cannot be opened or written, and stays behind under  *)
(* a name that is not used again: write() throws.                          *)
WriteFails(r) ==
  /\ pc[r] = "write"
  /\ AfterFlush(r, TRUE, changed[r])
  /\ UNCHANGED <<format, file>>

(* rename(2) puts the temporary file in the place of the file, at the first *)
(* attempt or a later one.                                                  *)
Replace(r) ==
  /\ pc[r] = "rename"
  /\ file' = temp[r]
  /\ AfterFlush(r, FALSE, FALSE)
  /\ UNCHANGED format

(* A bug: the flag is cleared as if the write had landed. *)
GiveUpClean(r) ==
  /\ pc[r] = "rename"
  /\ AfterFlush(r, FALSE, changed[r])
  /\ UNCHANGED <<format, file>>

(* All attempts failed: atomicReplace removes the temporary file and throws. *)
GiveUp(r) ==
  /\ pc[r] = "rename"
  /\ AfterFlush(r, TRUE, changed[r])
  /\ UNCHANGED <<format, file>>

Crash(r) ==
  /\ pc[r] # "closed"
  /\ Gone(r)
  /\ UNCHANGED <<format, file>>

FlushStep(r) == WriteTemp(r) \/ WriteFails(r) \/ Replace(r) \/ GiveUp(r)

Next ==
  \E r \in Repos :
    \/ Open(r) \/ CloseClean(r) \/ Crash(r) \/ FlushStep(r)
    \/ \E rule \in SavedRules : Save(r, rule)
    \/ \E i \in Ids : RemoveRule(r, i)
    \/ \E destructor \in BOOLEAN : BeginWrite(r, destructor)

Spec == Init /\ [][Next]_vars

(***************************************************************************)
(* Properties                                                              *)
(***************************************************************************)
(* "an interrupted or failed write cannot leave a truncated/corrupt rule   *)
(* store behind" (json_repository.cpp:189): whenever the file changes, it  *)
(* becomes the complete memory of one repository, whoever else writes,     *)
(* fails or crashes.                                                       *)
FileIsReplacedWhole ==
  [][file' # file => \E r \in Repos : pc[r] = "rename" /\ file' = data[r]]_vars

(* "Only clear the dirty flag once the data really reached disk"           *)
(* (json_repository.cpp:156): memory that differs from what the repository *)
(* loaded or wrote last is dirty, so that the next flush or the destructor *)
(* writes it, however many writes have failed.                             *)
NoChangeIsForgotten == \A r \in Repos : changed[r] => dirty[r]

(* A repository answers with what it was told last: a saved rule, or a     *)
(* child saved with it, is found, a removed one is not, in whatever order, *)
(* with twins in the file or without.                                      *)
AnswersAreCurrent ==
  \A r \in Repos, i \in Ids :
    last[r][i] # "unknown" =>
      Find(data[r], i) = IF last[r][i] = "removed" THEN Absent ELSE last[r][i]
=============================================================================
