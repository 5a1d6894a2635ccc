-------------------------- MODULE WorkflowTransfer --------------------------
(***************************************************************************)
(* JsonLoader and XmlLoader: threads load workflows from documents, save   *)
(* what they have loaded and load it again, in either format.  A workflow  *)
(* and a document are the rules in the order in which the recursion meets  *)
(* them, each with its nesting depth.  The JSON loader draws missing ids   *)
(* from one counter of the process; of a rule the fields that the two      *)
(* formats treat differently are kept.                                     *)
(***************************************************************************)
EXTENDS MachineInt, Sequences, FiniteSets

CONSTANTS
  Loaders,       \* threads
  Documents,     \* documents from outside: sequences of
                 \* [id, name, dep, timeout, depth]
  DocNames,      \* names of rules
  Unnamed,       \* the empty name
  DocUnits,      \* units of durations, "none" and meaningless ones included
  Missing,       \* an attribute that is not there
  Malformed,     \* an id that is a string and no number
  kMaxRuleNestingDepth,
  MaxLoads       \* bound: loads

(* A rule in a document: a duration has a unit in JSON. *)
Durations == [n : Int, unit : DocUnits]
DocNodes ==
  [id : Int \cup {Missing, Malformed}, name : DocNames \cup {Missing},
   dep : DocNames \cup {Missing}, timeout : Durations \cup {Missing}, depth : Nat]

ASSUME TransferAssumption ==
  /\ kMaxRuleNestingDepth \in Nat /\ MaxLoads \in Nat
  /\ Unnamed \in DocNames /\ "none" \in DocUnits
  /\ IsFiniteSet(Loaders) /\ Documents \subseteq Seq(DocNodes)
  /\ {Missing, Malformed} \cap Int = {} /\ Missing \notin Durations

TransferFormats == {"json", "xml"}
NotLoading == [format |-> "none", orig |-> 0, todo |-> <<>>, rules |-> <<>>]

VARIABLES
  ruleIdCounter,  \* JsonLoader's atomic counter
  loading,        \* loading[t]: the load thread t is in
  flows,          \* workflows in memory: [format, orig, rules]; orig is the one
                  \* it was saved from, 0 for a document from outside
  refused         \* loads that threw: [format, orig]

transferVars == <<ruleIdCounter, loading, flows, refused>>

TransferInit ==
  /\ ruleIdCounter = 0 /\ flows = <<>> /\ refused = <<>>
  /\ loading = [t \in Loaders |-> NotLoading]

(* serializeRule: the name is not written; an XML duration is cast to int. *)
SavedTimeout(format, t) ==
  IF t = Missing THEN Missing
  ELSE [n |-> IF format = "xml" THEN CastToInt(t) ELSE t, unit |-> "none"]
Saved(format, rules) ==
  [i \in DOMAIN rules |->
    [id |-> rules[i].id, name |-> Missing, dep |-> rules[i].dep,
     timeout |-> SavedTimeout(format, rules[i].timeout), depth |-> rules[i].depth]]

(* The JSON serializer and parser throw below the deepest level; XML has none. *)
TooDeep(format, depth) == format = "json" /\ depth > kMaxRuleNestingDepth
SaveThrows(format, rules) == \E i \in DOMAIN rules : TooDeep(format, rules[i].depth)

(* Durations: a number of milliseconds; JSON also takes the units ms, s and  *)
(* m and drops anything else, XML reads the digits and clamps them to int.   *)
Milliseconds(format, t) ==
  CASE t = Missing -> Missing
    [] t # Missing /\ format = "xml" -> IF t.n >= IntBound THEN IntBound - 1 ELSE t.n
    [] t # Missing /\ format = "json" /\ t.unit \in {"none", "ms"} -> t.n
    [] t # Missing /\ format = "json" /\ t.unit = "s" -> t.n * 1000
    [] t # Missing /\ format = "json" /\ t.unit = "m" -> t.n * 60000
    [] OTHER -> Missing

IdThrows(format, id) == format = "json" /\ id = Malformed
IsGenerated(format, id) == format = "json" /\ id = Missing
ParsedId(format, id, fresh) ==
  IF IsGenerated(format, id) THEN fresh
  ELSE IF id \in {Missing, Malformed} THEN 0 ELSE id

(* parseRule; only the JSON parser links a child to its parent. *)
Parsed(format, node, fresh) ==
  [id |-> ParsedId(format, node.id, fresh),
   generated |-> IsGenerated(format, node.id),
   name |-> IF node.name = Missing THEN Unnamed ELSE node.name,
   dep |-> node.dep, timeout |-> Milliseconds(format, node.timeout),
   depth |-> node.depth, parent |-> format = "json" /\ node.depth > 0]

(* A bug: each load counts for itself. *)
NextIdOfLoad(t) == Len(loading[t].rules) + 1

(* ++ruleIdCounter *)
NextId(t) == ruleIdCounter + 1

BeginLoad(t, format, orig, doc) ==
  /\ loading[t] = NotLoading
  /\ loading' = [loading EXCEPT ![t] =
       [format |-> format, orig |-> orig, todo |-> doc, rules |-> <<>>]]
  /\ UNCHANGED <<ruleIdCounter, flows, refused>>

Loads ==
  Len(flows) + Len(refused) + Cardinality({t \in Loaders : loading[t] # NotLoading})
LoadDocument(t, format) ==
  /\ Loads < MaxLoads /\ \E doc \in Documents : BeginLoad(t, format, 0, doc)
(* saveWorkflow followed by loadWorkflow of what it wrote *)
LoadSaved(t, format, orig) ==
  /\ Loads < MaxLoads /\ flows[orig].orig = 0
  /\ ~SaveThrows(format, flows[orig].rules)
  /\ BeginLoad(t, format, orig, Saved(format, flows[orig].rules))

ParseRule(t) ==
  /\ loading[t].todo # <<>>
  /\ LET l == loading[t]
         node == Head(l.todo) IN
       IF TooDeep(l.format, node.depth) \/ IdThrows(l.format, node.id)
         THEN /\ refused' = Append(refused, [format |-> l.format, orig |-> l.orig])
              /\ loading' = [loading EXCEPT ![t] = NotLoading]
              /\ UNCHANGED ruleIdCounter
         ELSE /\ loading' = [loading EXCEPT ![t].todo = Tail(l.todo),
                   ![t].rules = Append(l.rules, Parsed(l.format, node, NextId(t)))]
              /\ ruleIdCounter' = ruleIdCounter + IF IsGenerated(l.format, node.id) THEN 1 ELSE 0
              /\ UNCHANGED refused
  /\ UNCHANGED flows

FinishLoad(t) ==
  /\ loading[t] # NotLoading /\ loading[t].todo = <<>>
  /\ flows' = Append(flows, [format |-> loading[t].format, orig |-> loading[t].orig,
                             rules |-> loading[t].rules])
  /\ loading' = [loading EXCEPT ![t] = NotLoading]
  /\ UNCHANGED <<ruleIdCounter, refused>>

TransferNext ==
  \E t \in Loaders :
    \/ \E format \in TransferFormats : \/ LoadDocument(t, format)
                               \/ \E orig \in DOMAIN flows : LoadSaved(t, format, orig)
    \/ ParseRule(t) \/ FinishLoad(t)

TransferSpec == TransferInit /\ [][TransferNext]_transferVars

-----------------------------------------------------------------------------
TransferTypeOK ==
  /\ ruleIdCounter \in Nat /\ Len(flows) <= MaxLoads
  /\ \A i \in DOMAIN flows : flows[i].format \in TransferFormats /\ flows[i].orig \in 0 .. i - 1
  /\ \A t \in Loaders : loading[t].format \in TransferFormats \cup {"none"}

(* A workflow that is saved and loaded again, in either format, has the ids,  *)
(* dependencies, nesting and, where an int can hold them, durations of the    *)
(* one in memory, whatever the other threads load meanwhile.  Only the names   *)
(* are gone, and XML does not restore the links to the parents.               *)
ReloadKeepsAllButNames ==
  \A i \in DOMAIN flows : flows[i].orig # 0 =>
    LET old == flows[flows[i].orig].rules
        new == flows[i].rules IN
      /\ Len(new) = Len(old)
      /\ \A k \in DOMAIN new :
           /\ new[k].id = old[k].id /\ new[k].dep = old[k].dep /\ new[k].depth = old[k].depth
           /\ new[k].name = Unnamed /\ new[k].parent = (flows[i].format = "json" /\ old[k].depth > 0)
           /\ (flows[i].format = "json" \/ old[k].timeout \in {Missing} \cup -IntBound .. IntBound - 1)
                => new[k].timeout = old[k].timeout

(* What a loader could save it can load: the serializer and the parser agree  *)
(* on the deepest nesting, and a saved workflow has an id for every rule.     *)
LoadsWhatItSaved == \A i \in DOMAIN refused : refused[i].orig = 0

(* Ids drawn from the counter are drawn once, over all threads and all       *)
(* workflows loaded from outside (explicit ids may collide with them).       *)
GeneratedOnce ==
  LET outside == {i \in DOMAIN flows : flows[i].orig = 0} IN
    \A i, j \in outside : \A k \in DOMAIN flows[i].rules, m \in DOMAIN flows[j].rules :
      /\ flows[i].rules[k].generated /\ flows[j].rules[m].generated
      /\ flows[i].rules[k].id = flows[j].rules[m].id
      => i = j /\ k = m

(* A workflow survives its way through a document and back, in both formats, *)
(* with several threads drawing ids from one counter.                        *)
TransferIsFaithful == TransferTypeOK /\ ReloadKeepsAllButNames /\ LoadsWhatItSaved /\ GeneratedOnce
=============================================================================
