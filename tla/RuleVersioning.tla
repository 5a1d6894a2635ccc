---------------------------- MODULE RuleVersioning --------------------------
(***************************************************************************)
(* RuleVersionManager: a history of versions per rule, added by snapshots  *)
(* of single rules and of whole workflows, and the queries on it.  Each    *)
(* public method holds the manager's mutex.  Version ids are the second    *)
(* of the snapshot and a process-wide counter; the clock is system_clock,  *)
(* which may be set back.                                                  *)
(***************************************************************************)
EXTENDS Integers, Sequences

CONSTANTS
  TrackedRules,  \* ids of the workflow's rules, as a sequence
  Configs,       \* what a version keeps of a rule: [body, priority]
  NoVersion,     \* no version, no parent
  MaxSnapshots,  \* bound: versions
  MaxWallClock   \* bound: system_clock

TrackedIds == {TrackedRules[i] : i \in DOMAIN TrackedRules}

(* What a version keeps: an import sets the priority to the default. *)
KeptConfigs == [body : {c.body : c \in Configs}, priority : Int]
VersionIds == (0 .. MaxWallClock) \X (1 .. MaxSnapshots)
Versions ==
  [versionId : VersionIds, ruleName : TrackedIds, config : KeptConfigs,
   createdAt : 0 .. MaxWallClock, parentVersionId : VersionIds \cup {NoVersion}]
RolledBack == [id : TrackedIds, config : KeptConfigs]

(* The rules of the workflow have ids of their own. *)
ASSUME VersioningAssumption ==
  /\ Configs \subseteq KeptConfigs /\ MaxSnapshots \in Nat /\ MaxWallClock \in Nat
  /\ TrackedRules \in Seq(TrackedIds)
  /\ \A i, j \in DOMAIN TrackedRules : TrackedRules[i] = TrackedRules[j] => i = j
  /\ NoVersion \notin Versions /\ NoVersion \notin RolledBack

VARIABLES
  config,     \* config[r]: the rule as it is now
  histories,  \* histories[r]: its versions, oldest first
  counter,    \* the static counter of generateVersionId
  wallClock,  \* system_clock
  taken,      \* taken[v]: rule and configuration when version v was made
  dump,       \* histories an export has written so far, in the order of TrackedRules
  importing   \* histories an import reads, without the versions it has snapshot

versionVars == <<config, histories, counter, wallClock, taken, dump, importing>>

VersioningInit ==
  /\ config \in [TrackedIds -> Configs]
  /\ histories = [r \in TrackedIds |-> <<>>]
  /\ counter = 0 /\ wallClock = 0 /\ taken = <<>>
  /\ dump = <<>> /\ importing = <<>>

(* A bug: the id is the second alone. *)
GenerateVersionIdSecondOnly(time, count) == <<time, 1>>

(* YYYYMMDD-HHMMSS-counter. *)
GenerateVersionId(time, count) == <<time, count>>

GetLatest(h) == IF h = <<>> THEN NoVersion ELSE h[Len(h)]

(* snapshotRuleLocked: the new version of rule r with configuration c, made  *)
(* as the n-th version of the process, with the latest one as its parent.    *)
SnapshotOf(r, c, n) ==
  [versionId |-> GenerateVersionId(wallClock, n), ruleName |-> r, config |-> c,
   createdAt |-> wallClock,
   parentVersionId |-> IF GetLatest(histories[r]) = NoVersion THEN NoVersion
                       ELSE GetLatest(histories[r]).versionId]

(* The pairs <<rule, configuration>> of batch, of different rules, are       *)
(* snapshot one after the other under one lock.                              *)
Snapshot(batch) ==
  /\ counter + Len(batch) <= MaxSnapshots
  /\ histories' = [r \in TrackedIds |->
       IF \E i \in DOMAIN batch : batch[i][1] = r
         THEN LET i == CHOOSE j \in DOMAIN batch : batch[j][1] = r IN
                Append(histories[r], SnapshotOf(r, batch[i][2], counter + i))
         ELSE histories[r]]
  /\ counter' = counter + Len(batch)
  /\ taken' = taken \o batch
  /\ UNCHANGED <<config, wallClock, dump>>
SnapshotRule(r) == Snapshot(<< <<r, config[r]>> >>) /\ UNCHANGED importing
SnapshotWorkflow ==
  /\ Snapshot([i \in DOMAIN TrackedRules |-> <<TrackedRules[i], config[TrackedRules[i]]>>])
  /\ UNCHANGED importing

(* serialize of a manager takes the histories under one lock each; snapshots *)
(* go on in between.  deserialize snapshots the versions of the dump anew,   *)
(* one by one, under ids and times of its own and with the default priority. *)
ExportHistory ==
  /\ Len(dump) < Len(TrackedRules)
  /\ dump' = Append(dump, histories[TrackedRules[Len(dump) + 1]])
  /\ UNCHANGED <<config, histories, counter, wallClock, taken, importing>>
BeginImport ==
  /\ dump # <<>> /\ Len(dump) = Len(TrackedRules)
  /\ \A i \in DOMAIN importing : importing[i] = <<>>
  /\ importing' = dump /\ dump' = <<>>
  /\ UNCHANGED <<config, histories, counter, wallClock, taken>>
Unpacked(v) == <<v.ruleName, [v.config EXCEPT !.priority = 0]>>
ImportVersion ==
  \E i \in DOMAIN importing :
    /\ importing[i] # <<>> /\ \A j \in 1 .. i - 1 : importing[j] = <<>>
    /\ Snapshot(<<Unpacked(Head(importing[i]))>>)
    /\ importing' = [importing EXCEPT ![i] = Tail(@)]

Edit(r, c) ==
  /\ config[r] # c
  /\ config' = [config EXCEPT ![r] = c]
  /\ UNCHANGED <<histories, counter, wallClock, taken, dump, importing>>

SetClock(t) ==
  /\ t # wallClock
  /\ wallClock' = t
  /\ UNCHANGED <<config, histories, counter, taken, dump, importing>>

-----------------------------------------------------------------------------
(* The queries.  getVersion takes the first version with the id. *)
VersionsOf(r) == {histories[r][i] : i \in DOMAIN histories[r]}
GetVersion(r, id) ==
  IF \E v \in VersionsOf(r) : v.versionId = id
    THEN histories[r][CHOOSE i \in DOMAIN histories[r] :
           /\ histories[r][i].versionId = id
           /\ \A j \in 1 .. i - 1 : histories[r][j].versionId # id]
    ELSE NoVersion

(* getVersionAt scans from the oldest and replaces the best one only by a    *)
(* version that is strictly newer: of versions of one instant the first.     *)
GetVersionAt(r, t) ==
  LET h == histories[r]
      before == {i \in DOMAIN h : h[i].createdAt <= t} IN
    IF before = {} THEN NoVersion
    ELSE h[CHOOSE i \in before :
             /\ \A j \in before : h[j].createdAt <= h[i].createdAt
             /\ \A j \in before : j < i => h[j].createdAt < h[i].createdAt]

(* rollbackTo: a new rule with the version's id and configuration; everything *)
(* a version does not keep (children, dependency, timeout) is gone.           *)
RollbackTo(r, id) ==
  LET v == GetVersion(r, id) IN
    IF v = NoVersion THEN NoVersion ELSE [id |-> v.ruleName, config |-> v.config]

(* rollbackWorkflow: the rules whose history has the version. *)
RollbackWorkflow(id) ==
  {RollbackTo(r, id) : r \in {q \in TrackedIds : RollbackTo(q, id) # NoVersion}}

(* diff: the fields that differ; listVersions: newest first. *)
Diff(r, a, b) == IF GetVersion(r, a).config = GetVersion(r, b).config THEN {} ELSE {"changed"}
ListVersions(r) ==
  [i \in DOMAIN histories[r] |-> histories[r][Len(histories[r]) + 1 - i]]

VersioningNext ==
  \/ \E r \in TrackedIds : SnapshotRule(r) \/ \E c \in Configs : Edit(r, c)
  \/ SnapshotWorkflow \/ ExportHistory \/ BeginImport \/ ImportVersion
  \/ \E t \in 0 .. MaxWallClock : SetClock(t)

VersioningSpec == VersioningInit /\ [][VersioningNext]_versionVars

-----------------------------------------------------------------------------
AllVersions == UNION {VersionsOf(r) : r \in TrackedIds}

VersioningTypeOK ==
  /\ config \in [TrackedIds -> Configs] /\ histories \in [TrackedIds -> Seq(Versions)]
  /\ counter \in 0 .. MaxSnapshots /\ wallClock \in 0 .. MaxWallClock
  /\ taken \in Seq(TrackedIds \X KeptConfigs) /\ Len(taken) = counter
  /\ dump \in Seq(Seq(Versions)) /\ importing \in Seq(Seq(Versions))

(* A version id names one snapshot, also when the clock stands still or is   *)
(* set back: rollbackTo of its rule's history is the rule as it was snapshot  *)
(* under it, and rollbackTo of any other history does not find it.            *)
RollbackIsTheSnapshot ==
  \A r \in TrackedIds, v \in AllVersions :
    LET n == v.versionId[2] IN
      RollbackTo(r, v.versionId) =
        IF taken[n][1] = r THEN [id |-> r, config |-> taken[n][2]] ELSE NoVersion

(* "Rollback entire workflow to a snapshot" (rule_versioning.hpp:112): once   *)
(* every rule was snapshot, some version id brings every rule back.  An id    *)
(* names the snapshot of one rule, also within a snapshot of the workflow, so *)
(* of a workflow of several rules rollbackWorkflow gives at most one.         *)
WorkflowRollsBackWhole ==
  (\A r \in TrackedIds : histories[r] # <<>>) =>
    \E v \in AllVersions : {x.id : x \in RollbackWorkflow(v.versionId)} = TrackedIds

(* The parents of a version are the versions of the same rule before it, one  *)
(* by one: the chain of parents leads from the latest to the first version.   *)
ParentsAreAChain ==
  \A r \in TrackedIds : \A i \in DOMAIN histories[r] :
    histories[r][i].parentVersionId =
      IF i = 1 THEN NoVersion ELSE histories[r][i - 1].versionId

(* "Finds the newest version created at or before the timestamp", by the      *)
(* clock's order also where it differs from the order of the snapshots.       *)
VersionAtIsNewest ==
  \A r \in TrackedIds, t \in 0 .. MaxWallClock :
    LET v == GetVersionAt(r, t) IN
      IF v = NoVersion THEN \A u \in VersionsOf(r) : u.createdAt > t
      ELSE v.createdAt <= t /\ \A u \in VersionsOf(r) : u.createdAt \notin v.createdAt + 1 .. t

(* An empty diff of a version with its parent means that nothing that is       *)
(* kept has changed between the two snapshots.                                 *)
EmptyDiffMeansUnchanged ==
  \A r \in TrackedIds : \A i \in 2 .. Len(histories[r]) :
    LET v == ListVersions(r)[Len(histories[r]) + 1 - i] IN
      (Diff(r, v.parentVersionId, v.versionId) = {}) <=>
        (histories[r][i - 1].config = histories[r][i].config)

(* A history answers by id, by time and by parent with the snapshots that    *)
(* were taken, although the clock may be set back between them.              *)
HistoryIsTrue ==
  VersioningTypeOK /\ RollbackIsTheSnapshot /\ ParentsAreAChain /\ VersionAtIsNewest
    /\ EmptyDiffMeansUnchanged
=============================================================================
