----------------------------- MODULE RuleContext ----------------------------
(***************************************************************************)
(* RuleContext: results, variables and the last error under one            *)
(* shared_mutex.  Every method but operator= holds one lock and is one     *)
(* step here; operator= locks the other context shared, then its own       *)
(* exclusively, and copies member by member.  A content is told by how     *)
(* often it was written: a rule sets its result, then its variable.        *)
(***************************************************************************)
EXTENDS Integers, FiniteSets

CONSTANTS
  ContextThreads,
  Contexts,
  AssignmentPairs,  \* the <<this, other>> that some thread assigns
  MaxWrites,        \* bound: results set
  MaxAssignments    \* bound: assignments

ASSUME ContextAssumption ==
  /\ AssignmentPairs \subseteq Contexts \X Contexts
  /\ MaxWrites \in Nat /\ MaxAssignments \in Nat

VARIABLES
  contents,   \* contents[c]: [results, variables, error]
  sharedBy,   \* sharedBy[c]: threads with a shared lock on c
  ownedBy,    \* ownedBy[c]: threads with the exclusive lock, at most one
  assigning,  \* assigning[t]: where thread t is in operator=
  contextOps  \* [writes, assignments] so far

contextVars == <<contents, sharedBy, ownedBy, assigning, contextOps>>

EmptyContext == [results |-> 0, variables |-> 0, error |-> 0]
Idle == [at |-> "idle", pair |-> <<>>]

ContextInit ==
  /\ contents = [c \in Contexts |-> EmptyContext]
  /\ sharedBy = [c \in Contexts |-> {}] /\ ownedBy = [c \in Contexts |-> {}]
  /\ assigning = [t \in ContextThreads |-> Idle]
  /\ contextOps = [writes |-> 0, assignments |-> 0]

CanOwn(c) == sharedBy[c] = {} /\ ownedBy[c] = {}
CanShare(c) == ownedBy[c] = {}

Write(c, content) ==
  /\ CanOwn(c)
  /\ contents' = [contents EXCEPT ![c] = content]
  /\ UNCHANGED <<sharedBy, ownedBy, assigning>>

SetResult(c) ==
  /\ contextOps.writes < MaxWrites
  /\ contextOps' = [contextOps EXCEPT !.writes = @ + 1]
  /\ Write(c, [contents[c] EXCEPT !.results = @ + 1])
SetVariable(c) ==
  /\ contents[c].variables < contents[c].results /\ UNCHANGED contextOps
  /\ Write(c, [contents[c] EXCEPT !.variables = @ + 1])
SetLastError(c) ==
  /\ contents[c].error < contents[c].results /\ UNCHANGED contextOps
  /\ Write(c, [contents[c] EXCEPT !.error = contents[c].results])

(* clear leaves the last error where it is. *)
ClearContext(c) ==
  UNCHANGED contextOps /\ Write(c, [EmptyContext EXCEPT !.error = contents[c].error])
ClearLastError(c) == UNCHANGED contextOps /\ Write(c, [contents[c] EXCEPT !.error = 0])

(* The copy constructor: into a context nobody else knows yet, by a thread   *)
(* that holds a shared lock on the other.                                    *)
CopyConstruct(c, other) ==
  /\ c # other /\ CanShare(other) /\ UNCHANGED contextOps
  /\ contents[c] = EmptyContext /\ Write(c, contents[other])

-----------------------------------------------------------------------------
Step(t, where) == assigning' = [assigning EXCEPT ![t].at = where]

(* operator=: nothing for a self-assignment, else the shared lock. *)
Assign(t, this, other) ==
  /\ assigning[t] = Idle /\ this # other /\ CanShare(other)
  /\ contextOps.assignments < MaxAssignments
  /\ contextOps' = [contextOps EXCEPT !.assignments = @ + 1]
  /\ sharedBy' = [sharedBy EXCEPT ![other] = @ \cup {t}]
  /\ assigning' = [assigning EXCEPT ![t] = [at |-> "lock", pair |-> <<this, other>>]]
  /\ UNCHANGED <<contents, ownedBy>>

LockThis(t) ==
  /\ assigning[t].at = "lock"
  /\ LET this == assigning[t].pair[1] IN
       CanOwn(this) /\ ownedBy' = [ownedBy EXCEPT ![this] = {t}]
  /\ Step(t, "results")
  /\ UNCHANGED <<contents, sharedBy, contextOps>>

CopyResults(t) ==
  /\ assigning[t].at = "results"
  /\ LET p == assigning[t].pair IN
       contents' = [contents EXCEPT ![p[1]].results = contents[p[2]].results]
  /\ Step(t, "rest")
  /\ UNCHANGED <<sharedBy, ownedBy, contextOps>>

Unlocked(p, t) ==
  /\ sharedBy' = [sharedBy EXCEPT ![p[2]] = @ \ {t}]
  /\ ownedBy' = [ownedBy EXCEPT ![p[1]] = {}]
CopyRest(t) ==
  /\ assigning[t].at = "rest"
  /\ LET p == assigning[t].pair IN
       /\ contents' = [contents EXCEPT ![p[1]].variables = contents[p[2]].variables,
                                       ![p[1]].error = contents[p[2]].error]
       /\ Unlocked(p, t)
  /\ assigning' = [assigning EXCEPT ![t] = Idle]
  /\ UNCHANGED contextOps

AssignStep(t) == LockThis(t) \/ CopyResults(t) \/ CopyRest(t)

ContextNext ==
  \/ \E c \in Contexts : \/ SetResult(c) \/ SetVariable(c) \/ SetLastError(c)
                         \/ ClearContext(c) \/ ClearLastError(c)
                         \/ \E other \in Contexts : CopyConstruct(c, other)
  \/ \E t \in ContextThreads :
       AssignStep(t) \/ \E p \in AssignmentPairs : Assign(t, p[1], p[2])

(* A thread that can take its lock or copy does so. *)
ContextFairness == \A t \in ContextThreads : WF_contextVars(AssignStep(t))

-----------------------------------------------------------------------------
(* No copy is torn: a rule's variable is never seen in a context without the *)
(* result set before it, unless the context was cleared of it, by whatever   *)
(* threads write to and assign from a context at the same time.  Of the last *)
(* error, which clear() keeps, nothing is claimed.                           *)
CopyIsOneMoment ==
  \A c \in Contexts :
    (\A t \in ContextThreads : assigning[t].at = "rest" => assigning[t].pair[1] # c) =>
      contents[c].variables <= contents[c].results

(* "Lock both contexts to prevent deadlock": an assignment always ends, as   *)
(* long as no two threads assign the same two contexts in opposite           *)
(* directions, or round a longer cycle (AssignmentPairs has none).           *)
AssignmentEnds == \A t \in ContextThreads : (assigning[t] # Idle) ~> (assigning[t] = Idle)
=============================================================================
