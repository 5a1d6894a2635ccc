----------------------------- MODULE AsyncProofs -----------------------------
(***************************************************************************)
(* What runs beside the caller's thread, for any number of threads, tasks, *)
(* contexts and calls: contexts are copied whole, timeouts stay the affair *)
(* of their call, the pool keeps every task, and executeParallelAsync      *)
(* reports every rule once, after what it depends on.                      *)
(***************************************************************************)
EXTENDS MCAsync, FiniteSetTheorems, SequenceTheorems, WellFoundedInduction, TLAPS

-----------------------------------------------------------------------------
(* RuleContext *)

Contents == [results : Nat, variables : Nat, error : Nat]
Assignments == [at : {"lock", "results", "rest"}, pair : Contexts \X Contexts]

ContextTypeOK ==
  /\ contents \in [Contexts -> Contents]
  /\ sharedBy \in [Contexts -> SUBSET ContextThreads]
  /\ ownedBy \in [Contexts -> SUBSET ContextThreads]
  /\ assigning \in [ContextThreads -> Assignments \cup {Idle}]
  /\ contextOps \in [writes : Nat, assignments : Nat]

(* Who assigns holds the other context shared, and its own once it copies; *)
(* a context with an owner has no other lock on it.                        *)
LocksHeld ==
  /\ \A t \in ContextThreads : assigning[t] # Idle =>
       /\ assigning[t].pair[1] # assigning[t].pair[2]
       /\ t \in sharedBy[assigning[t].pair[2]]
       /\ assigning[t].at \in {"results", "rest"} => ownedBy[assigning[t].pair[1]] = {t}
  /\ \A c \in Contexts : ownedBy[c] # {} => sharedBy[c] = {}

(* Half of the copy is there. *)
HalfCopied ==
  \A t \in ContextThreads : assigning[t] # Idle /\ assigning[t].at = "rest" =>
    contents[assigning[t].pair[1]].results = contents[assigning[t].pair[2]].results

ContextInv == ContextTypeOK /\ LocksHeld /\ HalfCopied /\ CopyIsOneMoment

(* Contexts that nobody has used. *)
LEMMA ContextInitInv == ContextInit => ContextInv
<1> SUFFICES ASSUME ContextInit PROVE ContextInv
  OBVIOUS
<1>1. ContextTypeOK
  BY DEF ContextInit, ContextTypeOK, Contents, EmptyContext
<1>2. LocksHeld /\ HalfCopied /\ CopyIsOneMoment
  BY DEF ContextInit, LocksHeld, HalfCopied, CopyIsOneMoment, EmptyContext
<1> QED BY <1>1, <1>2 DEF ContextInv

(* An assignment is one of the three steps, never Idle by another name. *)
LEMMA AssignmentIsNotIdle ==
  ASSUME ContextTypeOK, NEW t \in ContextThreads, assigning[t].at # "idle"
  PROVE  /\ assigning[t] # Idle /\ assigning[t] \in Assignments
         /\ assigning[t].pair[1] \in Contexts /\ assigning[t].pair[2] \in Contexts
         /\ assigning[t].pair = <<assigning[t].pair[1], assigning[t].pair[2]>>
<1>1. assigning[t] # Idle
  BY DEF Idle
<1>2. assigning[t] \in Assignments
  BY <1>1 DEF ContextTypeOK
<1> QED BY <1>1, <1>2 DEF Assignments

(* A method other than operator= writes to a context that nobody has       *)
(* locked: no copy from it or to it is in progress.                        *)
LEMMA WriteInv ==
  ASSUME ContextInv, NEW c \in Contexts, NEW content \in Contents, Write(c, content),
         content.variables <= content.results,
         contextOps' \in [writes : Nat, assignments : Nat]
  PROVE  ContextInv'
<1> USE DEF ContextInv
<1>1. /\ sharedBy[c] = {} /\ ownedBy[c] = {}
      /\ contents' = [contents EXCEPT ![c] = content]
      /\ sharedBy' = sharedBy /\ ownedBy' = ownedBy /\ assigning' = assigning
  BY DEF Write, CanOwn
<1>2. /\ contents'[c] = content
      /\ \A d \in Contexts : d # c => contents'[d] = contents[d]
  BY <1>1 DEF ContextTypeOK
<1>3. ContextTypeOK'
  BY <1>1 DEF ContextTypeOK
<1>4. LocksHeld'
  BY <1>1 DEF LocksHeld
<1>5. HalfCopied'
  <2> SUFFICES ASSUME NEW t \in ContextThreads, assigning[t] # Idle, assigning[t].at = "rest"
               PROVE  contents'[assigning[t].pair[1]].results
                        = contents'[assigning[t].pair[2]].results
    BY <1>1 DEF HalfCopied
  <2>1. /\ assigning[t].pair[1] \in Contexts /\ assigning[t].pair[2] \in Contexts
    BY AssignmentIsNotIdle
  <2>2. assigning[t].pair[1] # c /\ assigning[t].pair[2] # c
    BY <1>1 DEF LocksHeld
  <2> QED BY <1>2, <2>1, <2>2 DEF HalfCopied
<1>6. CopyIsOneMoment'
  BY <1>1, <1>2 DEF CopyIsOneMoment
<1> QED BY <1>3, <1>4, <1>5, <1>6

(* The setters, clear, clearLastError and the copy constructor. *)
LEMMA MethodInv ==
  ASSUME ContextInv, NEW c \in Contexts,
         \/ SetResult(c) \/ SetVariable(c) \/ SetLastError(c)
         \/ ClearContext(c) \/ ClearLastError(c)
         \/ \E other \in Contexts : CopyConstruct(c, other)
  PROVE  ContextInv'
<1>1. contents[c] \in Contents /\ contextOps \in [writes : Nat, assignments : Nat]
  BY DEF ContextInv, ContextTypeOK
<1>2. ASSUME NEW d \in Contexts, ownedBy[d] = {}
      PROVE  contents[d] \in Contents /\ contents[d].variables <= contents[d].results
  <2>1. ASSUME NEW t \in ContextThreads, assigning[t].at = "rest"
        PROVE  assigning[t].pair[1] # d
    BY <1>2, <2>1, AssignmentIsNotIdle DEF ContextInv, LocksHeld
  <2> QED BY <2>1 DEF ContextInv, ContextTypeOK, CopyIsOneMoment
<1>3. ownedBy[c] = {}
  BY DEF SetResult, SetVariable, SetLastError, ClearContext, ClearLastError, CopyConstruct,
         Write, CanOwn
<1>4. contents[c].variables <= contents[c].results
  BY <1>2, <1>3
<1>5. CASE SetResult(c)
  <2> DEFINE new == [contents[c] EXCEPT !.results = @ + 1]
  <2>1. new \in Contents /\ new.variables <= new.results
    BY <1>1, <1>4 DEF Contents
  <2>2. Write(c, new) /\ contextOps' \in [writes : Nat, assignments : Nat]
    BY <1>1, <1>5 DEF SetResult
  <2> HIDE DEF new
  <2> QED BY <2>1, <2>2, WriteInv
<1>6. CASE SetVariable(c)
  <2> DEFINE new == [contents[c] EXCEPT !.variables = @ + 1]
  <2>1. new \in Contents /\ new.variables <= new.results
    BY <1>1, <1>6 DEF Contents, SetVariable
  <2>2. Write(c, new) /\ contextOps' \in [writes : Nat, assignments : Nat]
    BY <1>1, <1>6 DEF SetVariable
  <2> HIDE DEF new
  <2> QED BY <2>1, <2>2, WriteInv
<1>7. CASE SetLastError(c)
  <2> DEFINE new == [contents[c] EXCEPT !.error = contents[c].results]
  <2>1. new \in Contents /\ new.variables <= new.results
    BY <1>1, <1>4 DEF Contents
  <2>2. Write(c, new) /\ contextOps' \in [writes : Nat, assignments : Nat]
    BY <1>1, <1>7 DEF SetLastError
  <2> HIDE DEF new
  <2> QED BY <2>1, <2>2, WriteInv
<1>8. CASE ClearContext(c)
  <2> DEFINE new == [EmptyContext EXCEPT !.error = contents[c].error]
  <2>1. new \in Contents /\ new.variables <= new.results
    BY <1>1 DEF Contents, EmptyContext
  <2>2. Write(c, new) /\ contextOps' \in [writes : Nat, assignments : Nat]
    BY <1>1, <1>8 DEF ClearContext
  <2> HIDE DEF new
  <2> QED BY <2>1, <2>2, WriteInv
<1>9. CASE ClearLastError(c)
  <2> DEFINE new == [contents[c] EXCEPT !.error = 0]
  <2>1. new \in Contents /\ new.variables <= new.results
    BY <1>1, <1>4 DEF Contents
  <2>2. Write(c, new) /\ contextOps' \in [writes : Nat, assignments : Nat]
    BY <1>1, <1>9 DEF ClearLastError
  <2> HIDE DEF new
  <2> QED BY <2>1, <2>2, WriteInv
<1>10. ASSUME NEW other \in Contexts, CopyConstruct(c, other) PROVE ContextInv'
  <2>1. ownedBy[other] = {} /\ Write(c, contents[other]) /\ contextOps' = contextOps
    BY <1>10 DEF CopyConstruct, CanShare
  <2> QED BY <1>1, <1>2, <2>1, WriteInv
<1> QED BY <1>5, <1>6, <1>7, <1>8, <1>9, <1>10

(* operator= begins: the other context has no owner, so nobody copies to it. *)
LEMMA AssignInv ==
  ASSUME ContextInv, NEW t \in ContextThreads, NEW this \in Contexts, NEW other \in Contexts,
         Assign(t, this, other)
  PROVE  ContextInv'
<1> USE DEF ContextInv
<1> DEFINE entry == [at |-> "lock", pair |-> <<this, other>>]
<1>1. /\ assigning[t] = Idle /\ this # other /\ ownedBy[other] = {}
      /\ sharedBy' = [sharedBy EXCEPT ![other] = @ \cup {t}]
      /\ assigning' = [assigning EXCEPT ![t] = entry]
      /\ contents' = contents /\ ownedBy' = ownedBy
      /\ contextOps' = [contextOps EXCEPT !.assignments = @ + 1]
  BY DEF Assign, CanShare
<1>2. entry \in Assignments /\ entry # Idle /\ entry.at = "lock" /\ entry.pair = <<this, other>>
  BY DEF Assignments, Idle
<1> HIDE DEF entry
<1>3. /\ assigning'[t] = entry
      /\ \A u \in ContextThreads : u # t => assigning'[u] = assigning[u]
      /\ sharedBy'[other] = sharedBy[other] \cup {t}
      /\ \A c \in Contexts : c # other => sharedBy'[c] = sharedBy[c]
      /\ \A c \in Contexts : sharedBy[c] \subseteq sharedBy'[c]
  BY <1>1 DEF ContextTypeOK
<1>4. ContextTypeOK'
  BY <1>1, <1>2 DEF ContextTypeOK
<1>5. LocksHeld'
  <2>1. ASSUME NEW u \in ContextThreads, assigning'[u] # Idle
        PROVE  /\ assigning'[u].pair[1] # assigning'[u].pair[2]
               /\ u \in sharedBy'[assigning'[u].pair[2]]
               /\ assigning'[u].at \in {"results", "rest"} =>
                    ownedBy'[assigning'[u].pair[1]] = {u}
    <3>1. CASE u = t
      BY <1>1, <1>2, <1>3, <3>1
    <3>2. CASE u # t
      <4>1. assigning[u] # Idle /\ assigning'[u] = assigning[u]
        BY <1>3, <2>1, <3>2
      <4>2. assigning[u].pair[2] \in Contexts
        BY <4>1 DEF ContextTypeOK, Assignments
      <4> QED BY <1>1, <1>3, <4>1, <4>2 DEF LocksHeld
    <3> QED BY <3>1, <3>2
  <2>2. \A c \in Contexts : ownedBy'[c] # {} => sharedBy'[c] = {}
    BY <1>1, <1>3 DEF LocksHeld
  <2> QED BY <2>1, <2>2 DEF LocksHeld
<1>6. HalfCopied' /\ CopyIsOneMoment'
  BY <1>1, <1>2, <1>3 DEF HalfCopied, CopyIsOneMoment, Idle
<1> QED BY <1>4, <1>5, <1>6

(* What a step of operator= knows of its own entry and changes of others'. *)
LEMMA StepEntry ==
  ASSUME ContextTypeOK, NEW t \in ContextThreads, NEW where \in {"results", "rest"},
         assigning[t].at # "idle", Step(t, where)
  PROVE  /\ assigning' \in [ContextThreads -> Assignments \cup {Idle}]
         /\ assigning'[t] # Idle /\ assigning'[t].at = where
         /\ assigning'[t].pair = assigning[t].pair
         /\ \A u \in ContextThreads : u # t => assigning'[u] = assigning[u]
<1>1. assigning[t] \in Assignments
  BY AssignmentIsNotIdle
<1>2. assigning' = [assigning EXCEPT ![t] = [assigning[t] EXCEPT !.at = where]]
  BY DEF Step
<1>3. [assigning[t] EXCEPT !.at = where] \in Assignments
  BY <1>1 DEF Assignments
<1>4. /\ assigning'[t] = [assigning[t] EXCEPT !.at = where]
      /\ \A u \in ContextThreads : u # t => assigning'[u] = assigning[u]
      /\ assigning' \in [ContextThreads -> Assignments \cup {Idle}]
  BY <1>2, <1>3 DEF ContextTypeOK
<1>5. assigning'[t].at = where /\ assigning'[t].pair = assigning[t].pair
  BY <1>1, <1>4 DEF Assignments
<1> QED BY <1>4, <1>5 DEF Idle

(* The own lock: nobody else may now copy from this context or to it. *)
LEMMA LockThisInv ==
  ASSUME ContextInv, NEW t \in ContextThreads, LockThis(t)
  PROVE  ContextInv'
<1> USE DEF ContextInv
<1> DEFINE this == assigning[t].pair[1]
           other == assigning[t].pair[2]
<1>1. /\ assigning[t].at = "lock" /\ sharedBy[this] = {} /\ ownedBy[this] = {}
      /\ ownedBy' = [ownedBy EXCEPT ![this] = {t}]
      /\ Step(t, "results")
      /\ contents' = contents /\ sharedBy' = sharedBy /\ contextOps' = contextOps
  BY DEF LockThis, CanOwn
<1>2. /\ assigning[t] # Idle /\ this \in Contexts /\ other \in Contexts
  BY <1>1, AssignmentIsNotIdle
<1>3. /\ assigning' \in [ContextThreads -> Assignments \cup {Idle}]
      /\ assigning'[t] # Idle /\ assigning'[t].at = "results"
      /\ assigning'[t].pair = assigning[t].pair
      /\ \A u \in ContextThreads : u # t => assigning'[u] = assigning[u]
  BY <1>1, StepEntry
<1>4. /\ ownedBy' \in [Contexts -> SUBSET ContextThreads]
      /\ ownedBy'[this] = {t} /\ \A c \in Contexts : c # this => ownedBy'[c] = ownedBy[c]
  BY <1>1, <1>2 DEF ContextTypeOK
<1>5. ContextTypeOK'
  BY <1>1, <1>3, <1>4 DEF ContextTypeOK
<1>6. LocksHeld'
  <2>1. ASSUME NEW u \in ContextThreads, assigning'[u] # Idle
        PROVE  /\ assigning'[u].pair[1] # assigning'[u].pair[2]
               /\ u \in sharedBy'[assigning'[u].pair[2]]
               /\ assigning'[u].at \in {"results", "rest"} =>
                    ownedBy'[assigning'[u].pair[1]] = {u}
    <3>1. CASE u = t
      BY <1>1, <1>2, <1>3, <1>4, <3>1 DEF LocksHeld
    <3>2. CASE u # t
      <4>1. assigning[u] # Idle /\ assigning'[u] = assigning[u]
        BY <1>3, <2>1, <3>2
      <4>2. assigning[u].pair[1] \in Contexts
        BY <4>1 DEF ContextTypeOK, Assignments
      <4> QED BY <1>1, <1>4, <4>1, <4>2 DEF LocksHeld
    <3> QED BY <3>1, <3>2
  <2>2. \A c \in Contexts : ownedBy'[c] # {} => sharedBy'[c] = {}
    BY <1>1, <1>4 DEF LocksHeld
  <2> QED BY <2>1, <2>2 DEF LocksHeld
<1>7. HalfCopied' /\ CopyIsOneMoment'
  BY <1>1, <1>2, <1>3 DEF HalfCopied, CopyIsOneMoment, Idle
<1> QED BY <1>5, <1>6, <1>7

(* The copy in progress is the only one that touches its two contexts. *)
LEMMA NobodyElseCopies ==
  ASSUME ContextInv, NEW t \in ContextThreads, assigning[t].at \in {"results", "rest"},
         NEW u \in ContextThreads, u # t, assigning[u] # Idle
  PROVE  /\ assigning[u].pair[1] \in Contexts /\ assigning[u].pair[2] \in Contexts
         /\ assigning[u].pair[2] # assigning[t].pair[1]
         /\ assigning[u].at \in {"results", "rest"} =>
              /\ assigning[u].pair[1] # assigning[t].pair[1]
              /\ assigning[u].pair[1] # assigning[t].pair[2]
<1>1. /\ assigning[t] # Idle
      /\ assigning[t].pair[1] \in Contexts /\ assigning[t].pair[2] \in Contexts
  BY AssignmentIsNotIdle DEF ContextInv
<1>2. assigning[u].pair[1] \in Contexts /\ assigning[u].pair[2] \in Contexts
  BY DEF ContextInv, ContextTypeOK, Assignments
<1>3. /\ ownedBy[assigning[t].pair[1]] = {t} /\ t \in sharedBy[assigning[t].pair[2]]
      /\ u \in sharedBy[assigning[u].pair[2]]
      /\ assigning[u].at \in {"results", "rest"} => ownedBy[assigning[u].pair[1]] = {u}
  BY <1>1 DEF ContextInv, LocksHeld
<1>4. \A c \in Contexts : ownedBy[c] # {} => sharedBy[c] = {}
  BY DEF ContextInv, LocksHeld
<1> QED BY <1>1, <1>2, <1>3, <1>4

(* The results are there, the variables not yet. *)
LEMMA CopyResultsInv ==
  ASSUME ContextInv, NEW t \in ContextThreads, CopyResults(t)
  PROVE  ContextInv'
<1> USE DEF ContextInv
<1> DEFINE this == assigning[t].pair[1]
           other == assigning[t].pair[2]
<1>1. /\ assigning[t].at = "results"
      /\ contents' = [contents EXCEPT ![this].results = contents[other].results]
      /\ Step(t, "rest")
      /\ ownedBy' = ownedBy /\ sharedBy' = sharedBy /\ contextOps' = contextOps
  BY DEF CopyResults
<1>2. /\ assigning[t] # Idle /\ this \in Contexts /\ other \in Contexts
  BY <1>1, AssignmentIsNotIdle
<1>3. /\ assigning' \in [ContextThreads -> Assignments \cup {Idle}]
      /\ assigning'[t] # Idle /\ assigning'[t].at = "rest"
      /\ assigning'[t].pair = assigning[t].pair
      /\ \A u \in ContextThreads : u # t => assigning'[u] = assigning[u]
  BY <1>1, StepEntry
<1>4. /\ contents' \in [Contexts -> Contents]
      /\ contents'[this].results = contents[other].results
      /\ \A c \in Contexts : c # this => contents'[c] = contents[c]
  BY <1>1, <1>2 DEF ContextTypeOK, Contents
<1>5. this # other
  BY <1>2 DEF LocksHeld
<1>6. ContextTypeOK'
  BY <1>1, <1>3, <1>4 DEF ContextTypeOK
<1>7. LocksHeld'
  BY <1>1, <1>2, <1>3, SMTT(20) DEF LocksHeld
<1>8. HalfCopied'
  <2> SUFFICES ASSUME NEW u \in ContextThreads, assigning'[u] # Idle, assigning'[u].at = "rest"
               PROVE  contents'[assigning'[u].pair[1]].results
                        = contents'[assigning'[u].pair[2]].results
    BY DEF HalfCopied
  <2>1. CASE u = t
    BY <1>2, <1>3, <1>4, <1>5, <2>1
  <2>2. CASE u # t
    <3>1. assigning[u] # Idle /\ assigning[u].at = "rest" /\ assigning'[u] = assigning[u]
      BY <1>3, <2>2
    <3>2. /\ assigning[u].pair[1] \in Contexts /\ assigning[u].pair[2] \in Contexts
          /\ assigning[u].pair[1] # this /\ assigning[u].pair[2] # this
      BY <1>1, <2>2, <3>1, NobodyElseCopies
    <3> QED BY <1>4, <3>1, <3>2 DEF HalfCopied
  <2> QED BY <2>1, <2>2
<1>9. CopyIsOneMoment'
  <2> SUFFICES ASSUME NEW c \in Contexts,
                      \A u \in ContextThreads :
                        assigning'[u].at = "rest" => assigning'[u].pair[1] # c
               PROVE  contents'[c].variables <= contents'[c].results
    BY DEF CopyIsOneMoment
  <2>1. c # this
    BY <1>3
  <2>2. \A u \in ContextThreads : assigning[u].at = "rest" => assigning[u].pair[1] # c
    BY <1>1, <1>3
  <2> QED BY <1>4, <2>1, <2>2 DEF CopyIsOneMoment
<1> QED BY <1>6, <1>7, <1>8, <1>9

(* The rest follows, from a context that nobody could write in between. *)
LEMMA CopyRestInv ==
  ASSUME ContextInv, NEW t \in ContextThreads, CopyRest(t)
  PROVE  ContextInv'
<1> USE DEF ContextInv
<1> DEFINE this == assigning[t].pair[1]
           other == assigning[t].pair[2]
<1>1. /\ assigning[t].at = "rest"
      /\ contents' = [contents EXCEPT ![this].variables = contents[other].variables,
                                      ![this].error = contents[other].error]
      /\ sharedBy' = [sharedBy EXCEPT ![other] = @ \ {t}]
      /\ ownedBy' = [ownedBy EXCEPT ![this] = {}]
      /\ assigning' = [assigning EXCEPT ![t] = Idle]
      /\ contextOps' = contextOps
  BY DEF CopyRest, Unlocked
<1>2. /\ assigning[t] # Idle /\ this \in Contexts /\ other \in Contexts
  BY <1>1, AssignmentIsNotIdle
<1>3. /\ this # other /\ ownedBy[this] = {t} /\ ownedBy[other] = {}
      /\ contents[this].results = contents[other].results
  BY <1>1, <1>2 DEF LocksHeld, HalfCopied
<1>4. /\ assigning' \in [ContextThreads -> Assignments \cup {Idle}]
      /\ assigning'[t] = Idle
      /\ \A u \in ContextThreads : u # t => assigning'[u] = assigning[u]
  BY <1>1 DEF ContextTypeOK
<1>5. /\ contents' \in [Contexts -> Contents]
      /\ contents'[this].results = contents[other].results
      /\ contents'[this].variables = contents[other].variables
      /\ \A c \in Contexts : c # this => contents'[c] = contents[c]
  <2> DEFINE copy == [[contents[this] EXCEPT !.variables = contents[other].variables]
                        EXCEPT !.error = contents[other].error]
  <2>1. contents[this] \in Contents /\ contents[other] \in Contents
    BY <1>2 DEF ContextTypeOK
  <2>2. /\ copy \in Contents /\ copy.results = contents[this].results
        /\ copy.variables = contents[other].variables
    BY <2>1 DEF Contents
  <2>3. contents' = [contents EXCEPT ![this] = copy]
    BY <1>1, <1>2 DEF ContextTypeOK
  <2> HIDE DEF copy
  <2> QED BY <1>2, <1>3, <2>2, <2>3 DEF ContextTypeOK
<1>6. /\ ownedBy' \in [Contexts -> SUBSET ContextThreads]
      /\ ownedBy'[this] = {} /\ \A c \in Contexts : c # this => ownedBy'[c] = ownedBy[c]
      /\ sharedBy' \in [Contexts -> SUBSET ContextThreads]
      /\ sharedBy'[other] = sharedBy[other] \ {t}
      /\ \A c \in Contexts : c # other => sharedBy'[c] = sharedBy[c]
  BY <1>1, <1>2 DEF ContextTypeOK
<1>7. ContextTypeOK'
  BY <1>1, <1>4, <1>5, <1>6 DEF ContextTypeOK
<1>8. ASSUME NEW u \in ContextThreads, assigning'[u] # Idle
      PROVE  /\ u # t /\ assigning[u] # Idle /\ assigning'[u] = assigning[u]
             /\ assigning[u].pair[1] \in Contexts /\ assigning[u].pair[2] \in Contexts
             /\ assigning[u].pair[2] # this
             /\ assigning[u].at \in {"results", "rest"} =>
                  assigning[u].pair[1] # this /\ assigning[u].pair[1] # other
  BY <1>1, <1>4, <1>8, NobodyElseCopies
<1>9. LocksHeld'
  <2>1. ASSUME NEW u \in ContextThreads, assigning'[u] # Idle
        PROVE  /\ assigning'[u].pair[1] # assigning'[u].pair[2]
               /\ u \in sharedBy'[assigning'[u].pair[2]]
               /\ assigning'[u].at \in {"results", "rest"} =>
                    ownedBy'[assigning'[u].pair[1]] = {u}
    <3>1. /\ assigning[u].pair[1] # assigning[u].pair[2]
          /\ u \in sharedBy[assigning[u].pair[2]]
          /\ assigning[u].at \in {"results", "rest"} => ownedBy[assigning[u].pair[1]] = {u}
      BY <1>8, <2>1 DEF LocksHeld
    <3>2. u \in sharedBy'[assigning[u].pair[2]]
      BY <1>6, <1>8, <2>1, <3>1
    <3>3. assigning[u].at \in {"results", "rest"} => ownedBy'[assigning[u].pair[1]] = {u}
      BY <1>6, <1>8, <2>1, <3>1
    <3> QED BY <1>8, <2>1, <3>1, <3>2, <3>3
  <2>2. \A c \in Contexts : ownedBy'[c] # {} => sharedBy'[c] = {}
    BY <1>3, <1>6 DEF LocksHeld
  <2> QED BY <2>1, <2>2 DEF LocksHeld
<1>10. HalfCopied'
  BY <1>5, <1>8 DEF HalfCopied
<1>11. CopyIsOneMoment'
  <2> SUFFICES ASSUME NEW c \in Contexts,
                      \A u \in ContextThreads :
                        assigning'[u].at = "rest" => assigning'[u].pair[1] # c
               PROVE  contents'[c].variables <= contents'[c].results
    BY DEF CopyIsOneMoment
  <2>1. CASE c = this
    <3>1. \A u \in ContextThreads : assigning[u].at = "rest" => assigning[u].pair[1] # other
      BY <1>1, <1>3, AssignmentIsNotIdle, NobodyElseCopies
    <3> QED BY <1>2, <1>5, <2>1, <3>1 DEF CopyIsOneMoment
  <2>2. CASE c # this
    <3>1. \A u \in ContextThreads : assigning[u].at = "rest" => assigning[u].pair[1] # c
      BY <1>4, <2>2
    <3> QED BY <1>5, <2>2, <3>1 DEF CopyIsOneMoment
  <2> QED BY <2>1, <2>2
<1> QED BY <1>7, <1>9, <1>10, <1>11

(* Every step of every thread. *)
LEMMA ContextStep == ContextInv /\ [ContextNext]_contextVars => ContextInv'
<1> SUFFICES ASSUME ContextInv, [ContextNext]_contextVars PROVE ContextInv'
  OBVIOUS
<1>1. ASSUME NEW t \in ContextThreads, NEW p \in AssignmentPairs, Assign(t, p[1], p[2])
      PROVE  ContextInv'
  <2>1. p[1] \in Contexts /\ p[2] \in Contexts
    BY ContextAssumption
  <2> QED BY <1>1, <2>1, AssignInv
<1>2. CASE UNCHANGED contextVars
  BY <1>2 DEF contextVars, ContextInv, ContextTypeOK, LocksHeld, HalfCopied, CopyIsOneMoment
<1> QED BY <1>1, <1>2, MethodInv, LockThisInv, CopyResultsInv, CopyRestInv
        DEF ContextNext, AssignStep

-----------------------------------------------------------------------------
(* TimeoutExecutor *)

FunctionStates == {"none", "running", "returned", "threw", "cancelled"}

TimeoutTypeOK ==
  /\ current \in Nat /\ current <= LastCall
  /\ waiting \in BOOLEAN /\ cancelled \in BOOLEAN
  /\ fn \in [CallNumbers -> FunctionStates]
  /\ outcome \in [CallNumbers -> FunctionStates \cup {"timeout"}]
  /\ thread \in [CallNumbers -> {"none", "joinable", "joined", "detached"}]

(* A call that was not made has nothing, a call that ended has an outcome, *)
(* and the flag is only up when the last call was timed out.               *)
CallsInOrder ==
  /\ \A c \in CallNumbers : c > current =>
       fn[c] = "none" /\ outcome[c] = "none" /\ thread[c] = "none"
  /\ \A c \in CallNumbers : c < current => outcome[c] # "none" /\ fn[c] # "none"
  /\ waiting => /\ current # 0 /\ ~cancelled
                /\ outcome[current] = "none" /\ thread[current] = "joinable"
                /\ fn[current] # "none"
  /\ ~waiting /\ current # 0 => outcome[current] # "none" /\ fn[current] # "none"

(* Who is not timed out ended by itself, and is told what it ended with. *)
EndedAlone ==
  \A c \in CallNumbers : outcome[c] \notin {"none", "timeout"} => fn[c] # "running"

TimeoutInv == TimeoutTypeOK /\ CallsInOrder /\ EndedAlone /\ TimeoutsAreOwn

(* An executor that was never called. *)
LEMMA TimeoutInitInv == TimeoutInit => TimeoutInv
<1> SUFFICES ASSUME TimeoutInit PROVE TimeoutInv
  OBVIOUS
<1> USE LastCallAssumption DEF TimeoutInit
<1>1. TimeoutTypeOK
  <2>1. current \in Nat /\ current <= LastCall
    OBVIOUS
  <2>2. /\ waiting \in BOOLEAN /\ cancelled \in BOOLEAN
        /\ fn \in [CallNumbers -> FunctionStates]
        /\ outcome \in [CallNumbers -> FunctionStates \cup {"timeout"}]
        /\ thread \in [CallNumbers -> {"none", "joinable", "joined", "detached"}]
    BY Zenon DEF FunctionStates
  <2> QED BY <2>1, <2>2 DEF TimeoutTypeOK
<1>2. CallsInOrder
  BY DEF CallsInOrder, CallNumbers
<1>3. EndedAlone /\ TimeoutsAreOwn
  BY DEF EndedAlone, TimeoutsAreOwn, EveryThreadIsReclaimed, CancelIsForTheTimedOut
<1> QED BY <1>1, <1>2, <1>3 DEF TimeoutInv

(* A step that starts a call, ends it or ends its function. *)
LEMMA TimeoutStep == TimeoutInv /\ [TimeoutNext]_timeoutVars => TimeoutInv'
<1> SUFFICES ASSUME TimeoutInv, [TimeoutNext]_timeoutVars PROVE TimeoutInv'
  OBVIOUS
<1> USE LastCallAssumption
    DEF TimeoutInv, TimeoutTypeOK, CallsInOrder, EndedAlone, TimeoutsAreOwn,
        EveryThreadIsReclaimed, CancelIsForTheTimedOut, CallNumbers, FunctionStates
<1>1. CASE ExecuteWithTimeout
  <2>1. current + 1 \in CallNumbers
    BY <1>1 DEF ExecuteWithTimeout
  <2>2. TimeoutTypeOK'
    <3>1. /\ waiting' = TRUE /\ cancelled' = FALSE /\ current' = current + 1
          /\ outcome' = outcome
          /\ fn' = [fn EXCEPT ![current + 1] = "running"]
          /\ thread' = [thread EXCEPT ![current + 1] = "joinable"]
      BY <1>1 DEF ExecuteWithTimeout
    <3>2. current' \in Nat /\ current' <= LastCall
      BY <2>1, <3>1
    <3>3. /\ fn' \in [CallNumbers -> FunctionStates]
          /\ thread' \in [CallNumbers -> {"none", "joinable", "joined", "detached"}]
      BY <2>1, <3>1
    <3> QED BY <3>1, <3>2, <3>3
  <2>3. \A c \in CallNumbers : c > current + 1 =>
          fn'[c] = "none" /\ outcome'[c] = "none" /\ thread'[c] = "none"
    BY <1>1, <2>1 DEF ExecuteWithTimeout
  <2>4. \A c \in CallNumbers : c < current + 1 => outcome'[c] # "none" /\ fn'[c] # "none"
    BY <1>1, <2>1 DEF ExecuteWithTimeout
  <2>5. CallsInOrder'
    BY <1>1, <2>1, <2>3, <2>4 DEF ExecuteWithTimeout
  <2>6. EndedAlone' /\ TimeoutsAreOwn'
    BY <1>1, <2>1 DEF ExecuteWithTimeout
  <2> QED BY <2>2, <2>5, <2>6
<1>2. ASSUME waiting PROVE current \in CallNumbers
  BY <1>2
<1>3. CASE WaitTimesOut
  <2>1. current \in CallNumbers
    BY <1>2, <1>3 DEF WaitTimesOut
  <2>2. TimeoutTypeOK' /\ CallsInOrder'
    BY <1>3, <2>1 DEF WaitTimesOut
  <2>3. EndedAlone' /\ TimeoutsAreOwn'
    BY <1>3, <2>1 DEF WaitTimesOut
  <2> QED BY <2>2, <2>3
<1>4. CASE WaitSucceeds
  <2>1. current \in CallNumbers
    BY <1>2, <1>4 DEF WaitSucceeds
  <2>2. TimeoutTypeOK' /\ CallsInOrder'
    BY <1>4, <2>1 DEF WaitSucceeds
  <2>3. EndedAlone' /\ TimeoutsAreOwn'
    BY <1>4, <2>1 DEF WaitSucceeds
  <2> QED BY <2>2, <2>3
<1>5. ASSUME NEW c \in CallNumbers, FunctionEnds(c) PROVE TimeoutInv'
  <2>1. TimeoutTypeOK' /\ CallsInOrder'
    BY <1>5 DEF FunctionEnds
  <2>2. EndedAlone' /\ TimeoutsAreOwn'
    BY <1>5 DEF FunctionEnds
  <2> QED BY <2>1, <2>2
<1>6. ASSUME NEW c \in CallNumbers, FunctionSeesCancel(c) PROVE TimeoutInv'
  <2>1. ~waiting /\ fn[c] = "running" /\ outcome[c] = "timeout"
    BY <1>6 DEF FunctionSeesCancel
  <2>2. TimeoutTypeOK' /\ CallsInOrder'
    BY <1>6, <2>1 DEF FunctionSeesCancel
  <2>3. EndedAlone' /\ TimeoutsAreOwn'
    BY <1>6, <2>1 DEF FunctionSeesCancel
  <2> QED BY <2>2, <2>3
<1>7. CASE UNCHANGED timeoutVars
  BY <1>7 DEF timeoutVars
<1> QED BY <1>1, <1>3, <1>4, <1>5, <1>6, <1>7 DEF TimeoutNext

(* For any contexts, threads that write and assign them, and calls of one  *)
(* executor: a copied context is of one moment, every thread of an         *)
(* executor is joined or detached, and only a timed-out function is told   *)
(* to stop.                                                                *)
THEOREM SharedStateIsWhole == AsyncSpec => []SharedStateHolds
<1>1. AsyncInit => ContextInv /\ TimeoutInv
  BY ContextInitInv, TimeoutInitInv DEF AsyncInit
<1>2. ContextInv /\ TimeoutInv /\ [AsyncNext]_asyncVars => ContextInv' /\ TimeoutInv'
  <2> SUFFICES ASSUME ContextInv, TimeoutInv, [AsyncNext]_asyncVars
               PROVE  [ContextNext]_contextVars /\ [TimeoutNext]_timeoutVars
    BY ContextStep, TimeoutStep
  <2> QED BY DEF AsyncNext, asyncVars, Workflow1, Pool1, Context1, Timeout1
<1>3. ContextInv /\ TimeoutInv => SharedStateHolds
  BY DEF ContextInv, TimeoutInv, SharedStateHolds
<1> QED BY <1>1, <1>2, <1>3, PTL DEF AsyncSpec

-----------------------------------------------------------------------------
(* Queues, futures and results: sequences in which nothing is twice *)

Elems(q) == {q[k] : k \in DOMAIN q}
Distinct(q) == \A j, k \in DOMAIN q : q[j] = q[k] => j = k

(* Nothing is in an empty sequence. *)
LEMMA EmptyElems == Elems(<<>>) = {} /\ Distinct(<<>>)
  BY DEF Elems, Distinct

(* Only an empty sequence has no elements. *)
LEMMA NoElems ==
  ASSUME NEW S, NEW q \in Seq(S)
  PROVE  Elems(q) \subseteq S /\ (q # <<>> => Len(q) \in DOMAIN q /\ 1 \in DOMAIN q)
<1>1. /\ Len(q) \in Nat /\ DOMAIN q = 1 .. Len(q)
      /\ (q # <<>> => Len(q) \in Nat \ {0})
  BY LenProperties, EmptySeq
<1>2. \A k \in DOMAIN q : q[k] \in S
  BY <1>1, ElementOfSeq
<1> QED BY <1>1, <1>2 DEF Elems

(* A new element goes to the end. *)
LEMMA AppendElems ==
  ASSUME NEW S, NEW q \in Seq(S), NEW x \in S
  PROVE  /\ Append(q, x) \in Seq(S)
         /\ Elems(Append(q, x)) = Elems(q) \cup {x}
         /\ Distinct(q) /\ x \notin Elems(q) => Distinct(Append(q, x))
<1>1. /\ Len(q) \in Nat /\ DOMAIN q = 1 .. Len(q)
  BY LenProperties
<1>2. /\ Append(q, x) \in Seq(S) /\ Len(Append(q, x)) = Len(q) + 1
      /\ \A k \in 1 .. Len(q) : Append(q, x)[k] = q[k]
      /\ Append(q, x)[Len(q) + 1] = x
  BY AppendProperties
<1>3. DOMAIN Append(q, x) = 1 .. Len(q) + 1
  BY <1>2, LenProperties
<1> QED BY <1>1, <1>2, <1>3 DEF Elems, Distinct

(* pop() takes the last element and leaves the others. *)
LEMMA PopElems ==
  ASSUME NEW S, NEW q \in Seq(S), q # <<>>, Distinct(q)
  PROVE  /\ PopBack(q) \in Seq(S) /\ Back(q) \in Elems(q)
         /\ Elems(PopBack(q)) = Elems(q) \ {Back(q)}
         /\ Distinct(PopBack(q))
<1> DEFINE n == Len(q)
<1>1. /\ n \in Nat \ {0} /\ DOMAIN q = 1 .. n
      /\ \A k \in 1 .. n : q[k] \in S
  BY LenProperties, EmptySeq, ElementOfSeq
<1>2. /\ PopBack(q) \in Seq(S) /\ Len(PopBack(q)) = n - 1
      /\ \A k \in 1 .. n - 1 : PopBack(q)[k] = q[k]
  BY <1>1, SubSeqProperties DEF PopBack
<1>3. DOMAIN PopBack(q) = 1 .. n - 1
  BY <1>2, LenProperties
<1>4. Back(q) = q[n]
  BY DEF Back
<1> HIDE DEF n
<1> QED BY <1>1, <1>2, <1>3, <1>4 DEF Elems, Distinct

(* steal() takes the first. *)
LEMMA StealElems ==
  ASSUME NEW S, NEW q \in Seq(S), q # <<>>, Distinct(q)
  PROVE  /\ StealFront(q) \in Seq(S) /\ Front(q) \in Elems(q)
         /\ Elems(StealFront(q)) = Elems(q) \ {Front(q)}
         /\ Distinct(StealFront(q))
<1> DEFINE n == Len(q)
<1>1. /\ n \in Nat \ {0} /\ DOMAIN q = 1 .. n
      /\ \A k \in 1 .. n : q[k] \in S
  BY LenProperties, EmptySeq, ElementOfSeq
<1>2. /\ StealFront(q) \in Seq(S) /\ Len(StealFront(q)) = n - 1
      /\ \A k \in 1 .. n - 1 : StealFront(q)[k] = q[k + 1]
  BY <1>1, SubSeqProperties DEF StealFront
<1>3. DOMAIN StealFront(q) = 1 .. n - 1
  BY <1>2, LenProperties
<1>4. Front(q) = q[1]
  BY DEF Front
<1> HIDE DEF n
<1>5. \A k \in 2 .. n : k - 1 \in 1 .. n - 1 /\ StealFront(q)[k - 1] = q[k]
  BY <1>1, <1>2
<1>6. Distinct(StealFront(q))
  <2> SUFFICES ASSUME NEW j \in 1 .. n - 1, NEW k \in 1 .. n - 1,
                      StealFront(q)[j] = StealFront(q)[k]
               PROVE  j = k
    BY <1>3 DEF Distinct
  <2>1. q[j + 1] = q[k + 1] /\ j + 1 \in DOMAIN q /\ k + 1 \in DOMAIN q
    BY <1>1, <1>2
  <2>2. j + 1 = k + 1
    BY <2>1 DEF Distinct
  <2> QED BY <1>1, <2>2
<1>7. ASSUME NEW x \in Elems(StealFront(q)) PROVE x \in Elems(q) /\ x # Front(q)
  <2>1. PICK k \in 1 .. n - 1 : x = q[k + 1]
    BY <1>2, <1>3, <1>7 DEF Elems
  <2>2. k + 1 \in DOMAIN q /\ 1 \in DOMAIN q /\ k + 1 # 1
    BY <1>1, <2>1
  <2> QED BY <1>4, <2>1, <2>2 DEF Elems, Distinct
<1>8. ASSUME NEW x \in Elems(q), x # Front(q) PROVE x \in Elems(StealFront(q))
  <2>1. PICK k \in 1 .. n : x = q[k]
    BY <1>1, <1>8 DEF Elems
  <2>2. k \in 2 .. n
    BY <1>1, <1>4, <1>8, <2>1
  <2> QED BY <1>3, <1>5, <2>1, <2>2 DEF Elems
<1>9. Front(q) \in Elems(q)
  BY <1>1, <1>4 DEF Elems
<1> QED BY <1>2, <1>6, <1>7, <1>8, <1>9

(* Without repetitions there are as many places as elements. *)
LEMMA DistinctLen ==
  ASSUME NEW S, NEW q \in Seq(S), Distinct(q)
  PROVE  Len(q) = Cardinality(Elems(q))
<1>1. /\ Len(q) \in Nat /\ DOMAIN q = 1 .. Len(q) /\ q \in [1 .. Len(q) -> S]
  BY LenProperties
<1>2. IsFiniteSet(1 .. Len(q)) /\ Cardinality(1 .. Len(q)) = Len(q)
  BY <1>1, FS_Interval
<1>3. q \in Surjection(1 .. Len(q), Elems(q)) /\ q \in Injection(1 .. Len(q), Elems(q))
  BY <1>1 DEF Surjection, Injection, IsInjective, Elems, Distinct
<1> QED BY <1>2, <1>3, FS_Surjection

-----------------------------------------------------------------------------
(* WorkStealingThreadPool *)

Queued == {"queued", "late"}

(* An accepted task is in one queue, or with one worker. *)
OnePlace ==
  /\ \A w \in Workers : Distinct(localQueues[w])
  /\ \A v, w \in Workers : v # w => Elems(localQueues[v]) \cap Elems(localQueues[w]) = {}
  /\ \A t \in Tasks : status[t] \in Queued <=> \E w \in Workers : t \in Elems(localQueues[w])
  /\ \A t \in Tasks : status[t] = "running" <=> \E w \in Workers : task[w] = t
  /\ \A v, w \in Workers : task[v] = task[w] /\ task[v] # NoTask => v = w
  /\ \A w \in Workers : task[w] # NoTask <=> wpc[w] = "run"

(* A push that is ahead has a task of its own; a worker that has one ahead *)
(* is still running the task that called enqueue.                          *)
PushesAhead ==
  /\ \A p \in Producers : push[p] # NoTask => status[push[p]] = "checked"
  /\ \A p, q \in Producers : push[p] = push[q] /\ push[p] # NoTask => p = q
  /\ \A w \in Workers \ Clients : push[w] # NoTask => wpc[w] = "run"

(* Nobody leaves, or prepares to, before the destructor began. *)
LeavesWhenStopped ==
  /\ \A w \in Workers : stopping[w] => stop # "running"
  /\ \A w \in Workers : wpc[w] = "scan" => stopping[w]
  /\ stop = "running" => \A w \in Workers : wpc[w] # "exit"
  /\ stop = "joined" => \A w \in Workers : wpc[w] = "exit"

(* Some worker will still look at queue v. *)
WillLookAt(v) ==
  \E w \in Workers : \/ wpc[w] \in {"load", "pop", "steal", "run"}
                     \/ wpc[w] = "scan" /\ scan[w] <= v
SomebodyStays ==
  \A v \in Workers :
    (\E t \in Elems(localQueues[v]) : status[t] = "queued") => WillLookAt(v)

PoolInv == PoolTypeOK /\ OnePlace /\ PushesAhead /\ LeavesWhenStopped /\ SomebodyStays

(* There is a worker, and they are numbered. *)
LEMMA WorkersNumbered ==
  /\ 1 \in Workers /\ Workers = 1 .. Cardinality(Workers)
  /\ Cardinality(Workers) \in Nat \ {0} /\ IsFiniteSet(Workers)
<1> DEFINE n == IF numThreads = 0 THEN 1 ELSE numThreads
<1>1. n \in Nat \ {0} /\ Workers = 1 .. n
  BY NumThreadsAssumption DEF Workers
<1> HIDE DEF n
<1>2. IsFiniteSet(1 .. n) /\ Cardinality(1 .. n) = n
  BY <1>1, FS_Interval
<1> QED BY <1>1, <1>2

(* A pool that was just constructed. *)
LEMMA PoolInitInv == PoolInit => PoolInv
<1> SUFFICES ASSUME PoolInit PROVE PoolInv
  OBVIOUS
<1>1. \A w \in Workers : localQueues[w] = <<>> /\ Elems(localQueues[w]) = {}
                         /\ Distinct(localQueues[w])
  BY EmptyElems DEF PoolInit
<1>2. PoolTypeOK
  <2>1. localQueues \in [Workers -> Seq(Tasks)]
    BY EmptySeq DEF PoolInit
  <2>2. scan \in [Workers -> 1 .. Cardinality(Workers)]
    BY WorkersNumbered DEF PoolInit
  <2>3. stopping \in [Workers -> BOOLEAN]
    BY Zenon DEF PoolInit
  <2> QED BY <2>1, <2>2, <2>3 DEF PoolInit, PoolTypeOK
<1>3. OnePlace
  BY <1>1, NoTaskAssumption DEF PoolInit, OnePlace, Queued
<1>4. PushesAhead
  BY DEF PoolInit, PushesAhead, Producers
<1>5. LeavesWhenStopped
  BY DEF PoolInit, LeavesWhenStopped
<1>6. SomebodyStays
  BY <1>1 DEF SomebodyStays
<1> QED BY <1>2, <1>3, <1>4, <1>5, <1>6 DEF PoolInv

(* enqueue looks at stop_: the task is nobody else's until it is pushed. *)
LEMMA CheckStopInv ==
  ASSUME PoolInv, NEW p \in Producers, NEW t \in Tasks, CheckStop(p, t),
         p \in Clients \/ wpc[p] = "run"
  PROVE  PoolInv'
<1> USE DEF PoolInv
<1>1. /\ status[t] = "new" /\ push[p] = NoTask
      /\ localQueues' = localQueues /\ stop' = stop /\ wpc' = wpc /\ stopping' = stopping
      /\ task' = task /\ scan' = scan
      /\ \/ status' = [status EXCEPT ![t] = "refused"] /\ push' = push
         \/ status' = [status EXCEPT ![t] = "checked"] /\ push' = [push EXCEPT ![p] = t]
  BY DEF CheckStop
<1>2. /\ status'[t] \in {"refused", "checked"}
      /\ \A u \in Tasks : u # t => status'[u] = status[u]
      /\ status' \in [Tasks -> {"new", "checked", "queued", "late", "refused",
                                "running", "done"}]
      /\ push' \in [Producers -> Tasks \cup {NoTask}]
      /\ \A q \in Producers : q # p => push'[q] = push[q]
      /\ push'[p] \in {NoTask, t} /\ (push'[p] = t => status'[t] = "checked")
  BY <1>1, NoTaskAssumption, ZenonT(30) DEF PoolTypeOK
<1>3. PoolTypeOK'
  BY <1>1, <1>2 DEF PoolTypeOK
<1>4. OnePlace'
  BY <1>1, <1>2 DEF OnePlace, Queued
<1>5. PushesAhead'
  <2>1. \A q \in Producers : push[q] # NoTask => push[q] \in Tasks /\ push[q] # t
    BY <1>1 DEF PoolTypeOK, PushesAhead
  <2>2. \A q \in Producers : push'[q] # NoTask => status'[push'[q]] = "checked"
    BY <1>2, <2>1 DEF PushesAhead
  <2>3. \A q, r \in Producers : push'[q] = push'[r] /\ push'[q] # NoTask => q = r
    BY <1>2, <2>1 DEF PushesAhead
  <2>4. \A w \in Workers \ Clients : push'[w] # NoTask => wpc'[w] = "run"
    BY <1>1, <1>2 DEF PushesAhead, Producers
  <2> QED BY <2>2, <2>3, <2>4 DEF PushesAhead
<1>6. LeavesWhenStopped'
  BY <1>1 DEF LeavesWhenStopped
<1>7. SomebodyStays'
  <2>1. ASSUME NEW v \in Workers PROVE Elems(localQueues[v]) \subseteq Tasks
    BY NoElems DEF PoolTypeOK
  <2> QED BY <1>1, <1>2, <2>1 DEF SomebodyStays, WillLookAt
<1> QED BY <1>3, <1>4, <1>5, <1>6, <1>7

(* enqueue pushes: before the destructor began, or by a task whose worker  *)
(* cannot have left, or late.                                              *)
LEMMA PushInv ==
  ASSUME PoolInv, NEW p \in Producers, NEW w \in Workers, Push(p, w)
  PROVE  PoolInv'
<1> USE DEF PoolInv
<1> DEFINE t == push[p]
<1>1. /\ t # NoTask
      /\ localQueues' = [localQueues EXCEPT ![w] = Append(@, t)]
      /\ status' = [status EXCEPT ![t] =
           IF p \in Clients /\ stop # "running" THEN "late" ELSE "queued"]
      /\ push' = [push EXCEPT ![p] = NoTask]
      /\ stop' = stop /\ wpc' = wpc /\ stopping' = stopping /\ task' = task /\ scan' = scan
  BY DEF Push, PushBack
<1>2. /\ t \in Tasks /\ status[t] = "checked"
      /\ \A q \in Producers : q # p => push[q] # t
  BY <1>1 DEF PoolTypeOK, PushesAhead
<1> HIDE DEF t
<1>3. /\ status'[t] \in Queued
      /\ status'[t] = "queued" => p \notin Clients \/ stop = "running"
      /\ \A u \in Tasks : u # t => status'[u] = status[u]
      /\ status' \in [Tasks -> {"new", "checked", "queued", "late", "refused",
                                "running", "done"}]
      /\ push' \in [Producers -> Tasks \cup {NoTask}]
      /\ push'[p] = NoTask /\ \A q \in Producers : q # p => push'[q] = push[q]
  BY <1>1, <1>2 DEF PoolTypeOK, Queued
<1>4. /\ localQueues[w] \in Seq(Tasks) /\ Distinct(localQueues[w])
      /\ \A v \in Workers : t \notin Elems(localQueues[v])
      /\ \A v \in Workers : Elems(localQueues[v]) \subseteq Tasks
  BY <1>2, NoElems DEF PoolTypeOK, OnePlace, Queued
<1>5. /\ localQueues' \in [Workers -> Seq(Tasks)]
      /\ \A v \in Workers : v # w => localQueues'[v] = localQueues[v]
      /\ localQueues'[w] = Append(localQueues[w], t)
  BY <1>1, <1>2, <1>4, AppendElems DEF PoolTypeOK
<1>6. /\ Elems(localQueues'[w]) = Elems(localQueues[w]) \cup {t}
      /\ Distinct(localQueues'[w])
  BY <1>2, <1>4, <1>5, AppendElems
<1>7. PoolTypeOK'
  BY <1>1, <1>3, <1>5 DEF PoolTypeOK
<1>8. OnePlace'
  <2>1. \A v \in Workers : Distinct(localQueues'[v])
    BY <1>5, <1>6 DEF OnePlace
  <2>2. ASSUME NEW u \in Workers, NEW v \in Workers, u # v
        PROVE  Elems(localQueues'[u]) \cap Elems(localQueues'[v]) = {}
    <3>1. Elems(localQueues[u]) \cap Elems(localQueues[v]) = {}
      BY <2>2 DEF OnePlace
    <3>2. \A x \in {u, v} : Elems(localQueues'[x]) =
            (IF x = w THEN Elems(localQueues[x]) \cup {t} ELSE Elems(localQueues[x]))
      BY <1>5, <1>6
    <3>3. t \notin Elems(localQueues[u]) /\ t \notin Elems(localQueues[v])
      BY <1>4
    <3> QED BY <2>2, <3>1, <3>2, <3>3
  <2>3. ASSUME NEW u \in Tasks
        PROVE  status'[u] \in Queued <=> \E v \in Workers : u \in Elems(localQueues'[v])
    <3>1. CASE u = t
      BY <1>3, <1>6, <3>1
    <3>2. CASE u # t
      <4>1. \A v \in Workers : u \in Elems(localQueues'[v]) <=> u \in Elems(localQueues[v])
        BY <1>5, <1>6, <3>2
      <4>2. status[u] \in Queued <=> \E v \in Workers : u \in Elems(localQueues[v])
        BY DEF OnePlace
      <4> QED BY <1>3, <3>2, <4>1, <4>2
    <3> QED BY <3>1, <3>2
  <2>4. \A u \in Tasks : status'[u] = "running" <=> \E v \in Workers : task[v] = u
    BY <1>2, <1>3 DEF OnePlace, Queued
  <2> QED BY <1>1, <2>1, <2>2, <2>3, <2>4, ZenonT(30) DEF OnePlace
<1>9. PushesAhead'
  BY <1>1, <1>2, <1>3 DEF PushesAhead, PoolTypeOK, Producers
<1>10. LeavesWhenStopped'
  BY <1>1 DEF LeavesWhenStopped
<1>11. SomebodyStays'
  <2> SUFFICES ASSUME NEW v \in Workers, NEW u \in Elems(localQueues'[v]),
                      status'[u] = "queued"
               PROVE  WillLookAt(v)
    BY <1>1 DEF SomebodyStays, WillLookAt
  <2>1. CASE u = t
    <3>1. CASE stop = "running"
      BY <3>1, WorkersNumbered DEF LeavesWhenStopped, WillLookAt, PoolTypeOK
    <3>2. CASE p \in Workers \ Clients
      BY <1>1, <3>2 DEF PushesAhead, WillLookAt, t
    <3> QED BY <1>3, <2>1, <3>1, <3>2 DEF Producers
  <2>2. CASE u # t
    <3>1. u \in Elems(localQueues[v])
      BY <1>5, <1>6, <2>2
    <3> QED BY <1>3, <1>4, <2>2, <3>1 DEF SomebodyStays
  <2> QED BY <2>1, <2>2
<1> QED BY <1>7, <1>8, <1>9, <1>10, <1>11

(* A worker takes one task out of a queue; the others stay where they are. *)
LEMMA GotInv ==
  ASSUME PoolInv, NEW w \in Workers, NEW v \in Workers, NEW t \in Tasks, NEW rest \in Seq(Tasks),
         wpc[w] \in {"pop", "steal"}, Got(w, t, v, rest),
         t \in Elems(localQueues[v]), Elems(rest) = Elems(localQueues[v]) \ {t}, Distinct(rest)
  PROVE  PoolInv'
<1> USE DEF PoolInv
<1>1. /\ task' = [task EXCEPT ![w] = t]
      /\ localQueues' = [localQueues EXCEPT ![v] = rest]
      /\ status' = [status EXCEPT ![t] = "running"]
      /\ wpc' = [wpc EXCEPT ![w] = "run"]
      /\ stop' = stop /\ stopping' = stopping /\ scan' = scan /\ push' = push
  BY DEF Got
<1>2. /\ task' \in [Workers -> Tasks \cup {NoTask}]
      /\ task'[w] = t /\ \A u \in Workers : u # w => task'[u] = task[u]
      /\ localQueues' \in [Workers -> Seq(Tasks)]
      /\ localQueues'[v] = rest
      /\ \A u \in Workers : u # v => localQueues'[u] = localQueues[u]
      /\ status' \in [Tasks -> {"new", "checked", "queued", "late", "refused",
                                "running", "done"}]
      /\ status'[t] = "running" /\ \A x \in Tasks : x # t => status'[x] = status[x]
  BY <1>1 DEF PoolTypeOK
<1>3. /\ wpc' \in [Workers -> {"load", "pop", "steal", "run", "scan", "exit"}]
      /\ wpc'[w] = "run" /\ \A u \in Workers : u # w => wpc'[u] = wpc[u]
  BY <1>1 DEF PoolTypeOK
<1>4. /\ status[t] \in Queued /\ task[w] = NoTask /\ t # NoTask
      /\ \A u \in Workers : task[u] # t
      /\ \A u \in Workers : u # v => t \notin Elems(localQueues[u])
      /\ \A u \in Workers : Elems(localQueues[u]) \subseteq Tasks
  BY NoTaskAssumption, NoElems DEF OnePlace, PoolTypeOK, Queued
<1>5. \A u \in Workers : Elems(localQueues'[u]) = Elems(localQueues[u]) \ {t}
  BY <1>2, <1>4
<1>6. PoolTypeOK'
  BY <1>1, <1>2, <1>3 DEF PoolTypeOK
<1>7. OnePlace'
  <2>1. \A u \in Workers : Distinct(localQueues'[u])
    BY <1>2 DEF OnePlace
  <2>2. \A u, x \in Workers : u # x => Elems(localQueues'[u]) \cap Elems(localQueues'[x]) = {}
    BY <1>5 DEF OnePlace
  <2>3. ASSUME NEW x \in Tasks
        PROVE  status'[x] \in Queued <=> \E u \in Workers : x \in Elems(localQueues'[u])
    <3>1. CASE x = t
      BY <1>2, <1>5, <3>1 DEF Queued
    <3>2. CASE x # t
      <4>1. \A u \in Workers : x \in Elems(localQueues'[u]) <=> x \in Elems(localQueues[u])
        BY <1>5, <3>2
      <4>2. status[x] \in Queued <=> \E u \in Workers : x \in Elems(localQueues[u])
        BY DEF OnePlace
      <4> QED BY <1>2, <3>2, <4>1, <4>2
    <3> QED BY <3>1, <3>2
  <2>4. ASSUME NEW x \in Tasks
        PROVE  status'[x] = "running" <=> \E u \in Workers : task'[u] = x
    <3>1. CASE x = t
      BY <1>2, <3>1
    <3>2. CASE x # t
      <4>1. x # NoTask
        BY NoTaskAssumption
      <4>2. \A u \in Workers : task'[u] = x <=> task[u] = x
        BY <1>2, <1>4, <3>2, <4>1
      <4>3. status[x] = "running" <=> \E u \in Workers : task[u] = x
        BY DEF OnePlace
      <4> QED BY <1>2, <3>2, <4>2, <4>3
    <3> QED BY <3>1, <3>2
  <2>5. ASSUME NEW u \in Workers, NEW x \in Workers, task'[u] = task'[x], task'[u] # NoTask
        PROVE  u = x
    <3>1. task[u] = task[x] /\ task[u] # NoTask => u = x
      BY DEF OnePlace
    <3> QED BY <1>2, <1>4, <2>5, <3>1
  <2>6. \A u \in Workers : task'[u] # NoTask <=> wpc'[u] = "run"
    BY <1>2, <1>3, <1>4 DEF OnePlace
  <2> QED BY <2>1, <2>2, <2>3, <2>4, <2>5, <2>6 DEF OnePlace
<1>8. PushesAhead'
  <2>1. \A q \in Producers : push[q] # NoTask => push[q] \in Tasks /\ push[q] # t
    BY <1>4 DEF PoolTypeOK, PushesAhead, Queued
  <2>2. \A u \in Workers \ Clients : push'[u] # NoTask => wpc'[u] = "run"
    BY <1>1, <1>3 DEF PushesAhead
  <2> QED BY <1>1, <1>2, <2>1, <2>2 DEF PushesAhead
<1>9. LeavesWhenStopped'
  BY <1>1, <1>3 DEF LeavesWhenStopped
<1>10. SomebodyStays'
  BY <1>1, <1>3 DEF SomebodyStays, WillLookAt
<1> QED BY <1>6, <1>7, <1>8, <1>9, <1>10

(* A round of a worker that takes nothing. *)
LEMMA RoundInv ==
  ASSUME PoolInv, NEW w \in Workers, NEW next \in {"load", "pop", "steal", "scan", "exit"},
         wpc[w] # "run", wpc' = [wpc EXCEPT ![w] = next],
         localQueues' = localQueues, stop' = stop, task' = task, push' = push, status' = status
  PROVE  OnePlace' /\ PushesAhead'
         /\ wpc' \in [Workers -> {"load", "pop", "steal", "run", "scan", "exit"}]
         /\ wpc'[w] = next /\ \A u \in Workers : u # w => wpc'[u] = wpc[u]
<1> USE DEF PoolInv
<1>1. /\ wpc' \in [Workers -> {"load", "pop", "steal", "run", "scan", "exit"}]
      /\ wpc'[w] = next /\ \A u \in Workers : u # w => wpc'[u] = wpc[u]
  BY DEF PoolTypeOK
<1>2. OnePlace'
  BY <1>1 DEF OnePlace
<1>3. PushesAhead'
  BY <1>1 DEF PushesAhead
<1> QED BY <1>1, <1>2, <1>3

(* The round begins with a look at stop_. *)
LEMMA LoadStopInv ==
  ASSUME PoolInv, NEW w \in Workers, LoadStop(w)
  PROVE  PoolInv'
<1> USE DEF PoolInv
<1>1. /\ wpc[w] = "load" /\ stopping' = [stopping EXCEPT ![w] = (stop # "running")]
      /\ wpc' = [wpc EXCEPT ![w] = "pop"]
      /\ localQueues' = localQueues /\ stop' = stop /\ task' = task /\ scan' = scan
      /\ push' = push /\ status' = status
  BY DEF LoadStop
<1>2. /\ OnePlace' /\ PushesAhead'
      /\ wpc' \in [Workers -> {"load", "pop", "steal", "run", "scan", "exit"}]
      /\ wpc'[w] = "pop" /\ \A u \in Workers : u # w => wpc'[u] = wpc[u]
  BY <1>1, RoundInv
<1>3. /\ stopping' \in [Workers -> BOOLEAN]
      /\ stopping'[w] = (stop # "running")
      /\ \A u \in Workers : u # w => stopping'[u] = stopping[u]
  BY <1>1, Zenon DEF PoolTypeOK
<1>4. PoolTypeOK'
  BY <1>1, <1>2, <1>3 DEF PoolTypeOK
<1>5. LeavesWhenStopped'
  BY <1>1, <1>2, <1>3 DEF LeavesWhenStopped
<1>6. SomebodyStays'
  BY <1>1, <1>2 DEF SomebodyStays, WillLookAt
<1> QED BY <1>2, <1>4, <1>5, <1>6

(* pop: the newest task, or nothing. *)
LEMMA PopInv ==
  ASSUME PoolInv, NEW w \in Workers, Pop(w)
  PROVE  PoolInv'
<1> USE DEF PoolInv
<1>1. CASE localQueues[w] = <<>>
  <2>1. /\ wpc[w] = "pop" /\ wpc' = [wpc EXCEPT ![w] = "steal"]
        /\ localQueues' = localQueues /\ stop' = stop /\ stopping' = stopping
        /\ task' = task /\ scan' = scan /\ push' = push /\ status' = status
    BY <1>1 DEF Pop
  <2>2. /\ OnePlace' /\ PushesAhead'
        /\ wpc' \in [Workers -> {"load", "pop", "steal", "run", "scan", "exit"}]
        /\ wpc'[w] = "steal" /\ \A u \in Workers : u # w => wpc'[u] = wpc[u]
    BY <2>1, RoundInv
  <2>3. PoolTypeOK'
    BY <2>1, <2>2 DEF PoolTypeOK
  <2>4. LeavesWhenStopped' /\ SomebodyStays'
    BY <2>1, <2>2 DEF LeavesWhenStopped, SomebodyStays, WillLookAt
  <2> QED BY <2>2, <2>3, <2>4
<1>2. CASE localQueues[w] # <<>>
  <2>1. wpc[w] = "pop" /\ Got(w, Back(localQueues[w]), w, PopBack(localQueues[w]))
    BY <1>2 DEF Pop
  <2>2. localQueues[w] \in Seq(Tasks) /\ Distinct(localQueues[w])
    BY DEF PoolTypeOK, OnePlace
  <2>3. Back(localQueues[w]) \in Tasks
    BY <1>2, <2>2, PopElems, NoElems
  <2> QED BY <1>2, <2>1, <2>2, <2>3, PopElems, GotInv
<1> QED BY <1>1, <1>2

(* steal: the oldest task of another queue. *)
LEMMA StealInv ==
  ASSUME PoolInv, NEW w \in Workers, Steal(w)
  PROVE  PoolInv'
<1> USE DEF PoolInv
<1>1. PICK v \in Workers : /\ wpc[w] = "steal" /\ localQueues[v] # <<>>
                           /\ Got(w, Front(localQueues[v]), v, StealFront(localQueues[v]))
  BY DEF Steal
<1>2. localQueues[v] \in Seq(Tasks) /\ Distinct(localQueues[v])
  BY DEF PoolTypeOK, OnePlace
<1>3. Front(localQueues[v]) \in Tasks
  BY <1>1, <1>2, StealElems, NoElems
<1> QED BY <1>1, <1>2, <1>3, StealElems, GotInv

(* Nothing was found: back to sleep, or to the last look at every queue. *)
LEMMA StealMissInv ==
  ASSUME PoolInv, NEW w \in Workers, StealMiss(w)
  PROVE  PoolInv'
<1> USE DEF PoolInv
<1> DEFINE next == IF stopping[w] THEN "scan" ELSE "load"
<1>1. /\ wpc[w] = "steal" /\ wpc' = [wpc EXCEPT ![w] = next]
      /\ scan' = [scan EXCEPT ![w] = 1]
      /\ localQueues' = localQueues /\ stop' = stop /\ stopping' = stopping
      /\ task' = task /\ push' = push /\ status' = status
  BY DEF StealMiss
<1>2. next \in {"load", "scan"} /\ (next = "scan" => stopping[w])
  OBVIOUS
<1> HIDE DEF next
<1>3. /\ OnePlace' /\ PushesAhead'
      /\ wpc' \in [Workers -> {"load", "pop", "steal", "run", "scan", "exit"}]
      /\ wpc'[w] = next /\ \A u \in Workers : u # w => wpc'[u] = wpc[u]
  BY <1>1, <1>2, RoundInv
<1>4. /\ scan' \in [Workers -> 1 .. Cardinality(Workers)]
      /\ scan'[w] = 1 /\ \A u \in Workers : u # w => scan'[u] = scan[u]
  BY <1>1, WorkersNumbered DEF PoolTypeOK
<1>5. PoolTypeOK'
  BY <1>1, <1>3, <1>4 DEF PoolTypeOK
<1>6. LeavesWhenStopped'
  BY <1>1, <1>2, <1>3 DEF LeavesWhenStopped
<1>7. SomebodyStays'
  <2> SUFFICES ASSUME NEW v \in Workers, WillLookAt(v) PROVE WillLookAt(v)'
    BY <1>1 DEF SomebodyStays
  <2>1. 1 <= v
    BY WorkersNumbered
  <2> QED BY <1>1, <1>2, <1>3, <1>4, <2>1 DEF WillLookAt
<1> QED BY <1>3, <1>5, <1>6, <1>7

(* The last look, queue by queue: a queue that the worker has passed had   *)
(* nothing in it, or has somebody else to look at it.                      *)
LEMMA ScanInv ==
  ASSUME PoolInv, NEW w \in Workers, Scan(w)
  PROVE  PoolInv'
<1> USE DEF PoolInv
<1>1. /\ wpc[w] = "scan"
      /\ localQueues' = localQueues /\ stop' = stop /\ stopping' = stopping
      /\ task' = task /\ push' = push /\ status' = status
  BY DEF Scan
<1>2. CASE localQueues[scan[w]] # <<>>
  <2>1. wpc' = [wpc EXCEPT ![w] = "load"] /\ scan' = scan
    BY <1>2 DEF Scan
  <2>2. /\ OnePlace' /\ PushesAhead'
        /\ wpc' \in [Workers -> {"load", "pop", "steal", "run", "scan", "exit"}]
        /\ wpc'[w] = "load" /\ \A u \in Workers : u # w => wpc'[u] = wpc[u]
    BY <1>1, <2>1, RoundInv
  <2>3. PoolTypeOK'
    BY <1>1, <2>1, <2>2 DEF PoolTypeOK
  <2>4. LeavesWhenStopped' /\ SomebodyStays'
    BY <1>1, <2>1, <2>2 DEF LeavesWhenStopped, SomebodyStays, WillLookAt
  <2> QED BY <2>2, <2>3, <2>4
<1>3. ASSUME localQueues[scan[w]] = <<>>, NEW v \in Workers,
             NEW t \in Elems(localQueues[v]), status[t] = "queued", scan[w] <= v
      PROVE  scan[w] \in Workers /\ scan[w] + 1 <= v
  <2>1. scan[w] \in Workers /\ scan[w] \in Nat /\ v \in Nat
    BY WorkersNumbered DEF PoolTypeOK
  <2>2. v # scan[w]
    BY <1>3, EmptyElems
  <2> QED BY <1>3, <2>1, <2>2
<1>4. CASE localQueues[scan[w]] = <<>> /\ scan[w] = Cardinality(Workers)
  <2>1. wpc' = [wpc EXCEPT ![w] = "exit"] /\ scan' = scan
    BY <1>4 DEF Scan
  <2>2. /\ OnePlace' /\ PushesAhead'
        /\ wpc' \in [Workers -> {"load", "pop", "steal", "run", "scan", "exit"}]
        /\ wpc'[w] = "exit" /\ \A u \in Workers : u # w => wpc'[u] = wpc[u]
    BY <1>1, <2>1, RoundInv
  <2>3. PoolTypeOK'
    BY <1>1, <2>1, <2>2 DEF PoolTypeOK
  <2>4. stop # "running"
    BY <1>1 DEF LeavesWhenStopped
  <2>5. LeavesWhenStopped'
    BY <1>1, <2>2, <2>4 DEF LeavesWhenStopped
  <2>6. SomebodyStays'
    <3> SUFFICES ASSUME NEW v \in Workers, NEW t \in Elems(localQueues[v]),
                        status[t] = "queued"
                 PROVE  WillLookAt(v)'
      BY <1>1 DEF SomebodyStays
    <3>1. PICK u \in Workers : \/ wpc[u] \in {"load", "pop", "steal", "run"}
                               \/ wpc[u] = "scan" /\ scan[u] <= v
      BY DEF SomebodyStays, WillLookAt
    <3>2. u # w
      <4>1. v \in Nat /\ v <= Cardinality(Workers) /\ Cardinality(Workers) \in Nat
        BY WorkersNumbered
      <4> QED BY <1>1, <1>3, <1>4, <3>1, <4>1
    <3> QED BY <2>1, <2>2, <3>1, <3>2 DEF WillLookAt
  <2> QED BY <2>2, <2>3, <2>5, <2>6
<1>5. CASE localQueues[scan[w]] = <<>> /\ scan[w] # Cardinality(Workers)
  <2>1. wpc' = wpc /\ scan' = [scan EXCEPT ![w] = @ + 1]
    BY <1>5 DEF Scan
  <2>2. /\ scan' \in [Workers -> 1 .. Cardinality(Workers)]
        /\ scan'[w] = scan[w] + 1 /\ \A u \in Workers : u # w => scan'[u] = scan[u]
    <3>1. scan \in [Workers -> 1 .. Cardinality(Workers)] /\ Cardinality(Workers) \in Nat
      BY WorkersNumbered DEF PoolTypeOK
    <3>2. scan[w] + 1 \in 1 .. Cardinality(Workers)
      BY <1>5, <3>1
    <3> QED BY <2>1, <3>1, <3>2
  <2>3. PoolTypeOK'
    BY <1>1, <2>1, <2>2 DEF PoolTypeOK
  <2>4. OnePlace' /\ PushesAhead' /\ LeavesWhenStopped'
    BY <1>1, <2>1 DEF OnePlace, PushesAhead, LeavesWhenStopped
  <2>5. SomebodyStays'
    <3> SUFFICES ASSUME NEW v \in Workers, NEW t \in Elems(localQueues[v]),
                        status[t] = "queued"
                 PROVE  WillLookAt(v)'
      BY <1>1 DEF SomebodyStays
    <3>1. PICK u \in Workers : \/ wpc[u] \in {"load", "pop", "steal", "run"}
                               \/ wpc[u] = "scan" /\ scan[u] <= v
      BY DEF SomebodyStays, WillLookAt
    <3>2. CASE u = w
      BY <1>1, <1>3, <1>5, <2>1, <2>2, <3>1, <3>2 DEF WillLookAt
    <3>3. CASE u # w
      BY <2>1, <2>2, <3>1, <3>3 DEF WillLookAt
    <3> QED BY <3>2, <3>3
  <2> QED BY <2>3, <2>4, <2>5
<1> QED BY <1>2, <1>4, <1>5

(* The task is done, and everything it enqueued is in a queue. *)
LEMMA FinishInv ==
  ASSUME PoolInv, NEW w \in Workers, Finish(w)
  PROVE  PoolInv'
<1> USE DEF PoolInv
<1> DEFINE t == task[w]
<1>1. /\ wpc[w] = "run" /\ push[w] = NoTask
      /\ status' = [status EXCEPT ![t] = "done"]
      /\ task' = [task EXCEPT ![w] = NoTask]
      /\ wpc' = [wpc EXCEPT ![w] = "load"]
      /\ localQueues' = localQueues /\ stop' = stop /\ stopping' = stopping
      /\ scan' = scan /\ push' = push
  BY DEF Finish
<1>2. /\ t \in Tasks /\ t # NoTask /\ status[t] = "running"
      /\ \A u \in Workers : u # w => task[u] # t
  BY <1>1 DEF PoolTypeOK, OnePlace
<1> HIDE DEF t
<1>3. /\ task' \in [Workers -> Tasks \cup {NoTask}]
      /\ task'[w] = NoTask /\ \A u \in Workers : u # w => task'[u] = task[u]
      /\ status' \in [Tasks -> {"new", "checked", "queued", "late", "refused",
                                "running", "done"}]
      /\ status'[t] = "done" /\ \A x \in Tasks : x # t => status'[x] = status[x]
      /\ wpc' \in [Workers -> {"load", "pop", "steal", "run", "scan", "exit"}]
      /\ wpc'[w] = "load" /\ \A u \in Workers : u # w => wpc'[u] = wpc[u]
  BY <1>1, <1>2 DEF PoolTypeOK
<1>4. PoolTypeOK'
  BY <1>1, <1>3 DEF PoolTypeOK
<1>5. OnePlace'
  <2>1. \A x \in Tasks : status'[x] \in Queued <=> status[x] \in Queued
    BY <1>2, <1>3 DEF Queued
  <2>2. \A x \in Tasks : status'[x] = "running" <=> \E u \in Workers : task'[u] = x
    BY <1>2, <1>3, NoTaskAssumption DEF OnePlace, t
  <2>3. \A u, x \in Workers : task'[u] = task'[x] /\ task'[u] # NoTask => u = x
    BY <1>3 DEF OnePlace
  <2>4. \A u \in Workers : task'[u] # NoTask <=> wpc'[u] = "run"
    BY <1>3 DEF OnePlace
  <2> QED BY <1>1, <2>1, <2>2, <2>3, <2>4 DEF OnePlace
<1>6. PushesAhead'
  <2>1. \A q \in Producers : push[q] # NoTask => push[q] \in Tasks /\ push[q] # t
    BY <1>2 DEF PoolTypeOK, PushesAhead
  <2>2. \A u \in Workers \ Clients : push'[u] # NoTask => wpc'[u] = "run"
    BY <1>1, <1>3 DEF PushesAhead
  <2> QED BY <1>1, <1>3, <2>1, <2>2 DEF PushesAhead
<1>7. LeavesWhenStopped'
  BY <1>1, <1>3 DEF LeavesWhenStopped
<1>8. SomebodyStays'
  BY <1>1, <1>3 DEF SomebodyStays, WillLookAt
<1> QED BY <1>4, <1>5, <1>6, <1>7, <1>8

(* Every step of clients, workers and the destructor. *)
LEMMA PoolStep == PoolInv /\ [PoolNext]_poolVars => PoolInv'
<1> SUFFICES ASSUME PoolInv, [PoolNext]_poolVars PROVE PoolInv'
  OBVIOUS
<1>1. ASSUME NEW c \in Clients, NEW t \in Tasks, CheckStop(c, t) PROVE PoolInv'
  BY <1>1, CheckStopInv DEF Producers
<1>2. ASSUME NEW w \in Workers, NEW t \in Tasks, wpc[w] = "run", CheckStop(w, t) PROVE PoolInv'
  BY <1>2, CheckStopInv DEF Producers
<1>3. CASE BeginStop
  <2>1. stop = "running" /\ stop' = "stop"
    BY <1>3 DEF BeginStop
  <2>2. /\ localQueues' = localQueues /\ wpc' = wpc /\ stopping' = stopping /\ task' = task
        /\ scan' = scan /\ push' = push /\ status' = status
    BY <1>3 DEF BeginStop
  <2> QED BY <2>1, <2>2 DEF PoolInv, PoolTypeOK, OnePlace, PushesAhead, LeavesWhenStopped,
                            SomebodyStays, WillLookAt
<1>4. CASE Join
  <2>1. stop = "stop" /\ stop' = "joined" /\ \A w \in Workers : wpc[w] = "exit"
    BY <1>4 DEF Join
  <2>2. /\ localQueues' = localQueues /\ wpc' = wpc /\ stopping' = stopping /\ task' = task
        /\ scan' = scan /\ push' = push /\ status' = status
    BY <1>4 DEF Join
  <2> QED BY <2>1, <2>2 DEF PoolInv, PoolTypeOK, OnePlace, PushesAhead, LeavesWhenStopped,
                            SomebodyStays, WillLookAt
<1>5. CASE UNCHANGED poolVars
  BY <1>5 DEF poolVars, PoolInv, PoolTypeOK, OnePlace, PushesAhead, LeavesWhenStopped,
              SomebodyStays, WillLookAt
<1> QED BY <1>1, <1>2, <1>3, <1>4, <1>5, PushInv, LoadStopInv, PopInv, StealInv, StealMissInv,
           ScanInv, FinishInv DEF PoolNext, Seek

(* One place means one occurrence. *)
LEMMA PlacesCounted == PoolInv => NoTaskTwice
<1> SUFFICES ASSUME PoolInv, NEW t \in Tasks
             PROVE  Occurrences(t) =
                      (IF status[t] \in {"queued", "late", "running"} THEN 1 ELSE 0)
  BY DEF NoTaskTwice
<1> DEFINE held == {w \in Workers : task[w] = t}
           places == UNION {{<<w, i>> : i \in {n \in DOMAIN localQueues[w] :
                                               localQueues[w][n] = t}} : w \in Workers}
<1>1. Occurrences(t) = Cardinality(held) + Cardinality(places)
  BY DEF Occurrences
<1>2. /\ status[t] = "running" => \E w \in Workers : held = {w}
      /\ status[t] # "running" => held = {}
  BY NoTaskAssumption DEF PoolInv, OnePlace
<1>3. status[t] \notin Queued => places = {}
  BY DEF PoolInv, OnePlace, Elems
<1>4. ASSUME status[t] \in Queued PROVE \E x : places = {x}
  <2>1. PICK v \in Workers : t \in Elems(localQueues[v])
    BY <1>4 DEF PoolInv, OnePlace
  <2>2. PICK k \in DOMAIN localQueues[v] : localQueues[v][k] = t
    BY <2>1 DEF Elems
  <2>3. \A w \in Workers : \A i \in DOMAIN localQueues[w] :
          localQueues[w][i] = t => w = v /\ i = k
    BY <2>1, <2>2 DEF PoolInv, OnePlace, Elems, Distinct
  <2>4. places = {<<v, k>>}
    BY <2>2, <2>3
  <2> QED BY <2>4
<1>5. Cardinality({}) = 0 /\ \A x : Cardinality({x}) = 1
  BY FS_EmptySet, FS_Singleton
<1> HIDE DEF held, places
<1>6. CASE status[t] = "running"
  <2>1. Cardinality(held) = 1 /\ Cardinality(places) = 0
    BY <1>2, <1>3, <1>5, <1>6 DEF Queued
  <2> QED BY <1>1, <1>6, <2>1
<1>7. CASE status[t] \in Queued
  <2>1. Cardinality(held) = 0 /\ Cardinality(places) = 1
    BY <1>2, <1>4, <1>5, <1>7 DEF Queued
  <2> QED BY <1>1, <1>7, <2>1 DEF Queued
<1>8. CASE status[t] \notin Queued \cup {"running"}
  <2>1. Cardinality(held) = 0 /\ Cardinality(places) = 0
    BY <1>2, <1>3, <1>5, <1>8
  <2> QED BY <1>1, <1>8, <2>1 DEF Queued
<1> QED BY <1>6, <1>7, <1>8

(* Who has left has left nothing that was in time. *)
LEMMA JoinedIsDrained == PoolInv => JoinedMeansDrained
<1> SUFFICES ASSUME PoolInv, stop = "joined", NEW t \in Tasks
             PROVE  status[t] \notin {"queued", "running"}
  BY DEF JoinedMeansDrained
<1> USE DEF PoolInv
<1>1. \A w \in Workers : wpc[w] = "exit" /\ task[w] = NoTask
  BY DEF LeavesWhenStopped, OnePlace
<1>2. status[t] # "running"
  BY <1>1, NoTaskAssumption DEF OnePlace
<1>3. \A v \in Workers : ~WillLookAt(v)
  BY <1>1 DEF WillLookAt
<1>4. status[t] # "queued"
  BY <1>3 DEF OnePlace, SomebodyStays, Queued
<1> QED BY <1>2, <1>4

(* The pool by itself, for any number of workers and clients, with tasks   *)
(* that enqueue tasks: an accepted task is in one place until it ran, and  *)
(* the destructor leaves no task behind that was pushed before it began or *)
(* by a task.                                                              *)
THEOREM PoolKeepsTasks ==
  PoolInit /\ [][PoolNext]_poolVars => [](NoTaskTwice /\ JoinedMeansDrained)
<1>1. PoolInit => PoolInv
  BY PoolInitInv
<1>2. PoolInv /\ [PoolNext]_poolVars => PoolInv'
  BY PoolStep
<1>3. PoolInv => NoTaskTwice /\ JoinedMeansDrained
  BY PlacesCounted, JoinedIsDrained
<1> QED BY <1>1, <1>2, <1>3, PTL

-----------------------------------------------------------------------------
(* AsyncWorkflow *)

NameOf(i) == wf.name[RuleOf(i)]
ActiveId(i) == wf.active[RuleOf(i)]
DepOf(i) == wf.dep[RuleOf(i)]
WaitsFor(i, j) == DepOf(i) = NameOf(j)

(* A caller that has not called, or whose compile threw. *)
NotBegun(c) == cpc[c] \in {"idle", "refused"}

(* Engines are made by compile and destroyed after the join; only a worker *)
(* that runs a task has one.                                               *)
EnginesFit ==
  /\ ~compiled => /\ engines \in {-1, 0} /\ borrowed = {}
                  /\ \A c \in Clients : NotBegun(c)
                  /\ \A t \in Tasks : status[t] = "new"
  /\ compiled /\ engines >= 0 => engines + Cardinality(borrowed) = poolSize
  /\ \A w \in borrowed : wpc[w] = "run"
  /\ engines = -1 => stop = "joined"
  /\ \A t \in Tasks : answer[t] # "no_engine"

(* Where a call is says what is still ahead of it. *)
CallShape(c) ==
  /\ NotBegun(c) => remaining[c] = {} /\ levels[c] = <<>>
  /\ NotBegun(c) \/ remaining[c] # {} =>
       allResults[c] = <<>> /\ \A i \in Ids : status[<<c, i>>] = "new"
  /\ remaining[c] # {} => cpc[c] = "levels"
  /\ cpc[c] \in {"idle", "refused", "levels", "returned"} => level[c] = {} /\ futures[c] = <<>>
  /\ cpc[c] = "collect" => level[c] = {}
  /\ cpc[c] = "returned" => levels[c] = <<>>

InLevels(c) == UNION Elems(levels[c])
Ahead(c) == remaining[c] \cup InLevels(c)
Begun(c) == level[c] \cup Elems(futures[c]) \cup Elems(allResults[c])

(* Every id of the workflow is at one stage of the call. *)
OneStage(c) ==
  /\ cpc[c] \notin {"idle", "refused", "threw"} => UsedIds = Ahead(c) \cup Begun(c)
  /\ Ahead(c) \cup Begun(c) \subseteq UsedIds
  /\ \A k, m \in DOMAIN levels[c] : k # m => levels[c][k] \cap levels[c][m] = {}
  /\ InLevels(c) \cap remaining[c] = {} /\ Ahead(c) \cap Begun(c) = {}
  /\ level[c] \cap (Elems(futures[c]) \cup Elems(allResults[c])) = {}
  /\ Elems(futures[c]) \cap Elems(allResults[c]) = {}
  /\ Distinct(futures[c]) /\ Distinct(allResults[c])

(* What a rule waits for is in an earlier level, and reported when the     *)
(* rule's own level begins.                                                *)
LevelsInOrder(c) ==
  /\ \A k \in DOMAIN levels[c] : \A i \in levels[c][k], j \in UsedIds : WaitsFor(i, j) =>
       /\ j \notin remaining[c]
       /\ \A m \in DOMAIN levels[c] : k <= m => j \notin levels[c][m]
  /\ \A i \in level[c], j \in UsedIds : WaitsFor(i, j) =>
       j \notin Ahead(c) \cup level[c] \cup Elems(futures[c])

(* What an active rule reported was merged. *)
ResultsMerged(c) ==
  \A j \in Elems(allResults[c]) : ActiveId(j) => NameOf(j) \in sharedContext[c]

CallInv ==
  \A c \in Clients : CallShape(c) /\ OneStage(c) /\ LevelsInOrder(c) /\ ResultsMerged(c)

(* A task is one of a call's ids, and has what it waits for. *)
TaskSees(t) ==
  \E c \in Clients, i \in UsedIds :
    /\ t = <<c, i>>
    /\ (\E j \in UsedIds : WaitsFor(i, j) /\ ActiveId(j)) => DepOf(i) \in localCtx[t]
TasksSee == \A t \in Tasks : status[t] # "new" => TaskSees(t)

(* No level takes a rule out of a cycle. *)
Cycle(s) == s # {} /\ \A i \in s : \E j \in s : WaitsFor(i, j)
CycleStays ==
  \A s \in SUBSET UsedIds : Cycle(s) =>
    \A c \in Clients : NotBegun(c) \/ s \subseteq remaining[c]

GotAll == got = "all" => \A c \in Clients : cpc[c] = "returned"

AsyncInv ==
  TypeOK /\ PoolInv /\ EnginesFit /\ CallInv /\ TasksSee /\ CycleStays /\ GotAll

(* The wrapped workflow stays what it is, and so does all that it says. *)
LEMMA SameFlow ==
  ASSUME wf' = wf
  PROVE  /\ UsedIds' = UsedIds
         /\ \A i : NameOf(i)' = NameOf(i) /\ ActiveId(i)' = ActiveId(i) /\ DepOf(i)' = DepOf(i)
         /\ \A i, j : WaitsFor(i, j)' <=> WaitsFor(i, j)
<1>1. UsedIds' = UsedIds
  BY DEF UsedIds
<1>2. ASSUME NEW i PROVE RuleOf(i)' = RuleOf(i)
  BY Zenon DEF RuleOf
<1>3. ASSUME NEW i
      PROVE NameOf(i)' = NameOf(i) /\ ActiveId(i)' = ActiveId(i) /\ DepOf(i)' = DepOf(i)
  BY <1>2 DEF NameOf, ActiveId, DepOf
<1>4. \A i, j : WaitsFor(i, j)' <=> WaitsFor(i, j)
  BY <1>3 DEF WaitsFor
<1> QED BY <1>1, <1>3, <1>4

(* Ids are ids, finitely many, and every one has a rule and a name. *)
LEMMA IdsAreUsed ==
  ASSUME wf \in Workflows
  PROVE  /\ UsedIds \subseteq Ids /\ IsFiniteSet(UsedIds)
         /\ \A i \in UsedIds : RuleOf(i) \in Rules /\ NameOf(i) \in Names
<1> DEFINE n == Cardinality(Rules)
<1>1. n \in Nat /\ Rules = 1 .. n /\ wf.id \in [Rules -> Ids]
  BY WorkflowAssumption, FS_CardinalityType
<1>2. UsedIds \subseteq Ids
  BY <1>1 DEF UsedIds
<1>3. IsFiniteSet(Ids)
  BY <1>1, FS_Interval DEF Ids
<1>4. IsFiniteSet(UsedIds)
  BY <1>2, <1>3, FS_Subset
<1>5. ASSUME NEW i \in UsedIds PROVE RuleOf(i) \in Rules /\ NameOf(i) \in Names
  <2> DEFINE rs == {r \in Rules : wf.id[r] = i}
             back == {k \in Nat : \E r \in rs : k = n - r}
  <2>1. PICK a \in rs : TRUE
    BY DEF UsedIds
  <2>2. \A r \in rs : r \in Nat /\ n - r \in Nat
    BY <1>1
  <2>3. n - a \in back
    BY <2>1, <2>2
  <2>4. PICK m \in back : \A k \in back : <<k, m>> \notin OpToRel(<, Nat)
    BY <2>3, NatLessThanWellFounded, WFMin
  <2>5. \A k \in back : ~(k < m)
    BY <2>4 DEF OpToRel
  <2>6. PICK r \in rs : m = n - r
    OBVIOUS
  <2>7. ASSUME NEW q \in rs PROVE q <= r
    <3>1. n - q \in back
      BY <2>2
    <3>2. ~(n - q < n - r)
      BY <2>5, <2>6, <3>1
    <3>3. n \in Nat /\ q \in Nat /\ r \in Nat
      BY <1>1, <2>2
    <3> HIDE DEF n
    <3> QED BY <3>2, <3>3
  <2>8. r \in Rules /\ wf.id[r] = i /\ \A q \in Rules : wf.id[q] = i => q <= r
    BY <2>6, <2>7
  <2>9. RuleOf(i) \in Rules
    BY <2>8 DEF RuleOf
  <2> QED BY <2>9 DEF NameOf, Names
<1> QED BY <1>2, <1>4, <1>5

(* The first of a sequence and the rest. *)
LEMMA TailElems ==
  ASSUME NEW S, NEW q \in Seq(S), q # <<>>
  PROVE  /\ Head(q) \in S /\ Head(q) = q[1] /\ 1 \in DOMAIN q /\ Tail(q) \in Seq(S)
         /\ \A k \in DOMAIN Tail(q) : k \in Nat /\ k + 1 \in DOMAIN q /\ Tail(q)[k] = q[k + 1]
         /\ Elems(q) = {Head(q)} \cup Elems(Tail(q))
         /\ Distinct(q) => Distinct(Tail(q)) /\ Head(q) \notin Elems(Tail(q))
<1> DEFINE n == Len(q)
<1>1. /\ n \in Nat \ {0} /\ DOMAIN q = 1 .. n
  BY LenProperties, EmptySeq
<1>2. /\ Head(q) \in S /\ Tail(q) \in Seq(S) /\ Len(Tail(q)) = n - 1
      /\ \A k \in 1 .. n - 1 : Tail(q)[k] = q[k + 1]
  BY HeadTailProperties
<1>3. DOMAIN Tail(q) = 1 .. n - 1
  BY <1>2, LenProperties
<1>4. Head(q) = q[1]
  BY <1>1, SubSeqFull, HeadTailOfSubSeq
<1> HIDE DEF n
<1>5. \A k \in DOMAIN Tail(q) : k \in Nat /\ k + 1 \in DOMAIN q /\ Tail(q)[k] = q[k + 1]
  BY <1>1, <1>2, <1>3
<1>6. \A k \in DOMAIN q : k = 1 \/ (k - 1 \in DOMAIN Tail(q) /\ Tail(q)[k - 1] = q[k])
  BY <1>1, <1>2, <1>3
<1>7. 1 \in DOMAIN q /\ 1 \notin {k + 1 : k \in DOMAIN Tail(q)}
  BY <1>1, <1>3
<1>8. Elems(q) = {Head(q)} \cup Elems(Tail(q))
  <2>1. ASSUME NEW x \in Elems(q) PROVE x = Head(q) \/ x \in Elems(Tail(q))
    BY <1>4, <1>6, <2>1 DEF Elems
  <2>2. Head(q) \in Elems(q)
    BY <1>4, <1>7 DEF Elems
  <2>3. ASSUME NEW x \in Elems(Tail(q)) PROVE x \in Elems(q)
    BY <1>5, <2>3 DEF Elems
  <2> QED BY <2>1, <2>2, <2>3
<1>9. ASSUME Distinct(q) PROVE Distinct(Tail(q)) /\ Head(q) \notin Elems(Tail(q))
  <2>1. ASSUME NEW k \in DOMAIN Tail(q), NEW m \in DOMAIN Tail(q), Tail(q)[k] = Tail(q)[m]
        PROVE  k = m
    <3>1. q[k + 1] = q[m + 1] /\ k + 1 \in DOMAIN q /\ m + 1 \in DOMAIN q
      BY <1>5, <2>1
    <3>2. k + 1 = m + 1
      BY <1>9, <3>1 DEF Distinct
    <3> QED BY <1>5, <3>2
  <2>2. ASSUME NEW k \in DOMAIN Tail(q) PROVE Tail(q)[k] # Head(q)
    <3>1. Tail(q)[k] = q[k + 1] /\ k + 1 \in DOMAIN q /\ k + 1 # 1
      BY <1>5, <1>7
    <3> QED BY <1>4, <1>7, <1>9, <3>1 DEF Distinct
  <2> QED BY <2>1, <2>2 DEF Distinct, Elems
<1> QED BY <1>2, <1>4, <1>5, <1>7, <1>8, <1>9

(* What a call does to the pool, the pool's own clients may do. *)
LEMMA NextIsPoolStep ==
  ASSUME TypeOK, [Next]_vars
  PROVE  [PoolNext]_poolVars
<1>1. ASSUME NEW c \in Clients, Enqueue(c) PROVE PoolNext
  <2>1. PICK i \in level[c] : CheckStop(c, <<c, i>>)
    BY <1>1 DEF Enqueue
  <2>2. i \in Ids
    BY DEF TypeOK
  <2>3. <<c, i>> \in Tasks
    BY <2>2, WorkflowAssumption
  <2> QED BY <2>1, <2>3 DEF PoolNext
<1>2. ASSUME NEW c \in Clients, Submit(c) PROVE PoolNext
  BY <1>2 DEF Submit, PoolNext, Producers
<1>3. ASSUME NEW c \in Clients, Compile(c) \/ CompileThrows(c) \/ Call(c) \/ Get(c) \/ BuildLevel(c) \/ NextLevel(c)
                                \/ Skip(c) \/ Enqueued(c) \/ Collect(c) \/ Collected(c)
      PROVE  UNCHANGED poolVars
  BY <1>3 DEF Compile, CompileThrows, Call, Get, BuildLevel, NextLevel, Skip, Enqueued, Collect, Collected
<1>4. ASSUME NEW w \in Workers, WorkerStep(w) \/ TaskBreaks(w) PROVE [PoolNext]_poolVars
  BY <1>4 DEF WorkerStep, TaskBreaks, WorkerSeeks, AcquireEngine, Execute, ReleaseEngine,
              TaskReturns, PoolNext
<1>5. ASSUME DestroyThreadPool \/ DestroyEngines PROVE [PoolNext]_poolVars
  BY <1>5 DEF DestroyThreadPool, DestroyEngines, PoolNext
<1>6. ASSUME UNCHANGED vars PROVE UNCHANGED poolVars
  BY <1>6 DEF vars
<1> QED BY <1>1, <1>2, <1>3, <1>4, <1>5, <1>6 DEF Next, CallerStep

(* A task that nobody enqueues stays new. *)
LEMMA NewIsKept ==
  ASSUME PoolInv,
         \/ \E p \in Producers, w \in Workers : Push(p, w)
         \/ \E w \in Workers : Seek(w) \/ Finish(w)
         \/ BeginStop \/ Join \/ UNCHANGED poolVars
  PROVE  \A t \in Tasks : status'[t] = "new" <=> status[t] = "new"
<1> USE DEF PoolInv
<1>1. ASSUME NEW x \in Tasks, status[x] # "new", NEW r, r # "new",
             status' = [status EXCEPT ![x] = r]
      PROVE  \A t \in Tasks : status'[t] = "new" <=> status[t] = "new"
  BY <1>1 DEF PoolTypeOK
<1>2. ASSUME NEW p \in Producers, NEW w \in Workers, Push(p, w)
      PROVE  \A t \in Tasks : status'[t] = "new" <=> status[t] = "new"
  <2> DEFINE r == IF p \in Clients /\ stop # "running" THEN "late" ELSE "queued"
  <2>1. push[p] # NoTask /\ status' = [status EXCEPT ![push[p]] = r] /\ r # "new"
    BY <1>2 DEF Push
  <2>2. push[p] \in Tasks /\ status[push[p]] # "new"
    BY <2>1 DEF PoolTypeOK, PushesAhead
  <2> QED BY <1>1, <2>1, <2>2
<1>3. ASSUME NEW w \in Workers, NEW v \in Workers, NEW t, NEW rest,
             Got(w, t, v, rest), t \in Elems(localQueues[v])
      PROVE  \A x \in Tasks : status'[x] = "new" <=> status[x] = "new"
  <2>1. t \in Tasks
    BY <1>3, NoElems DEF PoolTypeOK
  <2>2. status[t] # "new"
    BY <1>3, <2>1 DEF OnePlace, Queued
  <2>3. status' = [status EXCEPT ![t] = "running"]
    BY <1>3 DEF Got
  <2> QED BY <1>1, <2>1, <2>2, <2>3
<1>4. ASSUME NEW w \in Workers, Pop(w)
      PROVE  \A t \in Tasks : status'[t] = "new" <=> status[t] = "new"
  <2>1. localQueues[w] \in Seq(Tasks) /\ Distinct(localQueues[w])
    BY DEF PoolTypeOK, OnePlace
  <2> QED BY <1>3, <1>4, <2>1, PopElems DEF Pop
<1>5. ASSUME NEW w \in Workers, Steal(w)
      PROVE  \A t \in Tasks : status'[t] = "new" <=> status[t] = "new"
  <2>1. PICK v \in Workers : /\ localQueues[v] # <<>>
                             /\ Got(w, Front(localQueues[v]), v, StealFront(localQueues[v]))
    BY <1>5 DEF Steal
  <2>2. localQueues[v] \in Seq(Tasks) /\ Distinct(localQueues[v])
    BY DEF PoolTypeOK, OnePlace
  <2> QED BY <1>3, <2>1, <2>2, StealElems
<1>6. ASSUME NEW w \in Workers, Finish(w)
      PROVE  \A t \in Tasks : status'[t] = "new" <=> status[t] = "new"
  <2>1. wpc[w] = "run" /\ status' = [status EXCEPT ![task[w]] = "done"]
    BY <1>6 DEF Finish
  <2>2. task[w] \in Tasks /\ status[task[w]] # "new"
    BY <2>1 DEF PoolTypeOK, OnePlace
  <2> QED BY <1>1, <2>1, <2>2
<1>7. ASSUME NEW w \in Workers, LoadStop(w) \/ StealMiss(w) \/ Scan(w) PROVE status' = status
  BY <1>7 DEF LoadStop, StealMiss, Scan
<1>8. ASSUME BeginStop \/ Join \/ UNCHANGED poolVars PROVE status' = status
  BY <1>8 DEF BeginStop, Join, poolVars
<1> QED BY <1>2, <1>4, <1>5, <1>6, <1>7, <1>8 DEF Seek

CallSound(c) == CallShape(c) /\ OneStage(c) /\ LevelsInOrder(c) /\ ResultsMerged(c)

(* A call that nothing happens to. *)
LEMMA CallKept ==
  ASSUME NEW c \in Clients, CallSound(c), wf' = wf,
         cpc'[c] = cpc[c], remaining'[c] = remaining[c], levels'[c] = levels[c],
         level'[c] = level[c], futures'[c] = futures[c], allResults'[c] = allResults[c],
         sharedContext'[c] = sharedContext[c],
         \A i \in Ids : status[<<c, i>>] = "new" => status'[<<c, i>>] = "new"
  PROVE  CallSound(c)'
<1> USE SameFlow DEF CallSound
<1>1. CallShape(c)'
  BY DEF CallShape, NotBegun
<1>2. Ahead(c)' = Ahead(c) /\ InLevels(c)' = InLevels(c) /\ Begun(c)' = Begun(c)
  BY DEF Ahead, InLevels, Begun
<1>3. OneStage(c)'
  BY <1>2 DEF OneStage
<1>4. LevelsInOrder(c)'
  BY <1>2 DEF LevelsInOrder
<1>5. ResultsMerged(c)'
  BY DEF ResultsMerged
<1> QED BY <1>1, <1>3, <1>4, <1>5

(* A step of somebody else than a caller, or of a caller in the pool. *)
LEMMA CallVarsKept ==
  ASSUME AsyncInv, UNCHANGED callVars,
         \A t \in Tasks : status'[t] = "new" <=> status[t] = "new"
  PROVE  CallInv' /\ TasksSee' /\ CycleStays' /\ GotAll'
<1> USE DEF AsyncInv
<1>1. /\ wf' = wf /\ cpc' = cpc /\ remaining' = remaining /\ levels' = levels
      /\ level' = level /\ futures' = futures /\ allResults' = allResults
      /\ sharedContext' = sharedContext /\ localCtx' = localCtx /\ got' = got
  BY DEF callVars
<1>2. ASSUME NEW c \in Clients PROVE CallSound(c)'
  <2>1. \A i \in Ids : status[<<c, i>>] = "new" => status'[<<c, i>>] = "new"
    BY WorkflowAssumption
  <2>2. CallSound(c)
    BY DEF CallInv, CallSound
  <2> QED BY <1>1, <2>1, <2>2, CallKept
<1>3. CallInv'
  BY <1>2 DEF CallInv, CallSound
<1>4. TasksSee'
  BY <1>1, SameFlow DEF TasksSee, TaskSees
<1>5. CycleStays'
  BY <1>1, SameFlow DEF CycleStays, Cycle, NotBegun
<1> QED BY <1>1, <1>3, <1>4, <1>5 DEF GotAll

(* One engine per worker at least; borrowing counts. *)
LEMMA EnginesForWorkers ==
  /\ poolSize \in Nat /\ Cardinality(Workers) <= poolSize
  /\ \A b \in SUBSET Workers : IsFiniteSet(b) /\ Cardinality(b) \in Nat
<1>1. Workers = 1 .. Cardinality(Workers) /\ IsFiniteSet(Workers)
  BY WorkersNumbered
<1> DEFINE n == IF numThreads = 0 THEN 1 ELSE numThreads
<1>2. n \in Nat /\ n >= 1 /\ Workers = 1 .. n /\ poolSize \in Nat /\ n <= poolSize
  BY NumThreadsAssumption DEF Workers, poolSize
<1> HIDE DEF n
<1>3. Cardinality(Workers) = n
  BY <1>2, FS_Interval
<1>4. ASSUME NEW b \in SUBSET Workers PROVE IsFiniteSet(b) /\ Cardinality(b) \in Nat
  BY <1>1, FS_Subset, FS_CardinalityType
<1> QED BY <1>2, <1>3, <1>4

(* The types of what a step outside of the calls leaves alone. *)
LEMMA CallTypesKept ==
  ASSUME TypeOK, PoolInv', UNCHANGED callVars,
         engines' \in -1 .. poolSize, borrowed' \in SUBSET Workers,
         answer' \in [Tasks -> Answers]
  PROVE  TypeOK'
  BY DEF TypeOK, PoolInv, callVars

(* A worker that runs a task runs one that was enqueued. *)
LEMMA RunningTask ==
  ASSUME AsyncInv, NEW w \in Workers, wpc[w] = "run"
  PROVE  task[w] \in Tasks /\ status[task[w]] = "running" /\ compiled /\ stop # "joined"
<1>1. task[w] \in Tasks /\ status[task[w]] = "running"
  BY DEF AsyncInv, PoolInv, PoolTypeOK, OnePlace
<1>2. compiled
  BY <1>1 DEF AsyncInv, EnginesFit
<1>3. stop # "joined"
  BY DEF AsyncInv, PoolInv, LeavesWhenStopped
<1> QED BY <1>1, <1>2, <1>3

(* What happens in the pool leaves the engines with who has them. *)
LEMMA PoolSideInv ==
  ASSUME AsyncInv, PoolInv', UNCHANGED callVars, engines' = engines, borrowed' = borrowed,
         answer' = answer,
         \/ \E p \in Producers, w \in Workers : Push(p, w)
         \/ \E w \in Workers : Seek(w)
         \/ \E w \in Workers : w \notin borrowed /\ Finish(w)
         \/ BeginStop \/ Join
  PROVE  AsyncInv'
<1> USE DEF AsyncInv
<1>1. TypeOK'
  BY CallTypesKept DEF TypeOK
<1>2. \A t \in Tasks : status'[t] = "new" <=> status[t] = "new"
  BY NewIsKept
<1>3. CallInv' /\ TasksSee' /\ CycleStays' /\ GotAll'
  BY <1>2, CallVarsKept
<1>4. compiled' = compiled /\ cpc' = cpc
  BY DEF callVars
<1>5. ASSUME NEW w \in borrowed PROVE wpc'[w] = "run"
  <2>1. w \in Workers /\ wpc[w] = "run"
    BY DEF TypeOK, EnginesFit
  <2>2. ASSUME NEW v \in Workers, Seek(v) PROVE wpc'[w] = "run"
    <3>1. wpc[v] # "run" /\ \E r \in {"load", "pop", "steal", "run", "scan", "exit"} :
                                \/ wpc' = [wpc EXCEPT ![v] = r]
                                \/ wpc' = wpc
      BY <2>2 DEF Seek, LoadStop, Pop, Steal, StealMiss, Scan, Got
    <3> QED BY <2>1, <3>1 DEF TypeOK, PoolTypeOK
  <2>3. ASSUME NEW v \in Workers, v # w, Finish(v) PROVE wpc'[w] = "run"
    BY <2>1, <2>3 DEF Finish, TypeOK, PoolTypeOK
  <2>4. ASSUME NEW p \in Producers, NEW v \in Workers, Push(p, v) PROVE wpc'[w] = "run"
    BY <2>1, <2>4 DEF Push
  <2>5. ASSUME BeginStop \/ Join PROVE wpc'[w] = "run"
    BY <2>1, <2>5 DEF BeginStop, Join
  <2> QED BY <2>2, <2>3, <2>4, <2>5
<1>6. stop' = stop \/ stop # "joined"
  BY DEF Push, Seek, LoadStop, Pop, Steal, StealMiss, Scan, Got, Finish, BeginStop, Join
<1>7. EnginesFit'
  BY <1>2, <1>4, <1>5, <1>6 DEF EnginesFit, NotBegun
<1> QED BY <1>1, <1>3, <1>7

(* What a worker does with its task and an engine leaves the pool alone. *)
LEMMA EngineSideInv ==
  ASSUME AsyncInv, UNCHANGED <<poolVars, callVars>>,
         borrowed' \in SUBSET Workers, \A w \in borrowed' : wpc[w] = "run",
         answer' \in [Tasks -> Answers], \A t \in Tasks : answer'[t] # "no_engine",
         compiled,
         \/ engines' \in Nat /\ engines' + Cardinality(borrowed') = poolSize
         \/ engines' = -1 /\ stop = "joined"
  PROVE  AsyncInv'
<1> USE DEF AsyncInv
<1>1. PoolInv'
  BY PoolStep DEF vars
<1>2. TypeOK'
  <2>1. poolSize \in Nat /\ Cardinality(borrowed') \in Nat
    BY EnginesForWorkers
  <2>2. engines' \in -1 .. poolSize
    BY <2>1
  <2> QED BY <1>1, <2>2, CallTypesKept
<1>3. \A t \in Tasks : status'[t] = "new" <=> status[t] = "new"
  BY DEF poolVars
<1>4. CallInv' /\ TasksSee' /\ CycleStays' /\ GotAll'
  BY <1>3, CallVarsKept
<1>5. EnginesFit'
  <2>1. compiled' /\ stop' = stop /\ wpc' = wpc
    BY DEF poolVars, callVars
  <2>2. engines' >= 0 => engines' + Cardinality(borrowed') = poolSize
    OBVIOUS
  <2>3. engines' = -1 => stop' = "joined"
    BY <2>1
  <2> QED BY <2>1, <2>2, <2>3 DEF EnginesFit
<1> QED BY <1>1, <1>2, <1>4, <1>5

(* The steps of a task: it breaks, takes an engine, runs, gives it back. *)
LEMMA TaskInv ==
  ASSUME AsyncInv, NEW w \in Workers,
         TaskBreaks(w) \/ AcquireEngine(w) \/ Execute(w) \/ ReleaseEngine(w)
  PROVE  AsyncInv'
<1> USE DEF AsyncInv
<1>1. UNCHANGED <<poolVars, callVars>>
  BY DEF TaskBreaks, AcquireEngine, Execute, ReleaseEngine
<1>2. wpc[w] = "run"
  BY DEF TaskBreaks, AcquireEngine, Execute, ReleaseEngine, EnginesFit
<1>3. task[w] \in Tasks /\ compiled /\ stop # "joined"
  BY <1>2, RunningTask
<1>4. /\ borrowed \in SUBSET Workers
      /\ answer \in [Tasks -> Answers] /\ \A t \in Tasks : answer[t] # "no_engine"
      /\ \A v \in borrowed : wpc[v] = "run"
  BY DEF TypeOK, EnginesFit
<1>5. poolSize \in Nat /\ IsFiniteSet(borrowed) /\ Cardinality(borrowed) \in Nat
  BY <1>4, EnginesForWorkers
<1>6. engines \in Nat /\ engines >= 0
  <2>1. engines \in -1 .. poolSize /\ engines # -1
    BY <1>3 DEF TypeOK, EnginesFit
  <2>2. engines \in Int /\ engines >= -1
    BY <1>5, <2>1
  <2> QED BY <2>1, <2>2
<1>7. engines + Cardinality(borrowed) = poolSize
  BY <1>3, <1>6, Zenon DEF EnginesFit
<1>8. ASSUME NEW a \in Answers, a # "no_engine", answer' = [answer EXCEPT ![task[w]] = a],
             engines' = engines, borrowed' = borrowed
      PROVE  AsyncInv'
  <2>1. answer' \in [Tasks -> Answers] /\ \A t \in Tasks : answer'[t] # "no_engine"
    BY <1>3, <1>4, <1>8
  <2> QED BY <1>1, <1>3, <1>4, <1>6, <1>7, <1>8, <2>1, EngineSideInv
<1>9. CASE TaskBreaks(w)
  BY <1>8, <1>9 DEF TaskBreaks, Answers
<1>10. CASE Execute(w)
  BY <1>8, <1>10 DEF Execute, Answers
<1>11. CASE AcquireEngine(w)
  <2>1. w \notin borrowed
    BY <1>11 DEF AcquireEngine
  <2>2. Cardinality(borrowed) < poolSize
    <3>1. IsFiniteSet(Workers) /\ Cardinality(Workers) \in Nat
      BY WorkersNumbered
    <3>2. IsFiniteSet(Workers \ {w}) /\ Cardinality(Workers \ {w}) = Cardinality(Workers) - 1
      BY <3>1, FS_RemoveElement
    <3>3. borrowed \in SUBSET (Workers \ {w})
      BY <1>4, <2>1
    <3>4. Cardinality(borrowed) <= Cardinality(Workers \ {w})
      BY <3>2, <3>3, FS_Subset
    <3>5. Cardinality(Workers) <= poolSize
      BY EnginesForWorkers
    <3> QED BY <1>5, <3>1, <3>2, <3>4, <3>5
  <2>3. engines > 0
    BY <1>5, <1>6, <1>7, <2>2
  <2>4. engines' = engines - 1 /\ borrowed' = borrowed \cup {w} /\ answer' = answer
    BY <1>11, <2>3 DEF AcquireEngine
  <2>5. Cardinality(borrowed') = Cardinality(borrowed) + 1
    BY <1>5, <2>1, <2>4, FS_AddElement
  <2>6. engines' \in Nat /\ engines' + Cardinality(borrowed') = poolSize
    BY <1>5, <1>6, <1>7, <2>3, <2>4, <2>5
  <2>7. borrowed' \in SUBSET Workers /\ \A v \in borrowed' : wpc[v] = "run"
    BY <1>2, <1>4, <2>4
  <2> QED BY <1>1, <1>3, <1>4, <2>4, <2>6, <2>7, EngineSideInv
<1>12. CASE ReleaseEngine(w)
  <2>1. w \in borrowed /\ engines' = engines + 1 /\ borrowed' = borrowed \ {w}
        /\ answer' = answer
    BY <1>12 DEF ReleaseEngine
  <2>2. Cardinality(borrowed') = Cardinality(borrowed) - 1 /\ Cardinality(borrowed') \in Nat
    BY <1>5, <2>1, FS_RemoveElement, FS_CardinalityType
  <2>3. engines' \in Nat /\ engines' + Cardinality(borrowed') = poolSize
    BY <1>5, <1>6, <1>7, <2>1, <2>2
  <2>4. borrowed' \in SUBSET Workers /\ \A v \in borrowed' : wpc[v] = "run"
    BY <1>4, <2>1
  <2> QED BY <1>1, <1>3, <1>4, <2>1, <2>3, <2>4, EngineSideInv
<1> QED BY <1>9, <1>10, <1>11, <1>12

(* The engines go after the join. *)
LEMMA DestroyEnginesInv ==
  ASSUME AsyncInv, DestroyEngines
  PROVE  AsyncInv'
<1> USE DEF AsyncInv
<1>1. /\ stop = "joined" /\ engines' = -1
      /\ UNCHANGED <<poolVars, callVars>> /\ borrowed' = borrowed /\ answer' = answer
  BY DEF DestroyEngines
<1>2. PoolInv' /\ status' = status /\ stop' = stop /\ wpc' = wpc
  BY <1>1, PoolStep DEF poolVars
<1>3. TypeOK'
  <2>1. poolSize \in Nat
    BY EnginesForWorkers
  <2>2. engines' \in -1 .. poolSize /\ borrowed' \in SUBSET Workers /\ answer' \in [Tasks -> Answers]
    BY <1>1, <2>1 DEF TypeOK
  <2> QED BY <1>1, <1>2, <2>2, CallTypesKept
<1>4. CallInv' /\ TasksSee' /\ CycleStays' /\ GotAll'
  BY <1>1, <1>2, CallVarsKept
<1>5. compiled' = compiled /\ cpc' = cpc
  BY <1>1 DEF callVars
<1>6. EnginesFit'
  BY <1>1, <1>2, <1>5 DEF EnginesFit, NotBegun
<1> QED BY <1>2, <1>3, <1>4, <1>6

(* A step of one caller: what has to be shown of it. *)
LEMMA CallerInv ==
  ASSUME AsyncInv, PoolInv', TypeOK', NEW c \in Clients,
         compiled, compiled' = compiled, wf' = wf, got' = got,
         engines' = engines, borrowed' = borrowed, answer' = answer, wpc' = wpc, stop' = stop,
         \A d \in Clients \ {c} :
           /\ cpc'[d] = cpc[d] /\ remaining'[d] = remaining[d] /\ levels'[d] = levels[d]
           /\ level'[d] = level[d] /\ futures'[d] = futures[d]
           /\ allResults'[d] = allResults[d] /\ sharedContext'[d] = sharedContext[d]
           /\ \A i \in Ids : status[<<d, i>>] = "new" => status'[<<d, i>>] = "new",
         cpc[c] # "returned", CallSound(c)', TasksSee',
         \A s \in SUBSET UsedIds : Cycle(s) => s \subseteq remaining'[c]
  PROVE  AsyncInv'
<1> USE DEF AsyncInv
<1>1. ASSUME NEW d \in Clients PROVE CallSound(d)'
  <2>1. CASE d = c
    BY <2>1
  <2>2. CASE d # c
    <3>1. CallSound(d)
      BY DEF CallInv, CallSound
    <3> QED BY <2>2, <3>1, CallKept
  <2> QED BY <2>1, <2>2
<1>2. CallInv'
  BY <1>1 DEF CallInv, CallSound
<1>3. CycleStays'
  <2>1. UsedIds' = UsedIds /\ \A s : Cycle(s)' <=> Cycle(s)
    BY SameFlow DEF Cycle
  <2>2. ASSUME NEW s \in SUBSET UsedIds, Cycle(s), NEW d \in Clients
        PROVE  NotBegun(d)' \/ s \subseteq remaining'[d]
    BY <2>2 DEF CycleStays, NotBegun
  <2> QED BY <2>1, <2>2 DEF CycleStays
<1>4. GotAll'
  BY DEF GotAll
<1>5. EnginesFit'
  BY DEF EnginesFit
<1> QED BY <1>2, <1>3, <1>4, <1>5

(* Tasks keep what they were given. *)
LEMMA TasksSeeKept ==
  ASSUME TasksSee, wf' = wf, localCtx' = localCtx, status' = status
  PROVE  TasksSee'
  BY SameFlow DEF TasksSee, TaskSees

(* compile makes the engines; nobody has called yet. *)
LEMMA CompileInv ==
  ASSUME AsyncInv, NEW c \in Clients, Compile(c)
  PROVE  AsyncInv'
<1> USE DEF AsyncInv
<1>1. /\ compiled' = TRUE /\ engines' = poolSize /\ borrowed' = borrowed /\ wf' = wf
      /\ UNCHANGED poolVars /\ answer' = answer /\ borrowed = {}
      /\ cpc' = cpc /\ remaining' = remaining /\ levels' = levels /\ level' = level
      /\ futures' = futures /\ localCtx' = localCtx /\ allResults' = allResults
      /\ sharedContext' = sharedContext /\ got' = got
  BY DEF Compile, EnginesFit
<1>2. PoolInv' /\ status' = status
  BY <1>1, PoolStep DEF poolVars
<1>3. poolSize \in Nat /\ Cardinality({}) = 0
  BY EnginesForWorkers, FS_EmptySet
<1>4. engines' \in -1 .. poolSize /\ engines' # -1 /\ engines' + Cardinality(borrowed') = poolSize
  BY <1>1, <1>3
<1>5. TypeOK'
  BY <1>1, <1>2, <1>4 DEF TypeOK, PoolInv
<1>6. EnginesFit'
  BY <1>1, <1>4 DEF EnginesFit
<1>7. ASSUME NEW d \in Clients PROVE CallSound(d)'
  BY <1>1, <1>2, CallKept DEF CallInv, CallSound
<1>8. CallInv' /\ TasksSee'
  BY <1>1, <1>2, <1>7, TasksSeeKept DEF CallInv, CallSound
<1>9. CycleStays' /\ GotAll'
  BY <1>1, SameFlow DEF CycleStays, Cycle, GotAll, NotBegun
<1> QED BY <1>2, <1>5, <1>6, <1>8, <1>9

(* A compile that throws ends the call before it begins. *)
LEMMA CompileThrowsInv ==
  ASSUME AsyncInv, NEW c \in Clients, CompileThrows(c)
  PROVE  AsyncInv'
<1> USE DEF AsyncInv
<1>1. /\ ~compiled /\ cpc[c] = "idle" /\ cpc' = [cpc EXCEPT ![c] = "refused"]
      /\ compiled' = compiled /\ engines' = engines /\ borrowed' = borrowed /\ wf' = wf
      /\ UNCHANGED poolVars /\ answer' = answer
      /\ remaining' = remaining /\ levels' = levels /\ level' = level
      /\ futures' = futures /\ localCtx' = localCtx /\ allResults' = allResults
      /\ sharedContext' = sharedContext /\ got' = got
  BY DEF CompileThrows
<1>2. PoolInv' /\ status' = status /\ stop' = stop /\ wpc' = wpc
  BY <1>1, PoolStep DEF poolVars
<1>3. TypeOK'
  BY <1>1, <1>2 DEF TypeOK, PoolInv
<1>4. cpc'[c] = "refused" /\ \A d \in Clients \ {c} : cpc'[d] = cpc[d]
  BY <1>1 DEF TypeOK
<1>5. EnginesFit'
  <2>1. \A d \in Clients : NotBegun(d)'
    BY <1>1, <1>4 DEF EnginesFit, NotBegun
  <2> QED BY <1>1, <1>2, <2>1 DEF EnginesFit
<1>6. CallSound(c)'
  <2>1. CallSound(c) /\ NotBegun(c) /\ NotBegun(c)'
    BY <1>1, <1>4 DEF CallInv, CallSound, NotBegun
  <2>2. CallShape(c)'
    BY <1>1, <1>2, <1>4, <2>1 DEF CallSound, CallShape
  <2>3. Ahead(c)' = Ahead(c) /\ InLevels(c)' = InLevels(c) /\ Begun(c)' = Begun(c)
    BY <1>1 DEF Ahead, InLevels, Begun
  <2>4. OneStage(c)'
    BY <1>1, <1>4, <2>1, <2>3, SameFlow DEF CallSound, OneStage
  <2>5. LevelsInOrder(c)' /\ ResultsMerged(c)'
    BY <1>1, <2>1, <2>3, SameFlow DEF CallSound, LevelsInOrder, ResultsMerged
  <2> QED BY <2>2, <2>4, <2>5 DEF CallSound
<1>7. ASSUME NEW d \in Clients PROVE CallSound(d)'
  <2>1. CASE d # c
    BY <1>1, <1>2, <1>4, <2>1, CallKept DEF CallInv, CallSound
  <2> QED BY <1>6, <2>1
<1>8. CallInv' /\ TasksSee'
  BY <1>1, <1>2, <1>7, TasksSeeKept DEF CallInv, CallSound
<1>9. CycleStays'
  BY <1>1, <1>4, SameFlow DEF CycleStays, Cycle, NotBegun
<1>10. GotAll'
  BY <1>1, <1>4 DEF GotAll
<1> QED BY <1>2, <1>3, <1>5, <1>8, <1>9, <1>10

(* get() after the call ended. *)
LEMMA GetInv ==
  ASSUME AsyncInv, NEW c \in Clients, Get(c)
  PROVE  AsyncInv'
<1> USE DEF AsyncInv
<1>1. /\ compiled' = compiled /\ engines' = engines /\ borrowed' = borrowed /\ wf' = wf
      /\ UNCHANGED poolVars /\ answer' = answer
      /\ cpc' = cpc /\ remaining' = remaining /\ levels' = levels /\ level' = level
      /\ futures' = futures /\ localCtx' = localCtx /\ allResults' = allResults
      /\ sharedContext' = sharedContext
  BY DEF Get
<1>2. /\ Clients = {c} /\ Ended(c)
      /\ got' \in {"nothing", "all", "empty"} /\ (got' = "all" => cpc[c] \notin {"threw", "refused"})
  BY DEF Get
<1>3. PoolInv' /\ status' = status /\ stop' = stop /\ wpc' = wpc
  BY <1>1, PoolStep DEF poolVars
<1>4. TypeOK'
  BY <1>1, <1>2, <1>3 DEF TypeOK, PoolInv
<1>5. EnginesFit'
  BY <1>1, <1>3 DEF EnginesFit, NotBegun
<1>6. ASSUME NEW d \in Clients PROVE CallSound(d)'
  BY <1>1, <1>3, CallKept DEF CallInv, CallSound
<1>7. CallInv' /\ TasksSee'
  BY <1>1, <1>3, <1>6, TasksSeeKept DEF CallInv, CallSound
<1>8. CycleStays'
  BY <1>1, SameFlow DEF CycleStays, Cycle, NotBegun
<1>9. GotAll'
  BY <1>1, <1>2 DEF GotAll, Ended
<1> QED BY <1>3, <1>4, <1>5, <1>7, <1>8, <1>9

(* A call begins with all ids of the workflow. *)
LEMMA CallBeginsInv ==
  ASSUME AsyncInv, NEW c \in Clients, Call(c)
  PROVE  AsyncInv'
<1> USE DEF AsyncInv
<1>1. /\ compiled /\ cpc[c] = "idle"
      /\ cpc' = [cpc EXCEPT ![c] = "levels"]
      /\ remaining' = [remaining EXCEPT ![c] = UsedIds]
      /\ UNCHANGED poolVars /\ wf' = wf /\ compiled' = compiled /\ engines' = engines
      /\ borrowed' = borrowed /\ levels' = levels /\ level' = level /\ futures' = futures
      /\ localCtx' = localCtx /\ answer' = answer /\ allResults' = allResults
      /\ sharedContext' = sharedContext /\ got' = got
  BY DEF Call
<1>2. PoolInv' /\ status' = status /\ stop' = stop /\ wpc' = wpc
  BY <1>1, PoolStep DEF poolVars
<1>3. UsedIds \subseteq Ids /\ UsedIds' = UsedIds
  BY <1>1, IdsAreUsed, SameFlow DEF TypeOK
<1>4. /\ cpc'[c] = "levels" /\ remaining'[c] = UsedIds
      /\ \A d \in Clients \ {c} : cpc'[d] = cpc[d] /\ remaining'[d] = remaining[d]
  BY <1>1 DEF TypeOK
<1>5. TypeOK'
  BY <1>1, <1>2, <1>3 DEF TypeOK, PoolInv
<1>6. CallShape(c) /\ OneStage(c)
  BY DEF CallInv
<1>7. /\ levels[c] = <<>> /\ allResults[c] = <<>> /\ level[c] = {} /\ futures[c] = <<>>
      /\ \A i \in Ids : status[<<c, i>>] = "new"
  BY <1>1, <1>6 DEF CallShape, NotBegun
<1>8. CallShape(c)'
  BY <1>1, <1>2, <1>4, <1>7 DEF CallShape, NotBegun
<1>9. Ahead(c)' = UsedIds /\ Begun(c)' = {} /\ InLevels(c)' = {}
  BY <1>1, <1>4, <1>7, EmptyElems DEF Ahead, Begun, InLevels
<1>10. OneStage(c)'
  BY <1>1, <1>3, <1>4, <1>7, <1>9, EmptyElems DEF OneStage
<1>11. LevelsInOrder(c)' /\ ResultsMerged(c)'
  BY <1>1, <1>7, EmptyElems DEF LevelsInOrder, ResultsMerged
<1>12. TasksSee'
  BY <1>1, <1>2, TasksSeeKept
<1>13. CallSound(c)'
  BY <1>8, <1>10, <1>11 DEF CallSound
<1> QED BY <1>1, <1>2, <1>4, <1>5, <1>12, <1>13, CallerInv

(* A level of rules that wait for nothing that remains. *)
LEMMA BuildLevelInv ==
  ASSUME AsyncInv, NEW c \in Clients, BuildLevel(c)
  PROVE  AsyncInv'
<1> USE DEF AsyncInv
<1> DEFINE l == DepsSatisfied(remaining[c])
           n == Len(levels[c])
<1>1. /\ cpc[c] = "levels" /\ remaining[c] # {}
      /\ remaining' = [remaining EXCEPT ![c] = @ \ l]
      /\ levels' = [levels EXCEPT ![c] = IF l = {} THEN @ ELSE Append(@, l)]
      /\ UNCHANGED poolVars /\ wf' = wf /\ compiled' = compiled /\ engines' = engines
      /\ borrowed' = borrowed /\ cpc' = cpc /\ level' = level /\ futures' = futures
      /\ localCtx' = localCtx /\ answer' = answer /\ allResults' = allResults
      /\ sharedContext' = sharedContext /\ got' = got
  BY DEF BuildLevel
<1>2. PoolInv' /\ status' = status /\ stop' = stop /\ wpc' = wpc
  BY <1>1, PoolStep DEF poolVars
<1>3. /\ l \subseteq remaining[c] /\ remaining[c] \subseteq Ids
      /\ \A i \in l, j \in remaining[c] : ~WaitsFor(i, j)
      /\ \A i \in remaining[c] : (\A j \in remaining[c] : ~WaitsFor(i, j)) => i \in l
  BY DEF DepsSatisfied, WaitsFor, NameOf, DepOf, TypeOK
<1>4. compiled
  BY <1>1 DEF EnginesFit, NotBegun
<1> HIDE DEF l
<1>5. /\ levels[c] \in Seq(SUBSET Ids) /\ l \in SUBSET Ids /\ n \in Nat
      /\ DOMAIN levels[c] = 1 .. n
  BY <1>3, LenProperties DEF TypeOK
<1>6. /\ Append(levels[c], l) \in Seq(SUBSET Ids)
      /\ Elems(Append(levels[c], l)) = Elems(levels[c]) \cup {l}
  BY <1>5, AppendElems
<1>7. /\ DOMAIN Append(levels[c], l) = 1 .. n + 1
      /\ \A k \in 1 .. n : Append(levels[c], l)[k] = levels[c][k]
      /\ Append(levels[c], l)[n + 1] = l
  BY <1>5, <1>6, AppendProperties, LenProperties
<1>8. /\ remaining'[c] = remaining[c] \ l
      /\ levels'[c] = IF l = {} THEN levels[c] ELSE Append(levels[c], l)
      /\ \A d \in Clients \ {c} : remaining'[d] = remaining[d] /\ levels'[d] = levels[d]
  BY <1>1 DEF TypeOK
<1>9. levels' \in [Clients -> Seq(SUBSET Ids)] /\ remaining' \in [Clients -> SUBSET Ids]
  BY <1>1, <1>3, <1>6 DEF TypeOK
<1>10. TypeOK'
  BY <1>1, <1>2, <1>9 DEF TypeOK, PoolInv
<1>11. CallShape(c) /\ OneStage(c) /\ LevelsInOrder(c) /\ ResultsMerged(c)
  BY DEF CallInv
<1>12. /\ level[c] = {} /\ futures[c] = <<>> /\ allResults[c] = <<>>
       /\ \A i \in Ids : status[<<c, i>>] = "new"
  BY <1>1, <1>11 DEF CallShape
<1>13. CallShape(c)'
  BY <1>1, <1>2, <1>8, <1>12 DEF CallShape, NotBegun
<1>14. /\ InLevels(c)' = InLevels(c) \cup l /\ Ahead(c)' = Ahead(c)
       /\ Begun(c) = {} /\ Begun(c)' = {}
  <2>1. InLevels(c)' = InLevels(c) \cup l
    BY <1>6, <1>8 DEF InLevels
  <2> QED BY <1>1, <1>3, <1>8, <1>12, <2>1, EmptyElems DEF Ahead, Begun
<1>15. l \cap InLevels(c) = {} /\ \A k \in DOMAIN levels[c] : levels[c][k] \subseteq InLevels(c)
  BY <1>3, <1>11 DEF OneStage, InLevels, Elems
<1>16. OneStage(c)'
  <2>1. ASSUME NEW k \in DOMAIN levels'[c], NEW m \in DOMAIN levels'[c], k # m
        PROVE  levels'[c][k] \cap levels'[c][m] = {}
    <3>1. CASE l = {}
      BY <1>8, <1>11, <2>1, <3>1 DEF OneStage
    <3>2. CASE l # {}
      <4>1. /\ k \in 1 .. n \/ k = n + 1
            /\ m \in 1 .. n \/ m = n + 1
        BY <1>5, <1>7, <1>8, <3>2
      <4>2. levels'[c] = Append(levels[c], l)
        BY <1>8, <3>2
      <4>3. CASE k \in 1 .. n /\ m \in 1 .. n
        BY <1>5, <1>7, <1>11, <2>1, <4>2, <4>3 DEF OneStage
      <4>4. CASE k = n + 1 /\ m \in 1 .. n
        BY <1>5, <1>7, <1>15, <4>2, <4>4
      <4>5. CASE k \in 1 .. n /\ m = n + 1
        BY <1>5, <1>7, <1>15, <4>2, <4>5
      <4> QED BY <2>1, <4>1, <4>3, <4>4, <4>5
    <3> QED BY <3>1, <3>2
  <2>2. InLevels(c)' \cap remaining'[c] = {}
    BY <1>8, <1>11, <1>14 DEF OneStage
  <2>3. Ahead(c)' \cup Begun(c)' \subseteq UsedIds' /\ UsedIds' = Ahead(c)' \cup Begun(c)'
    BY <1>1, <1>11, <1>14, SameFlow DEF OneStage
  <2> QED BY <1>1, <1>12, <1>14, <2>1, <2>2, <2>3, EmptyElems DEF OneStage
<1>17. LevelsInOrder(c)'
  <2>1. ASSUME NEW k \in DOMAIN levels'[c], NEW i \in levels'[c][k], NEW j \in UsedIds,
               WaitsFor(i, j)
        PROVE  /\ j \notin remaining'[c]
               /\ \A m \in DOMAIN levels'[c] : k <= m => j \notin levels'[c][m]
    <3>1. CASE l = {}
      BY <1>8, <1>11, <2>1, <3>1 DEF LevelsInOrder
    <3>2. CASE l # {}
      <4>1. levels'[c] = Append(levels[c], l) /\ DOMAIN levels'[c] = 1 .. n + 1
        BY <1>7, <1>8, <3>2
      <4>2. CASE k = n + 1
        <5>1. i \in l /\ j \notin remaining[c]
          BY <1>3, <1>7, <2>1, <4>1, <4>2
        <5>2. \A m \in 1 .. n + 1 : k <= m => m = n + 1
          BY <1>5, <4>2
        <5> QED BY <1>3, <1>7, <1>8, <4>1, <5>1, <5>2
      <4>3. CASE k \in 1 .. n
        <5>1. /\ j \notin remaining[c]
              /\ \A m \in 1 .. n : k <= m => j \notin levels[c][m]
          BY <1>5, <1>7, <1>11, <2>1, <4>1, <4>3 DEF LevelsInOrder
        <5>2. \A m \in 1 .. n + 1 : m \in 1 .. n \/ m = n + 1
          BY <1>5
        <5> QED BY <1>3, <1>7, <1>8, <4>1, <5>1, <5>2
      <4> QED BY <1>5, <2>1, <4>1, <4>2, <4>3
    <3> QED BY <3>1, <3>2
  <2> QED BY <1>1, <1>12, <2>1, SameFlow DEF LevelsInOrder
<1>18. ResultsMerged(c)' /\ TasksSee'
  BY <1>1, <1>2, <1>12, EmptyElems, TasksSeeKept DEF ResultsMerged
<1>19. ASSUME NEW s \in SUBSET UsedIds, Cycle(s) PROVE s \subseteq remaining'[c]
  <2>1. s \subseteq remaining[c]
    BY <1>1, <1>19 DEF CycleStays, NotBegun
  <2> QED BY <1>3, <1>8, <1>19, <2>1 DEF Cycle
<1>20. CallSound(c)'
  BY <1>13, <1>16, <1>17, <1>18 DEF CallSound
<1> QED BY <1>1, <1>2, <1>4, <1>8, <1>10, <1>18, <1>19, <1>20, CallerInv

(* The first level that is left, or the end. *)
LEMMA NextLevelInv ==
  ASSUME AsyncInv, NEW c \in Clients, NextLevel(c)
  PROVE  AsyncInv'
<1> USE DEF AsyncInv
<1>1. /\ cpc[c] = "levels" /\ remaining[c] = {}
      /\ UNCHANGED poolVars /\ wf' = wf /\ compiled' = compiled /\ engines' = engines
      /\ borrowed' = borrowed /\ remaining' = remaining /\ futures' = futures
      /\ localCtx' = localCtx /\ answer' = answer /\ allResults' = allResults
      /\ sharedContext' = sharedContext /\ got' = got
  BY DEF NextLevel
<1>2. PoolInv' /\ status' = status /\ stop' = stop /\ wpc' = wpc
  BY <1>1, PoolStep DEF poolVars
<1>3. compiled
  BY <1>1 DEF EnginesFit, NotBegun
<1>4. CallShape(c) /\ OneStage(c) /\ LevelsInOrder(c) /\ ResultsMerged(c)
  BY DEF CallInv
<1>5. level[c] = {} /\ futures[c] = <<>> /\ Elems(futures[c]) = {}
  BY <1>1, <1>4, EmptyElems DEF CallShape
<1>6. \A s \in SUBSET UsedIds : Cycle(s) => s \subseteq remaining'[c]
  BY <1>1 DEF CycleStays, NotBegun
<1>7. TasksSee'
  BY <1>1, <1>2, TasksSeeKept
<1>8. ResultsMerged(c)'
  BY <1>1, <1>4, SameFlow DEF ResultsMerged
<1>9. CASE levels[c] = <<>>
  <2>1. cpc' = [cpc EXCEPT ![c] = "returned"] /\ levels' = levels /\ level' = level
    BY <1>9 DEF NextLevel
  <2>2. cpc'[c] = "returned" /\ \A d \in Clients \ {c} : cpc'[d] = cpc[d]
    BY <2>1 DEF TypeOK
  <2>3. TypeOK'
    BY <1>1, <1>2, <2>1 DEF TypeOK, PoolInv
  <2>4. CallShape(c)'
    BY <1>1, <1>2, <1>4, <1>5, <1>9, <2>1, <2>2 DEF CallShape, NotBegun
  <2>5. Ahead(c)' = Ahead(c) /\ Begun(c)' = Begun(c) /\ InLevels(c)' = InLevels(c)
    BY <1>1, <2>1 DEF Ahead, Begun, InLevels
  <2>6. OneStage(c)'
    BY <1>1, <1>4, <2>1, <2>5, SameFlow DEF OneStage
  <2>7. LevelsInOrder(c)'
    BY <1>1, <1>4, <2>1, <2>5, SameFlow DEF LevelsInOrder
  <2>8. CallSound(c)'
    BY <1>8, <2>4, <2>6, <2>7 DEF CallSound
  <2> QED BY <1>1, <1>2, <1>3, <1>6, <1>7, <2>1, <2>2, <2>3, <2>8, CallerInv
<1>10. CASE levels[c] # <<>>
  <2> DEFINE first == Head(levels[c])
             rest == Tail(levels[c])
  <2>1. /\ cpc' = [cpc EXCEPT ![c] = "enqueue"]
        /\ level' = [level EXCEPT ![c] = first]
        /\ levels' = [levels EXCEPT ![c] = rest]
    BY <1>10 DEF NextLevel
  <2>2. levels[c] \in Seq(SUBSET Ids)
    BY DEF TypeOK
  <2>3. /\ first \in SUBSET Ids /\ first = levels[c][1] /\ 1 \in DOMAIN levels[c]
        /\ rest \in Seq(SUBSET Ids)
        /\ \A k \in DOMAIN rest :
             k \in Nat /\ k + 1 \in DOMAIN levels[c] /\ rest[k] = levels[c][k + 1]
        /\ Elems(levels[c]) = {first} \cup Elems(rest)
    BY <1>10, <2>2, TailElems
  <2> HIDE DEF first, rest
  <2>4. /\ cpc'[c] = "enqueue" /\ level'[c] = first /\ levels'[c] = rest
        /\ \A d \in Clients \ {c} :
             cpc'[d] = cpc[d] /\ level'[d] = level[d] /\ levels'[d] = levels[d]
    BY <2>1 DEF TypeOK
  <2>5. levels' \in [Clients -> Seq(SUBSET Ids)] /\ level' \in [Clients -> SUBSET Ids]
    BY <2>1, <2>3 DEF TypeOK
  <2>6. TypeOK'
    BY <1>1, <1>2, <2>1, <2>5 DEF TypeOK, PoolInv
  <2>7. CallShape(c)'
    BY <1>1, <2>4 DEF CallShape, NotBegun
  <2>8. first \cap UNION Elems(rest) = {}
    <3>1. ASSUME NEW k \in DOMAIN rest PROVE first \cap rest[k] = {}
      <4>1. k + 1 # 1
        BY <2>3
      <4> QED BY <1>4, <2>3, <4>1 DEF OneStage
    <3> QED BY <3>1 DEF Elems
  <2>9. /\ InLevels(c) = first \cup InLevels(c)' /\ first \cap InLevels(c)' = {}
        /\ Ahead(c) = InLevels(c) /\ Ahead(c)' = InLevels(c)'
        /\ Begun(c) = Elems(allResults[c]) /\ Begun(c)' = first \cup Elems(allResults[c])
        /\ Elems(futures'[c]) = {}
    BY <1>1, <1>5, <2>3, <2>4, <2>8 DEF InLevels, Ahead, Begun
  <2>10. OneStage(c)'
    <3>1. ASSUME NEW k \in DOMAIN rest, NEW m \in DOMAIN rest, k # m
          PROVE  rest[k] \cap rest[m] = {}
      <4>1. k + 1 # m + 1
        BY <2>3, <3>1
      <4> QED BY <1>4, <2>3, <4>1 DEF OneStage
    <3>2. /\ UsedIds = Ahead(c) \cup Begun(c) /\ Ahead(c) \cap Begun(c) = {}
          /\ Distinct(futures[c]) /\ Distinct(allResults[c])
      BY <1>1, <1>4 DEF OneStage
    <3>3. /\ UsedIds' = Ahead(c)' \cup Begun(c)' /\ Ahead(c)' \cap Begun(c)' = {}
          /\ level'[c] \cap Elems(allResults'[c]) = {}
      BY <1>1, <2>4, <2>9, <3>2, SameFlow
    <3> QED BY <1>1, <2>4, <2>9, <3>1, <3>2, <3>3 DEF OneStage
  <2>11. LevelsInOrder(c)'
    <3>1. ASSUME NEW k \in DOMAIN rest, NEW i \in rest[k], NEW j \in UsedIds, WaitsFor(i, j)
          PROVE  \A m \in DOMAIN rest : k <= m => j \notin rest[m]
      <4>1. \A m \in DOMAIN rest : k <= m => k + 1 <= m + 1
        BY <2>3
      <4> QED BY <1>4, <2>3, <3>1, <4>1 DEF LevelsInOrder
    <3>2. ASSUME NEW i \in first, NEW j \in UsedIds, WaitsFor(i, j)
          PROVE  j \notin Ahead(c)' \cup first
      <4>1. \A m \in DOMAIN levels[c] : 1 <= m
        BY <2>2, LenProperties
      <4>2. \A m \in DOMAIN levels[c] : j \notin levels[c][m]
        BY <1>4, <2>3, <3>2, <4>1 DEF LevelsInOrder
      <4>3. j \notin InLevels(c)
        BY <4>2 DEF InLevels, Elems
      <4> QED BY <2>9, <4>3
    <3> QED BY <1>1, <2>4, <2>9, <3>1, <3>2, SameFlow DEF LevelsInOrder
  <2>12. CallSound(c)'
    BY <1>8, <2>7, <2>10, <2>11 DEF CallSound
  <2> QED BY <1>1, <1>2, <1>3, <1>6, <1>7, <2>4, <2>6, <2>12, CallerInv
<1> QED BY <1>9, <1>10

(* A rule that is not active is reported and leaves no result. *)
LEMMA SkipInv ==
  ASSUME AsyncInv, NEW c \in Clients, Skip(c)
  PROVE  AsyncInv'
<1> USE DEF AsyncInv
<1>1. /\ cpc[c] = "enqueue"
      /\ UNCHANGED poolVars /\ wf' = wf /\ compiled' = compiled /\ engines' = engines
      /\ borrowed' = borrowed /\ cpc' = cpc /\ remaining' = remaining /\ levels' = levels
      /\ futures' = futures /\ localCtx' = localCtx /\ answer' = answer
      /\ sharedContext' = sharedContext /\ got' = got
  BY DEF Skip
<1>2. PICK i \in level[c] :
        /\ ~ActiveId(i)
        /\ level' = [level EXCEPT ![c] = @ \ {i}]
        /\ allResults' = [allResults EXCEPT ![c] = Append(@, i)]
  BY DEF Skip, ActiveId
<1>3. PoolInv' /\ status' = status /\ stop' = stop /\ wpc' = wpc
  BY <1>1, PoolStep DEF poolVars
<1>4. compiled
  BY <1>1 DEF EnginesFit, NotBegun
<1>5. CallShape(c) /\ OneStage(c) /\ LevelsInOrder(c) /\ ResultsMerged(c)
  BY DEF CallInv
<1>6. remaining[c] = {} /\ i \in Ids /\ allResults[c] \in Seq(Ids)
  BY <1>1, <1>5 DEF CallShape, TypeOK
<1>7. i \notin Elems(allResults[c]) /\ i \notin Elems(futures[c]) /\ Distinct(allResults[c])
  BY <1>5 DEF OneStage
<1>8. /\ Append(allResults[c], i) \in Seq(Ids)
      /\ Elems(Append(allResults[c], i)) = Elems(allResults[c]) \cup {i}
      /\ Distinct(Append(allResults[c], i))
  BY <1>6, <1>7, AppendElems
<1>9. /\ level'[c] = level[c] \ {i} /\ allResults'[c] = Append(allResults[c], i)
      /\ \A d \in Clients \ {c} : level'[d] = level[d] /\ allResults'[d] = allResults[d]
  BY <1>2 DEF TypeOK
<1>10. level' \in [Clients -> SUBSET Ids] /\ allResults' \in [Clients -> Seq(Ids)]
  BY <1>2, <1>8 DEF TypeOK
<1>11. TypeOK'
  BY <1>1, <1>3, <1>10 DEF TypeOK, PoolInv
<1>12. CallShape(c)'
  BY <1>1, <1>6 DEF CallShape, NotBegun
<1>13. /\ Ahead(c)' = Ahead(c) /\ InLevels(c)' = InLevels(c) /\ Begun(c)' = Begun(c)
       /\ Elems(allResults'[c]) = Elems(allResults[c]) \cup {i}
  BY <1>1, <1>8, <1>9 DEF Ahead, InLevels, Begun
<1>14. OneStage(c)'
  <2>1. /\ level'[c] \cap (Elems(futures[c]) \cup Elems(allResults'[c])) = {}
        /\ Elems(futures[c]) \cap Elems(allResults'[c]) = {}
    BY <1>5, <1>7, <1>9, <1>13 DEF OneStage
  <2>2. Distinct(allResults'[c])
    BY <1>8, <1>9
  <2> QED BY <1>1, <1>5, <1>13, <2>1, <2>2, SameFlow DEF OneStage
<1>15. LevelsInOrder(c)'
  BY <1>1, <1>5, <1>9, <1>13, SameFlow DEF LevelsInOrder
<1>16. ResultsMerged(c)' /\ TasksSee'
  BY <1>1, <1>2, <1>3, <1>5, <1>13, SameFlow, TasksSeeKept DEF ResultsMerged
<1>17. CallSound(c)'
  BY <1>12, <1>14, <1>15, <1>16 DEF CallSound
<1>18. \A s \in SUBSET UsedIds : Cycle(s) => s \subseteq remaining'[c]
  BY <1>1 DEF CycleStays, NotBegun
<1> QED BY <1>1, <1>3, <1>4, <1>9, <1>11, <1>16, <1>17, <1>18, CallerInv

(* When a rule's level is enqueued, everything active that it waits for    *)
(* has been reported and merged.                                           *)
LEMMA DependencyIsMerged ==
  ASSUME AsyncInv, NEW c \in Clients, cpc[c] = "enqueue", NEW i \in level[c],
         NEW j \in UsedIds, WaitsFor(i, j), ActiveId(j)
  PROVE  DepOf(i) \in sharedContext[c]
<1>1. OneStage(c) /\ LevelsInOrder(c) /\ ResultsMerged(c)
  BY DEF AsyncInv, CallInv
<1>2. j \notin Ahead(c) \cup level[c] \cup Elems(futures[c])
  BY <1>1 DEF LevelsInOrder
<1>3. j \in Ahead(c) \cup Begun(c)
  BY <1>1 DEF OneStage
<1>4. j \in Elems(allResults[c])
  BY <1>2, <1>3 DEF Begun
<1> QED BY <1>1, <1>4 DEF ResultsMerged, WaitsFor

(* An active rule goes to the pool with a copy of the context. *)
LEMMA EnqueueInv ==
  ASSUME AsyncInv, NEW c \in Clients, Enqueue(c)
  PROVE  AsyncInv'
<1> USE DEF AsyncInv
<1>1. /\ cpc[c] = "enqueue"
      /\ wf' = wf /\ compiled' = compiled /\ engines' = engines
      /\ borrowed' = borrowed /\ cpc' = cpc /\ remaining' = remaining /\ levels' = levels
      /\ allResults' = allResults /\ answer' = answer
      /\ sharedContext' = sharedContext /\ got' = got
  BY DEF Enqueue
<1>2. PICK i \in level[c] :
        /\ level' = [level EXCEPT ![c] = @ \ {i}]
        /\ localCtx' = [localCtx EXCEPT ![<<c, i>>] = sharedContext[c]]
        /\ futures' = [futures EXCEPT ![c] = Append(@, i)]
        /\ CheckStop(c, <<c, i>>)
  BY DEF Enqueue
<1> DEFINE t == <<c, i>>
<1>3. i \in Ids /\ t \in Tasks
  BY WorkflowAssumption DEF TypeOK
<1>4. PoolInv'
  BY <1>2, <1>3, CheckStopInv DEF Producers
<1>5. /\ stop' = stop /\ wpc' = wpc
      /\ \E r : status' = [status EXCEPT ![t] = r]
  BY <1>2 DEF CheckStop
<1>6. \A u \in Tasks : u # t => status'[u] = status[u] /\ localCtx'[u] = localCtx[u]
  BY <1>2, <1>3, <1>5 DEF TypeOK, PoolTypeOK
<1>7. localCtx'[t] = sharedContext[c]
  BY <1>2, <1>3 DEF TypeOK
<1>8. compiled
  BY <1>1 DEF EnginesFit, NotBegun
<1>9. CallShape(c) /\ OneStage(c) /\ LevelsInOrder(c) /\ ResultsMerged(c)
  BY DEF CallInv
<1>10. remaining[c] = {} /\ futures[c] \in Seq(Ids)
  BY <1>1, <1>9 DEF CallShape, TypeOK
<1>11. i \notin Elems(allResults[c]) /\ i \notin Elems(futures[c]) /\ Distinct(futures[c])
       /\ i \in UsedIds
  BY <1>9 DEF OneStage, Begun
<1>12. /\ Append(futures[c], i) \in Seq(Ids)
       /\ Elems(Append(futures[c], i)) = Elems(futures[c]) \cup {i}
       /\ Distinct(Append(futures[c], i))
  BY <1>3, <1>10, <1>11, AppendElems
<1>13. /\ level'[c] = level[c] \ {i} /\ futures'[c] = Append(futures[c], i)
       /\ \A d \in Clients \ {c} : level'[d] = level[d] /\ futures'[d] = futures[d]
  BY <1>2 DEF TypeOK
<1>14. /\ level' \in [Clients -> SUBSET Ids] /\ futures' \in [Clients -> Seq(Ids)]
       /\ localCtx' \in [Tasks -> SUBSET Names]
  BY <1>2, <1>12 DEF TypeOK
<1>15. TypeOK'
  BY <1>1, <1>4, <1>14 DEF TypeOK, PoolInv
<1>16. CallShape(c)'
  BY <1>1, <1>10 DEF CallShape, NotBegun
<1>17. /\ Ahead(c)' = Ahead(c) /\ InLevels(c)' = InLevels(c) /\ Begun(c)' = Begun(c)
       /\ Elems(futures'[c]) = Elems(futures[c]) \cup {i}
  BY <1>1, <1>12, <1>13 DEF Ahead, InLevels, Begun
<1>18. OneStage(c)'
  <2>1. /\ level'[c] \cap (Elems(futures'[c]) \cup Elems(allResults[c])) = {}
        /\ Elems(futures'[c]) \cap Elems(allResults[c]) = {}
    BY <1>9, <1>11, <1>13, <1>17 DEF OneStage
  <2>2. Distinct(futures'[c])
    BY <1>12, <1>13
  <2> QED BY <1>1, <1>9, <1>17, <2>1, <2>2, SameFlow DEF OneStage
<1>19. LevelsInOrder(c)'
  <2>1. \A h \in level'[c], j \in UsedIds : WaitsFor(h, j) =>
          j \notin Ahead(c)' \cup level'[c] \cup Elems(futures'[c])
    BY <1>9, <1>13, <1>17 DEF LevelsInOrder
  <2>2. \A k \in DOMAIN levels[c] : \A h \in levels[c][k], j \in UsedIds : WaitsFor(h, j) =>
          /\ j \notin remaining[c]
          /\ \A m \in DOMAIN levels[c] : k <= m => j \notin levels[c][m]
    BY <1>9 DEF LevelsInOrder
  <2> QED BY <1>1, <2>1, <2>2, SameFlow DEF LevelsInOrder
<1>20. ResultsMerged(c)'
  BY <1>1, <1>9, SameFlow DEF ResultsMerged
<1>21. TasksSee'
  <2> SUFFICES ASSUME NEW u \in Tasks, status'[u] # "new" PROVE TaskSees(u)'
    BY DEF TasksSee
  <2>1. CASE u # t
    <3>1. TaskSees(u)
      BY <1>6, <2>1 DEF TasksSee
    <3> QED BY <1>1, <1>6, <2>1, <3>1, SameFlow DEF TaskSees
  <2>2. CASE u = t
    <3>1. (\E j \in UsedIds : WaitsFor(i, j) /\ ActiveId(j)) => DepOf(i) \in localCtx'[t]
      BY <1>1, <1>7, DependencyIsMerged
    <3> QED BY <1>1, <1>11, <2>2, <3>1, SameFlow DEF TaskSees
  <2> QED BY <2>1, <2>2
<1>22. CallSound(c)'
  BY <1>16, <1>18, <1>19, <1>20 DEF CallSound
<1>23. \A s \in SUBSET UsedIds : Cycle(s) => s \subseteq remaining'[c]
  BY <1>1 DEF CycleStays, NotBegun
<1>24. ASSUME NEW d \in Clients \ {c}, NEW h \in Ids
       PROVE  status[<<d, h>>] = "new" => status'[<<d, h>>] = "new"
  <2>1. <<d, h>> \in Tasks /\ <<d, h>> # t
    BY WorkflowAssumption
  <2> QED BY <1>6, <2>1
<1> QED BY <1>1, <1>4, <1>5, <1>8, <1>13, <1>15, <1>21, <1>22, <1>23, <1>24, CallerInv

(* All of a level is enqueued, or all of it collected. *)
LEMMA StageEndsInv ==
  ASSUME AsyncInv, NEW c \in Clients, Enqueued(c) \/ Collected(c)
  PROVE  AsyncInv'
<1> USE DEF AsyncInv
<1> DEFINE next == IF cpc[c] = "enqueue" THEN "collect" ELSE "levels"
<1>1. /\ cpc[c] \in {"enqueue", "collect"} /\ cpc' = [cpc EXCEPT ![c] = next]
      /\ UNCHANGED poolVars /\ wf' = wf /\ compiled' = compiled /\ engines' = engines
      /\ borrowed' = borrowed /\ remaining' = remaining /\ levels' = levels
      /\ level' = level /\ futures' = futures /\ localCtx' = localCtx /\ answer' = answer
      /\ allResults' = allResults /\ sharedContext' = sharedContext /\ got' = got
  BY DEF Enqueued, Collected
<1>2. /\ next \in {"collect", "levels"} /\ (next = "collect" => level[c] = {})
      /\ next = "levels" => futures[c] = <<>> /\ cpc[c] = "collect"
  BY DEF Enqueued, Collected
<1> HIDE DEF next
<1>3. PoolInv' /\ status' = status /\ stop' = stop /\ wpc' = wpc
  BY <1>1, PoolStep DEF poolVars
<1>4. compiled
  BY <1>1 DEF EnginesFit, NotBegun
<1>5. CallShape(c) /\ OneStage(c) /\ LevelsInOrder(c) /\ ResultsMerged(c)
  BY DEF CallInv
<1>6. cpc'[c] = next /\ \A d \in Clients \ {c} : cpc'[d] = cpc[d]
  BY <1>1 DEF TypeOK
<1>7. TypeOK'
  BY <1>1, <1>2, <1>3 DEF TypeOK, PoolInv
<1>8. CallShape(c)'
  BY <1>1, <1>2, <1>3, <1>5, <1>6 DEF CallShape, NotBegun
<1>9. Ahead(c)' = Ahead(c) /\ InLevels(c)' = InLevels(c) /\ Begun(c)' = Begun(c)
  BY <1>1 DEF Ahead, InLevels, Begun
<1>10. OneStage(c)'
  BY <1>1, <1>2, <1>5, <1>6, <1>9, SameFlow DEF OneStage
<1>11. LevelsInOrder(c)' /\ ResultsMerged(c)'
  BY <1>1, <1>5, <1>9, SameFlow DEF LevelsInOrder, ResultsMerged
<1>12. CallSound(c)'
  BY <1>8, <1>10, <1>11 DEF CallSound
<1>13. \A s \in SUBSET UsedIds : Cycle(s) => s \subseteq remaining'[c]
  BY <1>1 DEF CycleStays, NotBegun
<1>14. TasksSee'
  BY <1>1, <1>3, TasksSeeKept
<1> QED BY <1>1, <1>3, <1>4, <1>6, <1>7, <1>12, <1>13, <1>14, CallerInv

(* The oldest future gives a result, or what escaped its task. *)
LEMMA CollectInv ==
  ASSUME AsyncInv, NEW c \in Clients, Collect(c)
  PROVE  AsyncInv'
<1> USE DEF AsyncInv
<1> DEFINE i == Head(futures[c])
           rest == Tail(futures[c])
<1>1. /\ cpc[c] = "collect" /\ futures[c] # <<>>
      /\ futures' = [futures EXCEPT ![c] = rest]
      /\ UNCHANGED poolVars /\ wf' = wf /\ compiled' = compiled /\ engines' = engines
      /\ borrowed' = borrowed /\ remaining' = remaining /\ levels' = levels
      /\ level' = level /\ localCtx' = localCtx /\ answer' = answer /\ got' = got
  BY DEF Collect
<1>2. \/ /\ cpc' = [cpc EXCEPT ![c] = "threw"]
         /\ allResults' = allResults /\ sharedContext' = sharedContext
      \/ /\ allResults' = [allResults EXCEPT ![c] = Append(@, i)]
         /\ sharedContext' = [sharedContext EXCEPT ![c] = @ \cup {NameOf(i)}]
         /\ cpc' = cpc
  BY DEF Collect, NameOf
<1>3. PoolInv' /\ status' = status /\ stop' = stop /\ wpc' = wpc
  BY <1>1, PoolStep DEF poolVars
<1>4. compiled
  BY <1>1 DEF EnginesFit, NotBegun
<1>5. CallShape(c) /\ OneStage(c) /\ LevelsInOrder(c) /\ ResultsMerged(c)
  BY DEF CallInv
<1>6. /\ remaining[c] = {} /\ level[c] = {}
      /\ futures[c] \in Seq(Ids) /\ allResults[c] \in Seq(Ids)
      /\ Distinct(futures[c]) /\ Distinct(allResults[c])
  BY <1>1, <1>5 DEF CallShape, TypeOK, OneStage
<1>7. /\ i \in Ids /\ rest \in Seq(Ids) /\ Elems(futures[c]) = {i} \cup Elems(rest)
      /\ Distinct(rest) /\ i \notin Elems(rest)
  BY <1>1, <1>6, TailElems
<1> HIDE DEF i, rest
<1>8. i \in UsedIds /\ i \notin Elems(allResults[c])
  BY <1>5, <1>7 DEF OneStage, Begun
<1>9. NameOf(i) \in Names
  BY <1>8, IdsAreUsed DEF TypeOK
<1>10. /\ Append(allResults[c], i) \in Seq(Ids)
       /\ Elems(Append(allResults[c], i)) = Elems(allResults[c]) \cup {i}
       /\ Distinct(Append(allResults[c], i))
  BY <1>6, <1>7, <1>8, AppendElems
<1>11. /\ futures'[c] = rest /\ \A d \in Clients \ {c} : futures'[d] = futures[d]
       /\ futures' \in [Clients -> Seq(Ids)]
  BY <1>1, <1>7 DEF TypeOK
<1>12. \A s \in SUBSET UsedIds : Cycle(s) => s \subseteq remaining'[c]
  BY <1>1 DEF CycleStays, NotBegun
<1>13. TasksSee'
  BY <1>1, <1>3, TasksSeeKept
<1>14. Ahead(c)' = Ahead(c) /\ InLevels(c)' = InLevels(c)
  BY <1>1 DEF Ahead, InLevels
<1>15. LevelsInOrder(c)'
  <2>1. \A k \in DOMAIN levels[c] : \A h \in levels[c][k], j \in UsedIds : WaitsFor(h, j) =>
          /\ j \notin remaining[c]
          /\ \A m \in DOMAIN levels[c] : k <= m => j \notin levels[c][m]
    BY <1>5 DEF LevelsInOrder
  <2> QED BY <1>1, <1>6, <2>1, SameFlow DEF LevelsInOrder
<1>16. ASSUME cpc' = [cpc EXCEPT ![c] = "threw"],
              allResults' = allResults, sharedContext' = sharedContext
       PROVE  AsyncInv'
  <2>1. cpc'[c] = "threw" /\ \A d \in Clients \ {c} : cpc'[d] = cpc[d]
    BY <1>16 DEF TypeOK
  <2>2. TypeOK'
    BY <1>1, <1>3, <1>11, <1>16 DEF TypeOK, PoolInv
  <2>3. CallShape(c)'
    BY <1>1, <1>6, <2>1 DEF CallShape, NotBegun
  <2>4. Begun(c)' \subseteq Begun(c)
    BY <1>1, <1>7, <1>11, <1>16 DEF Begun
  <2>5. OneStage(c)'
    BY <1>1, <1>5, <1>6, <1>7, <1>11, <1>14, <1>16, <2>1, <2>4, SameFlow DEF OneStage
  <2>6. ResultsMerged(c)'
    BY <1>1, <1>5, <1>16, SameFlow DEF ResultsMerged
  <2>7. CallSound(c)'
    BY <1>15, <2>3, <2>5, <2>6 DEF CallSound
  <2> QED BY <1>1, <1>3, <1>4, <1>11, <1>12, <1>13, <1>16, <2>1, <2>2, <2>7, CallerInv
<1>17. ASSUME allResults' = [allResults EXCEPT ![c] = Append(@, i)],
              sharedContext' = [sharedContext EXCEPT ![c] = @ \cup {NameOf(i)}], cpc' = cpc
       PROVE  AsyncInv'
  <2>1. /\ allResults'[c] = Append(allResults[c], i)
        /\ sharedContext'[c] = sharedContext[c] \cup {NameOf(i)}
        /\ \A d \in Clients \ {c} : /\ allResults'[d] = allResults[d]
                                    /\ sharedContext'[d] = sharedContext[d]
        /\ allResults' \in [Clients -> Seq(Ids)]
        /\ sharedContext' \in [Clients -> SUBSET Names]
    BY <1>9, <1>10, <1>17 DEF TypeOK
  <2>2. TypeOK'
    BY <1>1, <1>3, <1>11, <1>17, <2>1 DEF TypeOK, PoolInv
  <2>3. CallShape(c)'
    BY <1>1, <1>6, <1>17 DEF CallShape, NotBegun
  <2>4. /\ Elems(allResults'[c]) = Elems(allResults[c]) \cup {i}
        /\ Elems(futures'[c]) = Elems(futures[c]) \ {i}
        /\ Distinct(allResults'[c]) /\ Distinct(futures'[c])
    BY <1>7, <1>10, <1>11, <2>1
  <2>5. Begun(c)' = Begun(c)
    BY <1>1, <1>7, <2>4 DEF Begun
  <2>6. OneStage(c)'
    <3>1. /\ level'[c] \cap (Elems(futures'[c]) \cup Elems(allResults'[c])) = {}
          /\ Elems(futures'[c]) \cap Elems(allResults'[c]) = {}
      BY <1>1, <1>5, <1>6, <2>4 DEF OneStage
    <3> QED BY <1>1, <1>5, <1>14, <1>17, <2>4, <2>5, <3>1, SameFlow DEF OneStage
  <2>7. ResultsMerged(c)'
    BY <1>1, <1>5, <2>1, <2>4, SameFlow DEF ResultsMerged
  <2>8. CallSound(c)'
    BY <1>15, <2>3, <2>6, <2>7 DEF CallSound
  <2> QED BY <1>1, <1>3, <1>4, <1>11, <1>12, <1>13, <1>17, <2>1, <2>2, <2>8, CallerInv
<1> QED BY <1>2, <1>16, <1>17

(* An AsyncWorkflow that was just made. *)
LEMMA AsyncInitInv == Init => AsyncInv
<1> SUFFICES ASSUME Init PROVE AsyncInv
  OBVIOUS
<1>1. PoolInv
  BY PoolInitInv DEF Init
<1>2. TypeOK
  <2>1. <<>> \in Seq(SUBSET Ids) /\ <<>> \in Seq(Ids)
    BY EmptySeq
  <2>2. engines \in -1 .. poolSize
    BY EnginesForWorkers DEF Init
  <2>3. compiled \in BOOLEAN /\ PoolTypeOK
    BY <1>1 DEF Init, PoolInv
  <2> QED BY <2>1, <2>2, <2>3 DEF Init, TypeOK, Answers
<1>3. \A t \in Tasks : status[t] = "new"
  BY DEF Init, PoolInit
<1>4. EnginesFit
  BY <1>3 DEF Init, PoolInit, EnginesFit, NotBegun
<1>5. ASSUME NEW c \in Clients
      PROVE  CallShape(c) /\ OneStage(c) /\ LevelsInOrder(c) /\ ResultsMerged(c)
  <2>1. /\ cpc[c] = "idle" /\ remaining[c] = {} /\ level[c] = {} /\ levels[c] = <<>>
        /\ futures[c] = <<>> /\ allResults[c] = <<>>
    BY DEF Init
  <2>2. \A i \in Ids : status[<<c, i>>] = "new"
    BY <1>3, WorkflowAssumption
  <2>3. CallShape(c)
    BY <2>1, <2>2 DEF CallShape
  <2>4. Ahead(c) = {} /\ Begun(c) = {} /\ InLevels(c) = {}
    BY <2>1, EmptyElems DEF Ahead, Begun, InLevels
  <2>5. OneStage(c)
    BY <2>1, <2>4, EmptyElems DEF OneStage
  <2>6. LevelsInOrder(c) /\ ResultsMerged(c)
    BY <2>1, EmptyElems DEF LevelsInOrder, ResultsMerged
  <2> QED BY <2>3, <2>5, <2>6
<1>6. TasksSee /\ CycleStays /\ GotAll
  BY <1>3 DEF Init, TasksSee, CycleStays, GotAll, NotBegun
<1> QED BY <1>1, <1>2, <1>4, <1>5, <1>6 DEF AsyncInv, CallInv

(* Every step of callers, workers and the destructor. *)
LEMMA AsyncStep == AsyncInv /\ [Next]_vars => AsyncInv'
<1> SUFFICES ASSUME AsyncInv, [Next]_vars PROVE AsyncInv'
  OBVIOUS
<1>1. PoolInv'
  <2>1. TypeOK /\ PoolInv
    BY DEF AsyncInv
  <2> QED BY <2>1, NextIsPoolStep, PoolStep
<1>2. ASSUME NEW c \in Clients, Submit(c) PROVE AsyncInv'
  <2>1. \E p \in Producers, w \in Workers : Push(p, w)
    BY <1>2 DEF Submit, Producers
  <2>2. UNCHANGED callVars /\ engines' = engines /\ borrowed' = borrowed /\ answer' = answer
    BY <1>2 DEF Submit
  <2> QED BY <1>1, <2>1, <2>2, PoolSideInv
<1>3. ASSUME NEW w \in Workers, WorkerSeeks(w) \/ TaskReturns(w) PROVE AsyncInv'
  <2>1. Seek(w) \/ (w \notin borrowed /\ Finish(w))
    BY <1>3 DEF WorkerSeeks, TaskReturns
  <2>2. UNCHANGED callVars /\ engines' = engines /\ borrowed' = borrowed /\ answer' = answer
    BY <1>3 DEF WorkerSeeks, TaskReturns
  <2> QED BY <1>1, <2>1, <2>2, PoolSideInv
<1>4. ASSUME DestroyThreadPool PROVE AsyncInv'
  <2>1. /\ BeginStop \/ Join
        /\ UNCHANGED callVars /\ engines' = engines /\ borrowed' = borrowed /\ answer' = answer
    BY <1>4 DEF DestroyThreadPool
  <2> QED BY <1>1, <2>1, PoolSideInv
<1>5. ASSUME UNCHANGED vars PROVE AsyncInv'
  <2>1. /\ UNCHANGED callVars /\ UNCHANGED poolVars
        /\ engines' = engines /\ borrowed' = borrowed /\ answer' = answer /\ compiled' = compiled
        /\ cpc' = cpc
    BY <1>5 DEF vars, callVars
  <2>2. /\ status' = status /\ stop' = stop /\ wpc' = wpc
    BY <2>1 DEF poolVars
  <2>3. TypeOK'
    BY <1>1, <2>1, CallTypesKept DEF AsyncInv, TypeOK
  <2>4. EnginesFit'
    BY <2>1, <2>2 DEF AsyncInv, EnginesFit, NotBegun
  <2>5. CallInv' /\ TasksSee' /\ CycleStays' /\ GotAll'
    BY <2>1, <2>2, CallVarsKept
  <2> QED BY <1>1, <2>3, <2>4, <2>5 DEF AsyncInv
<1>6. ASSUME NEW c \in Clients,
             Compile(c) \/ CompileThrows(c) \/ Call(c) \/ CallerStep(c) \/ Get(c)
      PROVE  AsyncInv'
  BY <1>2, <1>6, CompileInv, CompileThrowsInv, CallBeginsInv, GetInv, BuildLevelInv, NextLevelInv, SkipInv,
     EnqueueInv, StageEndsInv, CollectInv DEF CallerStep
<1>7. ASSUME NEW w \in Workers, WorkerStep(w) \/ TaskBreaks(w) PROVE AsyncInv'
  BY <1>3, <1>7, TaskInv DEF WorkerStep
<1> QED BY <1>4, <1>5, <1>6, <1>7, DestroyEnginesInv DEF Next

(* What is compiled was validated, by compile or before. *)
AcceptedInv == wf \in Workflows /\ (compiled => wf.validated \/ Accepted)

LEMMA AcceptedStep == AcceptedInv /\ [Next]_vars => AcceptedInv'
<1> SUFFICES ASSUME AcceptedInv, [Next]_vars PROVE AcceptedInv'
  OBVIOUS
<1>1. wf' = wf
  BY DEF Next, vars, Compile, CompileThrows, Call, CallerStep, BuildLevel, NextLevel, Skip, Enqueue,
         Submit, Enqueued, Collect, Collected, Get, WorkerStep, WorkerSeeks, AcquireEngine, Execute,
         ReleaseEngine, TaskReturns, TaskBreaks, DestroyThreadPool, DestroyEngines, callVars
<1>2. Accepted' <=> Accepted
  BY <1>1 DEF Accepted, Circular, Found, SoFar, Named
<1>3. compiled' => compiled \/ wf.validated \/ Accepted
  BY DEF Next, vars, Compile, CompileThrows, Call, CallerStep, BuildLevel, NextLevel, Skip, Enqueue,
         Submit, Enqueued, Collect, Collected, Get, WorkerStep, WorkerSeeks, AcquireEngine, Execute,
         ReleaseEngine, TaskReturns, TaskBreaks, DestroyThreadPool, DestroyEngines, callVars
<1> QED BY <1>1, <1>2, <1>3 DEF AcceptedInv

(* The rules of a cycle of ids are closed under whatever rule the search   *)
(* finds by a name, when only one has it.                                  *)
LEMMA AcceptedIsAcyclic == AcceptedInv => ValidatedHasNoCycle
<1> SUFFICES ASSUME AcceptedInv, Accepted, HasCycle,
                    \A q, r \in Rules : wf.name[q] = wf.name[r] => q = r
             PROVE  FALSE
  BY DEF AcceptedInv, ValidatedHasNoCycle
<1>1. PICK f \in Found : ~Circular(f)
  BY DEF Accepted
<1>2. PICK s \in SUBSET UsedIds : Cycle(s)
  BY DEF HasCycle, Cycle, WaitsFor, NameOf, DepOf
<1>3. \A i \in UsedIds : RuleOf(i) \in Rules
  BY IdsAreUsed DEF AcceptedInv
<1> DEFINE u == {RuleOf(i) : i \in s}
<1>4. u \in (SUBSET Rules) \ {{}}
  BY <1>2, <1>3 DEF Cycle
<1>5. ASSUME NEW r \in u PROVE f[r] \in u
  <2>1. PICK i \in s : r = RuleOf(i)
    OBVIOUS
  <2>2. PICK j \in s : wf.dep[r] = wf.name[RuleOf(j)]
    BY <1>2, <2>1 DEF Cycle, WaitsFor, NameOf, DepOf
  <2>3. RuleOf(j) \in Named(wf.dep[r])
    BY <1>3, <2>2 DEF Named
  <2>4. f[r] \in Named(wf.dep[r])
    BY <1>1, <1>4, <2>3 DEF Found
  <2>5. f[r] = RuleOf(j)
    BY <2>3, <2>4 DEF Named
  <2> QED BY <2>5
<1> HIDE DEF u
<1> QED BY <1>1, <1>4, <1>5 DEF Circular

(* The invariant says all that a caller is promised. *)
LEMMA AsyncInvIsSound == AsyncInv /\ AcceptedInv => AsyncCallIsSound
<1> SUFFICES ASSUME AsyncInv, AcceptedInv PROVE AsyncCallIsSound
  OBVIOUS
<1> USE DEF AsyncInv
<1>1. NoTaskTwice /\ JoinedMeansDrained
  BY PlacesCounted, JoinedIsDrained
<1>2. EngineForEveryTask
  BY DEF EnginesFit, EngineForEveryTask
<1>3. SeesItsDependency
  <2> SUFFICES ASSUME NEW w \in Workers, wpc[w] = "run",
                      NEW j \in UsedIds, NameOf(j) = DepOf(task[w][2]), ActiveId(j)
               PROVE  DepOf(task[w][2]) \in localCtx[task[w]]
    BY DEF SeesItsDependency, NameOf, DepOf, ActiveId
  <2>1. task[w] \in Tasks /\ status[task[w]] # "new"
    BY RunningTask
  <2>2. PICK c \in Clients, i \in UsedIds :
          /\ task[w] = <<c, i>>
          /\ (\E h \in UsedIds : WaitsFor(i, h) /\ ActiveId(h)) => DepOf(i) \in localCtx[task[w]]
    BY <2>1 DEF TasksSee, TaskSees
  <2> QED BY <2>2 DEF WaitsFor
<1>4. ASSUME NEW c \in Clients, cpc[c] = "returned"
      PROVE  /\ Len(allResults[c]) = Cardinality(UsedIds)
             /\ Elems(allResults[c]) = UsedIds
  <2>1. CallShape(c) /\ OneStage(c)
    BY DEF CallInv
  <2>2. remaining[c] = {} /\ levels[c] = <<>> /\ level[c] = {} /\ futures[c] = <<>>
    BY <1>4, <2>1 DEF CallShape
  <2>3. UsedIds = Elems(allResults[c])
    BY <1>4, <2>1, <2>2, EmptyElems DEF OneStage, Ahead, Begun, InLevels
  <2>4. Distinct(allResults[c]) /\ allResults[c] \in Seq(Ids)
    BY <2>1 DEF OneStage, TypeOK
  <2> QED BY <2>3, <2>4, DistinctLen
<1>5. ReportsEachIdOnce
  BY <1>4 DEF ReportsEachIdOnce, Elems
<1>6. EnginesOutliveTasks
  <2> SUFFICES ASSUME engines = -1 PROVE borrowed = {} /\ \A w \in Workers : wpc[w] = "exit"
    BY DEF EnginesOutliveTasks
  <2>1. stop = "joined" /\ \A w \in borrowed : w \in Workers /\ wpc[w] = "run"
    BY DEF EnginesFit, TypeOK
  <2>2. \A w \in Workers : wpc[w] = "exit"
    BY <2>1 DEF PoolInv, LeavesWhenStopped
  <2> QED BY <2>1, <2>2
<1>7. GetIsAllOrNothing
  BY <1>4 DEF GotAll, GetIsAllOrNothing
<1>8. CycleRunsNothing
  <2> SUFFICES ASSUME HasCycle, NEW c \in Clients
               PROVE  /\ cpc[c] \notin {"returned", "threw"} /\ allResults[c] = <<>>
                      /\ \A i \in Ids : status[<<c, i>>] = "new"
    BY DEF CycleRunsNothing
  <2>1. PICK s \in SUBSET UsedIds : Cycle(s)
    BY DEF HasCycle, Cycle, WaitsFor, NameOf, DepOf
  <2>2. NotBegun(c) \/ remaining[c] # {}
    BY <2>1 DEF CycleStays, Cycle
  <2>3. CallShape(c)
    BY DEF CallInv
  <2> QED BY <2>2, <2>3 DEF CallShape, NotBegun
<1> QED BY <1>1, <1>2, <1>3, <1>5, <1>6, <1>7, <1>8, AcceptedIsAcyclic DEF AsyncCallIsSound

(* executeParallelAsync, for any number of callers, workers and rules,     *)
(* with tasks that throw and a pool that is destroyed: a call that returns *)
(* has reported every id once, a rule runs with the result of what it      *)
(* depends on in sight, no task or engine is lost, a cycle of names runs   *)
(* nothing, and none is left in what compile itself has validated.         *)
THEOREM AsyncCallsAreSound == Spec => []AsyncCallIsSound
<1>1. Init => AsyncInv /\ AcceptedInv
  BY AsyncInitInv DEF Init, AcceptedInv
<1>2. AsyncInv /\ [Next]_vars => AsyncInv'
  BY AsyncStep
<1>3. AcceptedInv /\ [Next]_vars => AcceptedInv'
  BY AcceptedStep
<1>4. AsyncInv /\ AcceptedInv => AsyncCallIsSound
  BY AsyncInvIsSound
<1> QED BY <1>1, <1>2, <1>3, <1>4, PTL DEF Spec
=============================================================================
