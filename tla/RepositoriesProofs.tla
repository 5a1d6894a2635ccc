------------------------- MODULE RepositoriesProofs -------------------------
(***************************************************************************)
(* Proofs about the stores of rules and workflows: FileRepository,         *)
(* DbRepository, WorkflowTransfer and RuleValidation, and about            *)
(* MCRepositories, which puts them side by side.                           *)
(***************************************************************************)
EXTENDS MCRepositories, FiniteSetTheorems, SequenceTheorems, WellFoundedInduction, TLAPS

(* The file repositories: what reaches the file. *)

(* The variables are functions of the repository.  What their values are   *)
(* does not matter here, except for the flags.                             *)
Shape ==
  /\ DOMAIN temp = Repos /\ DOMAIN data = Repos /\ DOMAIN pc = Repos
  /\ dirty \in [Repos -> BOOLEAN]
  /\ changed \in [Repos -> BOOLEAN]

(* What is renamed is a complete copy of the memory: mutex_ keeps save and *)
(* remove out until the flush has ended.                                   *)
CopyIsComplete == \A r \in Repos : pc[r] = "rename" => temp[r] = data[r]

(* A repository that writes is dirty. *)
WriterIsDirty == \A r \in Repos : pc[r] \in {"write", "rename"} => dirty[r]

(* The inductive invariant for what reaches the file. *)
IInv == Shape /\ CopyIsComplete /\ WriterIsDirty /\ NoChangeIsForgotten

(* A repository that is not there has nothing to write. *)
LEMMA InitInv == Init => IInv
  BY DEF Init, IInv, Shape, CopyIsComplete, WriterIsDirty, NoChangeIsForgotten

(* A repository that goes away, by its destructor or by a crash, leaves the *)
(* invariant to the others.                                                 *)
LEMMA GoneInv ==
  ASSUME IInv, NEW r \in Repos, Gone(r) PROVE IInv'
  BY DEF IInv, Shape, CopyIsComplete, WriterIsDirty, NoChangeIsForgotten, Gone

(* So does the end of a flush, if the flag is cleared only with the history. *)
LEMMA AfterFlushInv ==
  ASSUME IInv, NEW r \in Repos, NEW d \in BOOLEAN, NEW c \in BOOLEAN,
         c => d, AfterFlush(r, d, c)
  PROVE  IInv'
<1>1. CASE closing[r]
  BY <1>1, GoneInv DEF AfterFlush
<1>2. CASE ~closing[r]
  BY <1>2 DEF AfterFlush, IInv, Shape, CopyIsComplete, WriterIsDirty, NoChangeIsForgotten
<1> QED BY <1>1, <1>2

(* save() and remove() keep the invariant: they run only while no flush does. *)
LEMMA ChangeInv ==
  ASSUME IInv, NEW r \in Repos,
         (\E rule \in SavedRules : Save(r, rule)) \/ (\E i \in Ids : RemoveRule(r, i))
  PROVE  IInv'
<1>1. ASSUME NEW rule \in SavedRules, Save(r, rule) PROVE IInv'
  <2> DEFINE d == UpsertAll(data[r], ItemsOf(rule))
  <2>1. data' = [data EXCEPT ![r] = d]
    BY <1>1 DEF Save
  <2> HIDE DEF d
  <2> QED BY <1>1, <2>1
          DEF Save, IInv, Shape, CopyIsComplete, WriterIsDirty, NoChangeIsForgotten
<1>2. ASSUME NEW i \in Ids, RemoveRule(r, i) PROVE IInv'
  <2> DEFINE d == IF format = "json" THEN Without(data[r], i)
                  ELSE RemoveAt(data[r], FirstPlace(data[r], i))
  <2>1. data' = [data EXCEPT ![r] = IF PlacesOf(data[r], i) = {} THEN data[r] ELSE d]
    BY <1>2 DEF RemoveRule
  <2>2. data'[r] # data[r] => PlacesOf(data[r], i) # {}
    BY <2>1 DEF IInv, Shape
  <2>3. Shape'
    BY <1>2, <2>1 DEF RemoveRule, IInv, Shape
  <2>4. CopyIsComplete' /\ WriterIsDirty'
    BY <1>2, <2>1 DEF RemoveRule, IInv, Shape, CopyIsComplete, WriterIsDirty
  <2>5. NoChangeIsForgotten'
    BY <1>2, <2>2 DEF RemoveRule, IInv, Shape, NoChangeIsForgotten
  <2> QED BY <2>3, <2>4, <2>5 DEF IInv
<1> QED BY <1>1, <1>2

(* Every step keeps the invariant. *)
LEMMA NextInv == IInv /\ [Next]_vars => IInv'
<1> SUFFICES ASSUME IInv, [Next]_vars PROVE IInv'
  OBVIOUS
<1>1. CASE UNCHANGED vars
  BY <1>1 DEF vars, IInv, Shape, CopyIsComplete, WriterIsDirty, NoChangeIsForgotten
<1>2. ASSUME NEW r \in Repos, Open(r) PROVE IInv'
  <2>1. PICK d \in Loaded(file) : data' = [data EXCEPT ![r] = d]
    BY <1>2 DEF Open
  <2> QED BY <1>2, <2>1
          DEF Open, IInv, Shape, CopyIsComplete, WriterIsDirty, NoChangeIsForgotten
<1>3. ASSUME NEW r \in Repos, CloseClean(r) \/ Crash(r) PROVE IInv'
  BY <1>3, GoneInv DEF CloseClean, Crash
<1>4. ASSUME NEW r \in Repos, \E destructor \in BOOLEAN : BeginWrite(r, destructor)
      PROVE  IInv'
  BY <1>4 DEF BeginWrite, IInv, Shape, CopyIsComplete, WriterIsDirty, NoChangeIsForgotten
<1>5. ASSUME NEW r \in Repos, WriteTemp(r) PROVE IInv'
  BY <1>5 DEF WriteTemp, IInv, Shape, CopyIsComplete, WriterIsDirty, NoChangeIsForgotten
<1>6. ASSUME NEW r \in Repos, WriteFails(r) \/ GiveUp(r) PROVE IInv'
  <2>1. changed[r] \in BOOLEAN
    BY DEF IInv, Shape
  <2> QED BY <1>6, <2>1, AfterFlushInv DEF WriteFails, GiveUp
<1>7. ASSUME NEW r \in Repos, Replace(r) PROVE IInv'
  BY <1>7, AfterFlushInv DEF Replace
<1> QED BY <1>1, <1>2, <1>3, <1>4, <1>5, <1>6, <1>7, ChangeInv DEF Next, FlushStep

(* Changes in memory stay marked until they have reached the file (flush). *)
THEOREM DirtyUntilWritten == Spec => []NoChangeIsForgotten
<1>1. IInv => NoChangeIsForgotten
  BY DEF IInv
<1> QED BY <1>1, InitInv, NextInv, PTL DEF Spec

(* The file changes only by a rename, and becomes the complete memory of a *)
(* repository: no crash, failure or other writer leaves a torn file.       *)
THEOREM WholeFile == Spec => FileIsReplacedWhole
<1>1. IInv /\ [Next]_vars =>
        [file' # file => \E r \in Repos : pc[r] = "rename" /\ file' = data[r]]_vars
  <2> SUFFICES ASSUME IInv, Next, file' # file
               PROVE  \E r \in Repos : pc[r] = "rename" /\ file' = data[r]
    BY DEF vars
  <2>1. PICK r \in Repos : Replace(r)
    BY DEF Next, Open, CloseClean, Crash, FlushStep, Save, RemoveRule, BeginWrite,
           WriteTemp, WriteFails, GiveUp
  <2> QED BY <2>1 DEF Replace, IInv, CopyIsComplete
<1> QED BY <1>1, InitInv, NextInv, PTL DEF Spec, FileIsReplacedWhole

-----------------------------------------------------------------------------
(* The file repositories: what they answer. *)

(* Induction up to n, for a set of naturals. *)
LEMMA UpTo ==
  ASSUME NEW n \in Nat, NEW G, 0 \in G, \A k \in 1 .. n : k - 1 \in G => k \in G
  PROVE  \A k \in 0 .. n : k \in G
<1> DEFINE bad == {k \in 0 .. n : k \notin G}
<1> SUFFICES ASSUME bad # {} PROVE FALSE
  OBVIOUS
<1>1. bad \in SUBSET Nat
  OBVIOUS
<1>2. PICK m \in bad : \A k \in bad : ~(<<k, m>> \in OpToRel(<, Nat))
  BY <1>1, NatLessThanWellFounded, WFMin
<1>3. m \in 0 .. n /\ m # 0 /\ m \notin G
  BY <1>2
<1>4. m \in Nat /\ m - 1 \in Nat /\ m - 1 < m /\ m - 1 \in 0 .. n /\ m \in 1 .. n
  BY <1>3
<1>5. m - 1 \notin bad
  BY <1>2, <1>4 DEF OpToRel
<1> QED BY <1>3, <1>4, <1>5

(* The least of a set of naturals. *)
LEMMA LeastOfNats ==
  ASSUME NEW S \in SUBSET Nat, S # {}
  PROVE  LET p == CHOOSE i \in S : \A j \in S : i <= j IN p \in S /\ \A j \in S : p <= j
<1>1. PICK m \in S : \A k \in S : ~(<<k, m>> \in OpToRel(<, Nat))
  BY NatLessThanWellFounded, WFMin
<1>2. \A k \in S : m <= k
  <2> SUFFICES ASSUME NEW k \in S PROVE m <= k
    OBVIOUS
  <2>1. m \in Nat /\ k \in Nat /\ ~(k < m)
    BY <1>1 DEF OpToRel
  <2> QED BY <2>1
<1> QED BY <1>2

(* Recursion over 0 .. n, with the step as a function: there is a result. *)
StepFunctions(n, T) == [(1 .. n) \X T -> T]
HasScan(T, b, n, g) ==
  \E w \in [0 .. n -> T] : w[0] = b /\ \A k \in 1 .. n : w[k] = g[<<k, w[k - 1]>>]

(* Such a recursion has a result, whatever the step is. *)
LEMMA ScanExists ==
  ASSUME NEW T, NEW b \in T, NEW n \in Nat, NEW g \in StepFunctions(n, T)
  PROVE  HasScan(T, b, n, g)
<1>0. g \in [(1 .. n) \X T -> T]
  BY DEF StepFunctions
<1> DEFINE Scan(m) == \E w \in [0 .. m -> T] : w[0] = b /\ \A k \in 1 .. m : w[k] = g[<<k, w[k - 1]>>]
           G == {m \in 0 .. n : Scan(m)}
<1>1. 0 \in G
  <2> DEFINE w == [k \in 0 .. 0 |-> b]
  <2>1. w \in [0 .. 0 -> T] /\ w[0] = b /\ \A k \in 1 .. 0 : w[k] = g[<<k, w[k - 1]>>]
    OBVIOUS
  <2> HIDE DEF w
  <2>2. Scan(0)
    BY <2>1
  <2> QED BY <2>2
<1>2. ASSUME NEW m \in 1 .. n, m - 1 \in G PROVE m \in G
  <2>1. PICK v \in [0 .. m - 1 -> T] : v[0] = b /\ \A k \in 1 .. m - 1 : v[k] = g[<<k, v[k - 1]>>]
    BY <1>2
  <2> DEFINE w == [k \in 0 .. m |-> IF k = m THEN g[<<m, v[m - 1]>>] ELSE v[k]]
  <2>2. m \in Nat /\ m # 0 /\ m - 1 \in 0 .. m - 1 /\ 0 \in 0 .. m - 1
    OBVIOUS
  <2>3. g[<<m, v[m - 1]>>] \in T
    BY <2>1, <2>2, <1>0
  <2>4. \A k \in 0 .. m : k = m \/ k \in 0 .. m - 1
    BY <2>2
  <2>5. w \in [0 .. m -> T]
    BY <2>1, <2>3, <2>4
  <2>6. w[0] = b
    BY <2>1, <2>2
  <2>7. ASSUME NEW k \in 1 .. m PROVE w[k] = g[<<k, w[k - 1]>>]
    <3>1. k - 1 \in 0 .. m /\ k - 1 # m /\ k \in 0 .. m
      BY <2>2
    <3>2. w[k - 1] = v[k - 1]
      BY <3>1
    <3>3. CASE k = m
      BY <3>1, <3>2, <3>3
    <3>4. CASE k # m
      <4>1. k \in 1 .. m - 1
        BY <3>4, <2>2
      <4> QED BY <3>1, <3>2, <3>4, <4>1, <2>1
    <3> QED BY <3>3, <3>4
  <2> HIDE DEF w
  <2>8. Scan(m)
    BY <2>5, <2>6, <2>7
  <2> QED BY <2>8
<1> HIDE DEF G
<1>3. n \in G
  BY <1>1, <1>2, UpTo
<1> QED BY <1>3 DEF G, HasScan

-----------------------------------------------------------------------------
(* What the places of an id say about findById. *)
LEMMA FirstPlaceIsFirst ==
  ASSUME NEW d \in Seq(Items), NEW i, PlacesOf(d, i) # {}
  PROVE  /\ FirstPlace(d, i) \in PlacesOf(d, i)
         /\ \A m \in PlacesOf(d, i) : FirstPlace(d, i) <= m
<1>1. PlacesOf(d, i) \in SUBSET Nat
  BY DEF PlacesOf
<1> QED BY <1>1, LeastOfNats DEF FirstPlace

(* findById answers with the body at the first place of the id. *)
LEMMA FoundAt ==
  ASSUME NEW d \in Seq(Items), NEW i, NEW p \in PlacesOf(d, i),
         \A m \in PlacesOf(d, i) : p <= m
  PROVE  FirstPlace(d, i) = p /\ Find(d, i) = d[p].body
<1>1. FirstPlace(d, i) \in PlacesOf(d, i) /\ \A m \in PlacesOf(d, i) : FirstPlace(d, i) <= m
  BY FirstPlaceIsFirst
<1>2. p \in Nat /\ FirstPlace(d, i) \in Nat
  BY <1>1 DEF PlacesOf
<1>3. p <= FirstPlace(d, i) /\ FirstPlace(d, i) <= p
  BY <1>1
<1>4. FirstPlace(d, i) = p
  BY <1>2, <1>3
<1> QED BY <1>4 DEF Find

(* No id is there twice. *)
NoTwins(d) == \A i, j \in DOMAIN d : d[i].id = d[j].id => i = j

(* What findById answers after one more rule. *)
LEMMA FindAppend ==
  ASSUME NEW d \in Seq(Items), NEW x \in Items
  PROVE  /\ Append(d, x) \in Seq(Items)
         /\ \A i : PlacesOf(Append(d, x), i) =
                     PlacesOf(d, i) \cup IF x.id = i THEN {Len(d) + 1} ELSE {}
         /\ \A i : Find(Append(d, x), i) =
                     IF PlacesOf(d, i) = {} /\ x.id = i THEN x.body ELSE Find(d, i)
         /\ NoTwins(Append(d, x)) <=> NoTwins(d) /\ PlacesOf(d, x.id) = {}
<1> DEFINE e == Append(d, x)
           n == Len(d) + 1
<1>1. /\ e \in Seq(Items) /\ DOMAIN e = 1 .. n /\ DOMAIN d = 1 .. Len(d) /\ Len(d) \in Nat
      /\ e[n] = x /\ n \in Nat /\ n \notin DOMAIN d
      /\ \A k \in DOMAIN d : e[k] = d[k] /\ k < n /\ k \in DOMAIN e
      /\ \A k \in DOMAIN e : k \in DOMAIN d \/ k = n
      /\ n \in DOMAIN e
  BY AppendProperties
<1> HIDE DEF e, n
<1>2. ASSUME NEW i PROVE PlacesOf(e, i) = PlacesOf(d, i) \cup IF x.id = i THEN {n} ELSE {}
  BY <1>1 DEF PlacesOf
<1>3. ASSUME NEW i
      PROVE  Find(e, i) = IF PlacesOf(d, i) = {} /\ x.id = i THEN x.body ELSE Find(d, i)
  <2>1. CASE PlacesOf(d, i) # {}
    <3> DEFINE p == FirstPlace(d, i)
    <3>1. p \in PlacesOf(d, i) /\ \A m \in PlacesOf(d, i) : p <= m
      BY <2>1, FirstPlaceIsFirst
    <3> HIDE DEF p
    <3>2. p \in DOMAIN d /\ p < n /\ p \in Nat
      BY <3>1, <1>1 DEF PlacesOf
    <3>3. p <= n
      BY <3>2, <1>1
    <3>4. p \in PlacesOf(e, i) /\ \A m \in PlacesOf(e, i) : p <= m
      BY <3>1, <3>3, <1>2
    <3>5. Find(e, i) = e[p].body /\ Find(d, i) = d[p].body
      BY <3>1, <3>4, <1>1, FoundAt
    <3> QED BY <2>1, <3>2, <3>5, <1>1
  <2>2. CASE PlacesOf(d, i) = {} /\ x.id = i
    <3>1. PlacesOf(e, i) = {n}
      BY <2>2, <1>2
    <3>2. n \in PlacesOf(e, i) /\ \A m \in PlacesOf(e, i) : n <= m
      BY <3>1, <1>1
    <3>3. Find(e, i) = e[n].body
      BY <3>2, <1>1, FoundAt
    <3> QED BY <2>2, <3>3, <1>1
  <2>3. CASE PlacesOf(d, i) = {} /\ x.id # i
    BY <2>3, <1>2 DEF Find
  <2> QED BY <2>1, <2>2, <2>3
<1>4. NoTwins(e) <=> NoTwins(d) /\ PlacesOf(d, x.id) = {}
  <2>1. ASSUME NoTwins(e) PROVE NoTwins(d) /\ PlacesOf(d, x.id) = {}
    <3>1. NoTwins(d)
      BY <2>1, <1>1 DEF NoTwins
    <3>2. \A k \in DOMAIN d : d[k].id # x.id
      BY <2>1, <1>1 DEF NoTwins
    <3> QED BY <3>1, <3>2 DEF PlacesOf
  <2>2. ASSUME NoTwins(d), PlacesOf(d, x.id) = {} PROVE NoTwins(e)
    <3>1. \A k \in DOMAIN d : d[k].id # x.id
      BY <2>2 DEF PlacesOf
    <3> QED BY <2>2, <3>1, <1>1 DEF NoTwins
  <2> QED BY <2>1, <2>2
<1> QED BY <1>1, <1>2, <1>3, <1>4 DEF e, n

(* The first n rules of d. *)
FirstOf(d, n) == [k \in 1 .. n |-> d[k]]

(* The first n + 1 rules are the first n and one more. *)
LEMMA FirstOfGrows ==
  ASSUME NEW d \in Seq(Items), NEW k \in 1 .. Len(d)
  PROVE  /\ FirstOf(d, k - 1) \in Seq(Items) /\ d[k] \in Items
         /\ FirstOf(d, k) = Append(FirstOf(d, k - 1), d[k])
<1>1. k \in Nat /\ k - 1 \in Nat /\ Len(d) \in Nat /\ d[k] \in Items
  OBVIOUS
<1>2. FirstOf(d, k - 1) \in Seq(Items) /\ Len(FirstOf(d, k - 1)) = k - 1
  <2>1. FirstOf(d, k - 1) \in [1 .. k - 1 -> Items]
    BY <1>1 DEF FirstOf
  <2> QED BY <2>1, <1>1, SeqDef DEF FirstOf
<1> DEFINE s == FirstOf(d, k - 1)
           e == Append(s, d[k])
<1>3. /\ DOMAIN e = 1 .. k /\ e[k] = d[k] /\ \A m \in 1 .. k - 1 : e[m] = s[m]
      /\ e = [m \in DOMAIN e |-> e[m]]
  <2>1. (k - 1) + 1 = k
    BY <1>1
  <2> HIDE DEF s
  <2> QED BY <2>1, <1>1, <1>2, AppendProperties DEF s
<1>4. \A m \in 1 .. k : e[m] = d[m]
  <2> SUFFICES ASSUME NEW m \in 1 .. k PROVE e[m] = d[m]
    OBVIOUS
  <2>1. CASE m = k
    BY <2>1, <1>3
  <2>2. CASE m # k
    <3>1. m \in 1 .. k - 1
      BY <2>2, <1>1
    <3>2. e[m] = s[m]
      BY <3>1, <1>3
    <3> HIDE DEF e
    <3> QED BY <3>1, <3>2 DEF FirstOf
  <2> QED BY <2>1, <2>2
<1>5. FirstOf(d, k) = e
  <2> HIDE DEF e, s
  <2> QED BY <1>3, <1>4 DEF FirstOf
<1> QED BY <1>1, <1>2, <1>5

(* The first rules, all of them. *)
LEMMA FirstOfAll ==
  ASSUME NEW d \in Seq(Items)
  PROVE  FirstOf(d, Len(d)) = d /\ FirstOf(d, 0) = << >>
  BY DEF FirstOf

(* Without takes the rules with the id away and leaves the answers about    *)
(* the others.                                                              *)
LEMMA WithoutUnfolds ==
  ASSUME NEW d \in Seq(Items), NEW i
  PROVE  \E w \in [0 .. Len(d) -> Seq(Items)] :
           /\ w[0] = << >>
           /\ \A k \in 1 .. Len(d) :
                w[k] = IF d[k].id = i THEN w[k - 1] ELSE Append(w[k - 1], d[k])
           /\ Without(d, i) = w[Len(d)]
<1> DEFINE n == Len(d)
           T == Seq(Items)
           W(w) == w = [k \in 0 .. n |-> IF k = 0 THEN << >>
                          ELSE IF d[k].id = i THEN w[k - 1] ELSE Append(w[k - 1], d[k])]
           g == [p \in (1 .. n) \X T |-> IF d[p[1]].id = i THEN p[2] ELSE Append(p[2], d[p[1]])]
<1>1. n \in Nat /\ << >> \in T /\ \A k \in 1 .. n : d[k] \in Items
  OBVIOUS
<1>2. g \in StepFunctions(n, T)
  <2> SUFFICES ASSUME NEW p \in (1 .. n) \X T
               PROVE  (IF d[p[1]].id = i THEN p[2] ELSE Append(p[2], d[p[1]])) \in T
    BY DEF StepFunctions
  <2>1. p[1] \in 1 .. n /\ p[2] \in T
    OBVIOUS
  <2>2. Append(p[2], d[p[1]]) \in T
    BY <2>1, <1>1, AppendProperties
  <2> QED BY <2>1, <2>2
<1>3. \A k \in 1 .. n : \A t \in T : g[<<k, t>>] = IF d[k].id = i THEN t ELSE Append(t, d[k])
  OBVIOUS
<1> HIDE DEF g, n, T
<1>4. PICK v \in [0 .. n -> T] : v[0] = << >> /\ \A k \in 1 .. n : v[k] = g[<<k, v[k - 1]>>]
  <2> DEFINE b == << >>
  <2>1. b \in T /\ n \in Nat
    BY <1>1
  <2> HIDE DEF b
  <2>2. HasScan(T, b, n, g)
    BY <2>1, <1>2, ScanExists
  <2> QED BY <2>2 DEF HasScan, b
<1>5. \A k \in 1 .. n : v[k - 1] \in T
  BY <1>1, <1>4
<1>6. \A k \in 1 .. n : v[k] = IF d[k].id = i THEN v[k - 1] ELSE Append(v[k - 1], d[k])
  BY <1>3, <1>4, <1>5
<1>7. W(v)
  <2>1. \A k \in 0 .. n : k = 0 \/ k \in 1 .. n
    BY <1>1
  <2>2. \A k \in 0 .. n : v[k] = IF k = 0 THEN << >>
             ELSE IF d[k].id = i THEN v[k - 1] ELSE Append(v[k - 1], d[k])
    BY <2>1, <1>4, <1>6
  <2> QED BY <2>2, <1>4
<1> DEFINE u == CHOOSE w : W(w)
<1>8. W(u)
  BY <1>7
<1>9. Without(d, i) = u[n]
  BY DEF Without, n
<1> HIDE DEF u
<1>10. DOMAIN u = 0 .. n /\ u[0] = << >>
       /\ \A k \in 1 .. n : u[k] = IF d[k].id = i THEN u[k - 1] ELSE Append(u[k - 1], d[k])
  <2>1. \A k \in 1 .. n : k \in 0 .. n /\ k # 0
    BY <1>1
  <2>2. 0 \in 0 .. n
    BY <1>1
  <2> QED BY <2>1, <2>2, <1>8
<1>11. \A k \in 0 .. n : k \in {m \in 0 .. n : u[m] \in T}
  <2> DEFINE G == {m \in 0 .. n : u[m] \in T}
  <2>1. 0 \in G
    BY <1>1, <1>10
  <2>2. ASSUME NEW k \in 1 .. n, k - 1 \in G PROVE k \in G
    <3>1. u[k - 1] \in Seq(Items) /\ d[k] \in Items
      BY <2>2, <1>1 DEF T
    <3>2. Append(u[k - 1], d[k]) \in Seq(Items)
      BY <3>1, AppendProperties
    <3>3. u[k] \in T
      BY <3>1, <3>2, <1>10 DEF T
    <3>4. k \in 0 .. n
      BY <1>1
    <3> QED BY <3>3, <3>4
  <2> HIDE DEF G
  <2>3. \A k \in 0 .. n : k \in G
    BY <2>1, <2>2, <1>1, UpTo
  <2> QED BY <2>3 DEF G
<1>12. u \in [0 .. n -> T]
  <2>1. u = [k \in 0 .. n |-> u[k]]
    BY <1>8, <1>10
  <2> QED BY <2>1, <1>11
<1> QED BY <1>9, <1>10, <1>12 DEF n, T

(* Erasing all rules of an id leaves the answers about the others. *)
LEMMA WithoutFinds ==
  ASSUME NEW d \in Seq(Items), NEW i
  PROVE  /\ Without(d, i) \in Seq(Items) /\ PlacesOf(Without(d, i), i) = {}
         /\ \A j : j # i => Find(Without(d, i), j) = Find(d, j)
         /\ NoTwins(d) => NoTwins(Without(d, i))
<1> DEFINE n == Len(d)
<1>1. PICK w \in [0 .. n -> Seq(Items)] :
        /\ w[0] = << >>
        /\ \A k \in 1 .. n : w[k] = IF d[k].id = i THEN w[k - 1] ELSE Append(w[k - 1], d[k])
        /\ Without(d, i) = w[n]
  BY WithoutUnfolds
<1>2. n \in Nat
  OBVIOUS
<1> HIDE DEF n
<1> DEFINE Good(k) ==
      /\ PlacesOf(w[k], i) = {}
      /\ \A j : j # i => /\ Find(w[k], j) = Find(FirstOf(d, k), j)
                         /\ PlacesOf(w[k], j) = {} <=> PlacesOf(FirstOf(d, k), j) = {}
      /\ NoTwins(FirstOf(d, k)) => NoTwins(w[k])
           G == {k \in 0 .. n : Good(k)}
<1>3. 0 \in G
  <2>1. w[0] = << >> /\ FirstOf(d, 0) = << >> /\ 0 \in 0 .. n
    BY <1>1, <1>2, FirstOfAll
  <2>2. \A j : PlacesOf(<< >>, j) = {}
    BY DEF PlacesOf
  <2> QED BY <2>1, <2>2
<1>4. ASSUME NEW k \in 1 .. n, k - 1 \in G PROVE k \in G
  <2> DEFINE a == w[k - 1]
             p == FirstOf(d, k - 1)
             x == d[k]
  <2>1. /\ a \in Seq(Items) /\ p \in Seq(Items) /\ x \in Items /\ FirstOf(d, k) = Append(p, x)
        /\ w[k] = IF x.id = i THEN a ELSE Append(a, x)
        /\ k \in 0 .. n
    <3>1. k \in 0 .. n /\ k - 1 \in 0 .. n
      BY <1>2
    <3>2. a \in Seq(Items) /\ w[k] = IF x.id = i THEN a ELSE Append(a, x)
      BY <3>1, <1>1
    <3>3. p \in Seq(Items) /\ x \in Items /\ FirstOf(d, k) = Append(p, x)
      BY FirstOfGrows DEF n
    <3> QED BY <3>1, <3>2, <3>3
  <2>2. /\ PlacesOf(a, i) = {}
        /\ \A j : j # i => /\ Find(a, j) = Find(p, j)
                           /\ PlacesOf(a, j) = {} <=> PlacesOf(p, j) = {}
        /\ NoTwins(p) => NoTwins(a)
    BY <1>4
  <2> HIDE DEF a, p, x, G
  <2>3. /\ \A j : PlacesOf(Append(p, x), j) = PlacesOf(p, j) \cup IF x.id = j THEN {Len(p) + 1} ELSE {}
        /\ \A j : Find(Append(p, x), j) =
                     IF PlacesOf(p, j) = {} /\ x.id = j THEN x.body ELSE Find(p, j)
        /\ NoTwins(Append(p, x)) <=> NoTwins(p) /\ PlacesOf(p, x.id) = {}
    BY <2>1, FindAppend
  <2>4. /\ \A j : PlacesOf(Append(a, x), j) = PlacesOf(a, j) \cup IF x.id = j THEN {Len(a) + 1} ELSE {}
        /\ \A j : Find(Append(a, x), j) =
                     IF PlacesOf(a, j) = {} /\ x.id = j THEN x.body ELSE Find(a, j)
        /\ NoTwins(Append(a, x)) <=> NoTwins(a) /\ PlacesOf(a, x.id) = {}
    BY <2>1, FindAppend
  <2>5. CASE x.id = i
    <3>1. w[k] = a /\ FirstOf(d, k) = Append(p, x)
      BY <2>1, <2>5
    <3>2. Good(k)
      BY <3>1, <2>2, <2>3, <2>5
    <3> QED BY <3>2, <2>1 DEF G
  <2>6. CASE x.id # i
    <3>1. w[k] = Append(a, x) /\ FirstOf(d, k) = Append(p, x)
      BY <2>1, <2>6
    <3>2. PlacesOf(w[k], i) = {}
      BY <3>1, <2>2, <2>4, <2>6
    <3>3. ASSUME NEW j, j # i
          PROVE  /\ Find(w[k], j) = Find(FirstOf(d, k), j)
                 /\ PlacesOf(w[k], j) = {} <=> PlacesOf(FirstOf(d, k), j) = {}
      <4>1. Find(w[k], j) = Find(FirstOf(d, k), j)
        BY <3>1, <3>3, <2>2, <2>3, <2>4
      <4>2. PlacesOf(w[k], j) = {} <=> PlacesOf(FirstOf(d, k), j) = {}
        BY <3>1, <3>3, <2>2, <2>3, <2>4
      <4> QED BY <4>1, <4>2
    <3>4. NoTwins(FirstOf(d, k)) => NoTwins(w[k])
      BY <3>1, <2>2, <2>3, <2>4, <2>6
    <3>5. Good(k)
      BY <3>2, <3>3, <3>4
    <3> QED BY <3>5, <2>1 DEF G
  <2> QED BY <2>5, <2>6
<1> HIDE DEF G
<1>5. n \in G
  <2>1. \A k \in 1 .. n : k - 1 \in G => k \in G
    BY <1>4
  <2>2. \A k \in 0 .. n : k \in G
    BY <2>1, <1>2, <1>3, UpTo
  <2> QED BY <2>2, <1>2
<1>6. Good(n)
  BY <1>5 DEF G
<1>7. FirstOf(d, n) = d /\ w[n] \in Seq(Items)
  BY <1>1, <1>2, FirstOfAll DEF n
<1> QED BY <1>1, <1>6, <1>7

(* A rule that is saved is found, and the answers about the others stay. *)
LEMMA UpsertFinds ==
  ASSUME NEW d \in Seq(Items), NEW it \in Items
  PROVE  /\ Upsert(d, it) \in Seq(Items)
         /\ Find(Upsert(d, it), it.id) = it.body
         /\ \A j : j # it.id => Find(Upsert(d, it), j) = Find(d, j)
         /\ format = "xml" /\ NoTwins(d) => NoTwins(Upsert(d, it))
<1>1. CASE format = "xml"
  <2> DEFINE e == Without(d, it.id)
  <2>1. /\ e \in Seq(Items) /\ PlacesOf(e, it.id) = {}
        /\ \A j : j # it.id => Find(e, j) = Find(d, j)
        /\ NoTwins(d) => NoTwins(e)
    BY WithoutFinds
  <2>2. Upsert(d, it) = Append(e, it)
    BY <1>1 DEF Upsert
  <2> HIDE DEF e
  <2>3. /\ Append(e, it) \in Seq(Items)
        /\ \A j : Find(Append(e, it), j) =
                     IF PlacesOf(e, j) = {} /\ it.id = j THEN it.body ELSE Find(e, j)
        /\ NoTwins(Append(e, it)) <=> NoTwins(e) /\ PlacesOf(e, it.id) = {}
    BY <2>1, FindAppend
  <2> QED BY <2>1, <2>2, <2>3
<1>2. CASE format # "xml" /\ PlacesOf(d, it.id) = {}
  <2>1. Upsert(d, it) = Append(d, it)
    BY <1>2 DEF Upsert
  <2>2. /\ Append(d, it) \in Seq(Items)
        /\ \A j : Find(Append(d, it), j) =
                     IF PlacesOf(d, j) = {} /\ it.id = j THEN it.body ELSE Find(d, j)
    BY FindAppend
  <2> QED BY <1>2, <2>1, <2>2
<1>3. CASE format # "xml" /\ PlacesOf(d, it.id) # {}
  <2> DEFINE p == FirstPlace(d, it.id)
             e == [d EXCEPT ![p] = it]
  <2>1. p \in PlacesOf(d, it.id) /\ \A m \in PlacesOf(d, it.id) : p <= m
    BY <1>3, FirstPlaceIsFirst
  <2>2. Upsert(d, it) = e
    BY <1>3 DEF Upsert
  <2> HIDE DEF p
  <2>3. /\ e \in Seq(Items) /\ DOMAIN e = DOMAIN d /\ p \in DOMAIN d /\ d[p].id = it.id /\ e[p] = it
        /\ \A k \in DOMAIN d : k # p => e[k] = d[k]
    BY <2>1 DEF PlacesOf
  <2> HIDE DEF e
  <2>4. \A j : PlacesOf(e, j) = PlacesOf(d, j)
    BY <2>3 DEF PlacesOf
  <2>5. Find(e, it.id) = it.body
    BY <2>1, <2>3, <2>4, FoundAt
  <2>6. ASSUME NEW j, j # it.id PROVE Find(e, j) = Find(d, j)
    <3>1. CASE PlacesOf(d, j) = {}
      BY <3>1, <2>4 DEF Find
    <3>2. CASE PlacesOf(d, j) # {}
      <4> DEFINE q == FirstPlace(d, j)
      <4>1. q \in PlacesOf(d, j) /\ \A m \in PlacesOf(d, j) : q <= m
        BY <3>2, FirstPlaceIsFirst
      <4> HIDE DEF q
      <4>2. Find(d, j) = d[q].body /\ Find(e, j) = e[q].body
        BY <4>1, <2>3, <2>4, FoundAt
      <4>3. q # p /\ q \in DOMAIN d
        BY <4>1, <2>3, <2>6 DEF PlacesOf
      <4> QED BY <4>2, <4>3, <2>3
    <3> QED BY <3>1, <3>2
  <2> QED BY <1>3, <2>2, <2>3, <2>5, <2>6
<1> QED BY <1>1, <1>2, <1>3

(* What a repository can have been told about an id. *)
Notes == Bodies \cup {"unknown", "removed"}

(* The two scans of save(): the items one after the other. *)
LEMMA UpsertAllUnfolds ==
  ASSUME NEW d \in Seq(Items), NEW items \in Seq(Items)
  PROVE  \E u \in [0 .. Len(items) -> Seq(Items)] :
           /\ u[0] = d /\ UpsertAll(d, items) = u[Len(items)]
           /\ \A k \in 1 .. Len(items) : u[k] = Upsert(u[k - 1], items[k])
<1> DEFINE n == Len(items)
           T == Seq(Items)
           W(w) == w = [k \in 0 .. n |-> IF k = 0 THEN d ELSE Upsert(w[k - 1], items[k])]
           g == [p \in (1 .. n) \X T |-> Upsert(p[2], items[p[1]])]
<1>1. n \in Nat /\ d \in T /\ \A k \in 1 .. n : items[k] \in Items
  OBVIOUS
<1>2. \A k \in 1 .. n : \A t \in T : Upsert(t, items[k]) \in T
  BY <1>1, UpsertFinds
<1>3. g \in StepFunctions(n, T) /\ \A k \in 1 .. n : \A t \in T : g[<<k, t>>] = Upsert(t, items[k])
  BY <1>2 DEF StepFunctions
<1> HIDE DEF g, n, T
<1>4. PICK v \in [0 .. n -> T] : v[0] = d /\ \A k \in 1 .. n : v[k] = g[<<k, v[k - 1]>>]
  <2>1. HasScan(T, d, n, g)
    BY <1>1, <1>3, ScanExists
  <2> QED BY <2>1 DEF HasScan
<1>5. \A k \in 1 .. n : k - 1 \in 0 .. n /\ k \in 0 .. n /\ k # 0
  BY <1>1
<1>6. \A k \in 1 .. n : v[k] = Upsert(v[k - 1], items[k])
  BY <1>3, <1>4, <1>5
<1>7. W(v)
  <2>1. \A k \in 0 .. n : k = 0 \/ k \in 1 .. n
    BY <1>1
  <2>2. \A k \in 0 .. n : v[k] = IF k = 0 THEN d ELSE Upsert(v[k - 1], items[k])
    BY <2>1, <1>4, <1>6
  <2> QED BY <2>2, <1>4
<1> DEFINE u == CHOOSE w : W(w)
<1>8. W(u)
  BY <1>7
<1>9. UpsertAll(d, items) = u[n]
  BY DEF UpsertAll, n
<1> HIDE DEF u
<1>10. DOMAIN u = 0 .. n /\ u[0] = d /\ \A k \in 1 .. n : u[k] = Upsert(u[k - 1], items[k])
  <2>1. 0 \in 0 .. n
    BY <1>1
  <2> QED BY <2>1, <1>5, <1>8
<1>11. \A k \in 0 .. n : u[k] \in T
  <2> DEFINE G == {m \in 0 .. n : u[m] \in T}
  <2>1. 0 \in G
    BY <1>1, <1>10
  <2>2. \A k \in 1 .. n : k - 1 \in G => k \in G
    BY <1>2, <1>5, <1>10
  <2> HIDE DEF G
  <2>3. \A k \in 0 .. n : k \in G
    BY <2>1, <2>2, <1>1, UpTo
  <2> QED BY <2>3 DEF G
<1>12. u \in [0 .. n -> T]
  <2>1. u = [k \in 0 .. n |-> u[k]]
    BY <1>8, <1>10
  <2> QED BY <2>1, <1>11
<1> QED BY <1>9, <1>10, <1>12 DEF n, T

(* What the recursion of Told gives. *)
LEMMA ToldUnfolds ==
  ASSUME NEW l \in [Ids -> Notes], NEW items \in Seq(Items)
  PROVE  \E u \in [0 .. Len(items) -> [Ids -> Notes]] :
           /\ u[0] = l /\ Told(l, items) = u[Len(items)]
           /\ \A k \in 1 .. Len(items) : u[k] = [u[k - 1] EXCEPT ![items[k].id] = items[k].body]
<1> DEFINE n == Len(items)
           T == [Ids -> Notes]
           S(t, k) == [t EXCEPT ![items[k].id] = items[k].body]
           W(w) == w = [k \in 0 .. n |-> IF k = 0 THEN l ELSE S(w[k - 1], k)]
           g == [p \in (1 .. n) \X T |-> S(p[2], p[1])]
<1>1. n \in Nat /\ l \in T /\ \A k \in 1 .. n : items[k] \in Items
  OBVIOUS
<1>2. \A k \in 1 .. n : \A t \in T : S(t, k) \in T
  <2> SUFFICES ASSUME NEW k \in 1 .. n, NEW t \in T PROVE S(t, k) \in T
    OBVIOUS
  <2>1. items[k].id \in Ids /\ items[k].body \in Notes
    BY <1>1 DEF Items, Notes
  <2> QED BY <2>1
<1> HIDE DEF S
<1>3. g \in StepFunctions(n, T) /\ \A k \in 1 .. n : \A t \in T : g[<<k, t>>] = S(t, k)
  <2> HIDE DEF T
  <2> QED BY <1>2 DEF StepFunctions
<1> HIDE DEF g, n, T
<1>4. PICK v \in [0 .. n -> T] : v[0] = l /\ \A k \in 1 .. n : v[k] = g[<<k, v[k - 1]>>]
  <2>1. HasScan(T, l, n, g)
    BY <1>1, <1>3, ScanExists
  <2> QED BY <2>1 DEF HasScan
<1>5. \A k \in 1 .. n : k - 1 \in 0 .. n /\ k \in 0 .. n /\ k # 0
  BY <1>1
<1>6. \A k \in 1 .. n : v[k] = S(v[k - 1], k)
  BY <1>3, <1>4, <1>5
<1>7. W(v)
  <2>1. \A k \in 0 .. n : k = 0 \/ k \in 1 .. n
    BY <1>1
  <2>2. \A k \in 0 .. n : v[k] = IF k = 0 THEN l ELSE S(v[k - 1], k)
    BY <2>1, <1>4, <1>6
  <2> QED BY <2>2, <1>4
<1> DEFINE u == CHOOSE w : W(w)
<1>8. W(u)
  BY <1>7
<1>9. Told(l, items) = u[n]
  BY DEF Told, n, S
<1> HIDE DEF u
<1>10. DOMAIN u = 0 .. n /\ u[0] = l /\ \A k \in 1 .. n : u[k] = S(u[k - 1], k)
  <2>1. 0 \in 0 .. n
    BY <1>1
  <2> QED BY <2>1, <1>5, <1>8
<1>11. \A k \in 0 .. n : u[k] \in T
  <2> DEFINE G == {m \in 0 .. n : u[m] \in T}
  <2>1. 0 \in G
    BY <1>1, <1>10
  <2>2. \A k \in 1 .. n : k - 1 \in G => k \in G
    BY <1>2, <1>5, <1>10
  <2> HIDE DEF G
  <2>3. \A k \in 0 .. n : k \in G
    BY <2>1, <2>2, <1>1, UpTo
  <2> QED BY <2>3 DEF G
<1>12. u \in [0 .. n -> T]
  <2>1. u = [k \in 0 .. n |-> u[k]]
    BY <1>8, <1>10
  <2> QED BY <2>1, <1>11
<1> QED BY <1>9, <1>10, <1>12 DEF n, T, S

(* The memory answers as the notes say. *)
Answers(d, l) ==
  \A i \in Ids :
    l[i] # "unknown" => Find(d, i) = IF l[i] = "removed" THEN Absent ELSE l[i]

(* save of a rule with its children: afterwards the repository answers     *)
(* with what it was told last about each of them, and as before about the  *)
(* others.                                                                 *)
LEMMA SaveAnswers ==
  ASSUME NEW d \in Seq(Items), NEW l \in [Ids -> Notes], NEW items \in Seq(Items),
         Answers(d, l), format = "xml" => NoTwins(d)
  PROVE  /\ UpsertAll(d, items) \in Seq(Items) /\ Told(l, items) \in [Ids -> Notes]
         /\ Answers(UpsertAll(d, items), Told(l, items))
         /\ format = "xml" => NoTwins(UpsertAll(d, items))
<1> DEFINE n == Len(items)
<1>0. n \in Nat
  OBVIOUS
<1>1. PICK u \in [0 .. n -> Seq(Items)] :
        /\ u[0] = d /\ UpsertAll(d, items) = u[n]
        /\ \A k \in 1 .. n : u[k] = Upsert(u[k - 1], items[k])
  BY UpsertAllUnfolds
<1>2. PICK t \in [0 .. n -> [Ids -> Notes]] :
        /\ t[0] = l /\ Told(l, items) = t[n]
        /\ \A k \in 1 .. n : t[k] = [t[k - 1] EXCEPT ![items[k].id] = items[k].body]
  BY ZenonT(30), ToldUnfolds
<1>3. \A k \in 1 .. n : items[k] \in Items
  OBVIOUS
<1> HIDE DEF n
<1> DEFINE Good(k) == Answers(u[k], t[k]) /\ (format = "xml" => NoTwins(u[k]))
           G == {k \in 0 .. n : Good(k)}
<1>4. 0 \in G
  BY <1>0, <1>1, <1>2
<1>5. ASSUME NEW k \in 1 .. n, k - 1 \in G PROVE k \in G
  <2> DEFINE a == u[k - 1]
             b == t[k - 1]
             it == items[k]
  <2>1. k \in 0 .. n /\ k - 1 \in 0 .. n
    BY <1>0
  <2>2. /\ a \in Seq(Items) /\ b \in [Ids -> Notes] /\ it \in Items
        /\ u[k] = Upsert(a, it) /\ t[k] = [b EXCEPT ![it.id] = it.body]
    BY <2>1, <1>1, <1>2, <1>3
  <2>3. Answers(a, b) /\ (format = "xml" => NoTwins(a))
    BY <1>5
  <2> HIDE DEF a, b, it, G
  <2>4. /\ Find(u[k], it.id) = it.body
        /\ \A j : j # it.id => Find(u[k], j) = Find(a, j)
        /\ format = "xml" /\ NoTwins(a) => NoTwins(u[k])
    BY <2>2, UpsertFinds
  <2>5. it.id \in Ids /\ it.body \in Bodies /\ it.body # "removed"
    BY <2>2, FilesAssumption DEF Items
  <2>6. t[k][it.id] = it.body /\ \A j \in Ids : j # it.id => t[k][j] = b[j]
    BY <2>2, <2>5
  <2>7. Answers(u[k], t[k])
    <3> SUFFICES ASSUME NEW j \in Ids, t[k][j] # "unknown"
                 PROVE  Find(u[k], j) = IF t[k][j] = "removed" THEN Absent ELSE t[k][j]
      BY DEF Answers
    <3>1. CASE j = it.id
      BY <3>1, <2>4, <2>5, <2>6
    <3>2. CASE j # it.id
      BY <3>2, <2>3, <2>4, <2>6 DEF Answers
    <3> QED BY <3>1, <3>2
  <2>8. Good(k)
    BY <2>3, <2>4, <2>7
  <2> QED BY <2>1, <2>8 DEF G
<1> HIDE DEF G
<1>6. Good(n)
  <2>1. \A k \in 1 .. n : k - 1 \in G => k \in G
    BY <1>5
  <2>2. \A k \in 0 .. n : k \in G
    BY <2>1, <1>0, <1>4, UpTo
  <2>3. n \in G
    BY <2>2, <1>0
  <2> QED BY <2>3 DEF G
<1>7. u[n] \in Seq(Items) /\ t[n] \in [Ids -> Notes]
  BY <1>0, <1>1, <1>2
<1> QED BY <1>1, <1>2, <1>6, <1>7

(* Taking the only rule with an id away. *)
LEMMA RemoveAtFinds ==
  ASSUME NEW d \in Seq(Items), NoTwins(d), NEW i, NEW p \in PlacesOf(d, i)
  PROVE  /\ RemoveAt(d, p) \in Seq(Items) /\ NoTwins(RemoveAt(d, p))
         /\ PlacesOf(RemoveAt(d, p), i) = {}
         /\ \A j : j # i => Find(RemoveAt(d, p), j) = Find(d, j)
<1> DEFINE n == Len(d)
           s == SubSeq(d, 1, p - 1)
           t == SubSeq(d, p + 1, n)
           e == s \o t
<1>1. n \in Nat /\ p \in 1 .. n /\ DOMAIN d = 1 .. n /\ d[p].id = i
  BY DEF PlacesOf
<1>2. /\ s \in Seq(Items) /\ Len(s) = p - 1 /\ \A k \in 1 .. p - 1 : s[k] = d[k]
  BY <1>1
<1>3. /\ t \in Seq(Items) /\ Len(t) = n - p /\ \A k \in 1 .. n - p : t[k] = d[k + p]
  <2>1. /\ p + 1 \in Nat /\ n - p \in Nat /\ \A k \in 1 .. n - p : k + p \in 1 .. n /\ p + 1 + k - 1 = k + p
        /\ \A k \in p + 1 .. n : k \in 1 .. n
    BY <1>1
  <2>2. t \in Seq(Items)
    BY <2>1, <1>1
  <2>3. Len(t) = n - p
    <3>1. \A k \in p + 1 .. n : d[k] \in Items
      BY <2>1, <1>1
    <3>2. Len(t) = IF p + 1 <= n THEN n - (p + 1) + 1 ELSE 0
      BY <2>1, <3>1, <1>1, SubSeqProperties
    <3> HIDE DEF n, t
    <3>3. n \in Nat /\ p \in Nat /\ p <= n
      BY <1>1
    <3>4. CASE p + 1 <= n
      <4>1. n - (p + 1) + 1 = n - p
        BY <3>3
      <4> QED BY <3>2, <3>4, <4>1
    <3>5. CASE ~(p + 1 <= n)
      <4>1. n - p = 0
        BY <3>3, <3>5
      <4> QED BY <3>2, <3>5, <4>1
    <3> QED BY <3>4, <3>5
  <2>4. \A k \in 1 .. n - p : t[k] = d[k + p]
    <3>1. \A k \in p + 1 .. n : d[k] \in Items
      BY <2>1, <1>1
    <3>2. \A k \in 1 .. n - (p + 1) + 1 : t[k] = d[(p + 1) + k - 1]
      BY <2>1, <3>1, <1>1, SubSeqProperties
    <3>3. n - (p + 1) + 1 = n - p /\ \A k \in 1 .. n - p : (p + 1) + k - 1 = k + p
      BY <1>1
    <3> HIDE DEF n, t
    <3> QED BY <3>2, <3>3
  <2> QED BY <2>2, <2>3, <2>4
<1> HIDE DEF n, s, t
<1>4. e \in Seq(Items) /\ Len(e) = n - 1
  <2>1. (p - 1) + (n - p) = n - 1
    BY <1>1
  <2>2. e \in Seq(Items) /\ Len(e) = Len(s) + Len(t)
    BY <1>2, <1>3, ConcatProperties
  <2> QED BY <2>1, <2>2, <1>2, <1>3
<1>5. /\ \A k \in 1 .. p - 1 : e[k] = d[k]
      /\ \A k \in p .. n - 1 : e[k] = d[k + 1]
  <2>1. ASSUME NEW k \in 1 .. p - 1 PROVE e[k] = d[k]
    BY <1>2, <1>3, ConcatProperties
  <2>2. ASSUME NEW k \in p .. n - 1 PROVE e[k] = d[k + 1]
    <3>1. k \in 1 .. (p - 1) + (n - p) /\ ~(k <= p - 1) /\ k - (p - 1) \in 1 .. n - p
          /\ k - (p - 1) + p = k + 1
      BY <1>1
    <3>2. e[k] = t[k - (p - 1)]
      BY <3>1, <1>2, <1>3, ConcatProperties
    <3> QED BY <3>1, <3>2, <1>3
  <2> QED BY <2>1, <2>2
<1>6. DOMAIN e = 1 .. n - 1
  BY <1>4
<1> HIDE DEF e
<1>7. \A k \in 1 .. n - 1 : (k \in 1 .. p - 1 \/ k \in p .. n - 1)
  BY <1>1
<1> DEFINE from(k) == IF k \in 1 .. p - 1 THEN k ELSE k + 1
<1>8. \A k \in DOMAIN e : e[k] = d[from(k)] /\ from(k) \in DOMAIN d /\ from(k) # p
  <2> SUFFICES ASSUME NEW k \in 1 .. n - 1 PROVE e[k] = d[from(k)] /\ from(k) \in 1 .. n /\ from(k) # p
    BY <1>1, <1>6
  <2>1. from(k) \in 1 .. n /\ from(k) # p
    BY <1>1
  <2> QED BY <2>1, <1>5, <1>7
<1>9. \A k, m \in DOMAIN e : from(k) = from(m) => k = m
  BY <1>1, <1>6
<1>10. \A q \in DOMAIN d : q # p => \E k \in DOMAIN e : from(k) = q
  <2> SUFFICES ASSUME NEW q \in 1 .. n, q # p PROVE \E k \in 1 .. n - 1 : from(k) = q
    BY <1>1, <1>6
  <2>1. CASE q < p
    <3>1. q \in 1 .. n - 1 /\ q \in 1 .. p - 1
      BY <2>1, <1>1
    <3> QED BY <3>1
  <2>2. CASE q > p
    <3>1. q - 1 \in 1 .. n - 1 /\ ~(q - 1 \in 1 .. p - 1) /\ q - 1 + 1 = q
      BY <2>2, <1>1
    <3> QED BY <3>1
  <2> QED BY <2>1, <2>2, <1>1
<1> HIDE DEF from
<1>11. NoTwins(e)
  BY <1>8, <1>9 DEF NoTwins
<1>12. PlacesOf(e, i) = {}
  <2> SUFFICES ASSUME NEW k \in DOMAIN e, e[k].id = i PROVE FALSE
    BY DEF PlacesOf
  <2> QED BY <1>1, <1>8 DEF NoTwins
<1>13. ASSUME NEW j, j # i PROVE Find(e, j) = Find(d, j)
  <2>1. CASE PlacesOf(d, j) = {}
    <3>1. PlacesOf(e, j) = {}
      BY <2>1, <1>8 DEF PlacesOf
    <3> QED BY <2>1, <3>1 DEF Find
  <2>2. CASE PlacesOf(d, j) # {}
    <3>1. PICK q \in PlacesOf(d, j) : TRUE
      BY <2>2
    <3>2. q # p /\ q \in DOMAIN d /\ d[q].id = j
      BY <3>1, <1>1, <1>13 DEF PlacesOf
    <3>3. PICK k \in DOMAIN e : from(k) = q
      BY <3>2, <1>10
    <3>4. e[k] = d[q] /\ k \in PlacesOf(e, j) /\ k \in Nat /\ q \in Nat
      BY <3>2, <3>3, <1>1, <1>6, <1>8 DEF PlacesOf
    <3>5. (\A m \in PlacesOf(d, j) : m = q) /\ (\A m \in PlacesOf(e, j) : m = k)
      BY <3>2, <3>4, <1>11 DEF PlacesOf, NoTwins
    <3>6. Find(d, j) = d[q].body /\ Find(e, j) = e[k].body
      BY <3>1, <3>4, <3>5, <1>4, FoundAt
    <3> QED BY <3>4, <3>6
  <2> QED BY <2>1, <2>2
<1> QED BY <1>4, <1>11, <1>12, <1>13 DEF RemoveAt, e, s, t, n

-----------------------------------------------------------------------------
(* An XML repository never holds an id twice, in memory or in a file. *)
XmlHasNoTwins ==
  format = "xml" =>
    /\ file \notin {Absent, Torn} => NoTwins(file)
    /\ \A r \in Repos : NoTwins(data[r]) /\ (temp[r] \notin {Absent, Torn} => NoTwins(temp[r]))

(* A repository that is not there was told nothing. *)
ClosedKnowsNothing == \A r \in Repos : pc[r] = "closed" => last[r] = NothingKnown

(* The memory of every repository answers as it was last told. *)
MemoryAnswers == \A r \in Repos : Answers(data[r], last[r])

(* The inductive invariant for the answers.  It needs the types, that an   *)
(* XML file never holds twins (remove takes only the first away), and that *)
(* a closed repository was told nothing.                                   *)
AnswersInv == TypeOK /\ XmlHasNoTwins /\ ClosedKnowsNothing /\ MemoryAnswers

(* Nothing is claimed of what was never told. *)
LEMMA NothingAnswers ==
  /\ NothingKnown \in [Ids -> Notes] /\ NoTwins(<< >>)
  /\ \A d : Answers(d, NothingKnown)
  BY DEF NothingKnown, Notes, NoTwins, Answers

(* At first nobody was told anything. *)
LEMMA AnswersInitInv == Init => AnswersInv
<1> SUFFICES ASSUME Init PROVE AnswersInv
  OBVIOUS
<1>1. file \in Contents /\ Absent \in Contents
  BY FilesAssumption DEF Init, Contents
<1>2. TypeOK
  BY <1>1, NothingAnswers DEF Init, TypeOK, Notes
<1>3. XmlHasNoTwins
  <2>1. format = "xml" /\ file \notin {Absent, Torn} => NoTwins(file)
    BY <1>1 DEF Init, Contents, HasTwins, NoTwins
  <2> QED BY <2>1, NothingAnswers DEF Init, XmlHasNoTwins
<1>4. ClosedKnowsNothing /\ MemoryAnswers
  BY NothingAnswers DEF Init, ClosedKnowsNothing, MemoryAnswers
<1> QED BY <1>2, <1>3, <1>4 DEF AnswersInv

(* A repository that goes away, by its destructor or a crash. *)
LEMMA GoneAnswers ==
  ASSUME AnswersInv, NEW r \in Repos, Gone(r), format' = format, file' \in Contents,
         format = "xml" /\ file' \notin {Absent, Torn} => NoTwins(file')
  PROVE  AnswersInv'
<1>0. TypeOK /\ XmlHasNoTwins /\ ClosedKnowsNothing /\ MemoryAnswers
  BY DEF AnswersInv
<1>1. TypeOK'
  BY <1>0, NothingAnswers DEF Gone, TypeOK, Contents, Notes
<1>2. XmlHasNoTwins'
  BY <1>0, NothingAnswers DEF Gone, XmlHasNoTwins, TypeOK
<1>3. ClosedKnowsNothing'
  BY <1>0 DEF Gone, ClosedKnowsNothing, TypeOK
<1>4. MemoryAnswers'
  <2> SUFFICES ASSUME NEW q \in Repos PROVE Answers(data'[q], last'[q])
    BY DEF MemoryAnswers, Answers, Find, FirstPlace, PlacesOf
  <2>1. CASE q = r
    BY <2>1, <1>0, NothingAnswers DEF Gone, TypeOK
  <2>2. CASE q # r
    BY <2>2, <1>0 DEF Gone, TypeOK, MemoryAnswers
  <2> QED BY <2>1, <2>2
<1> QED BY <1>1, <1>2, <1>3, <1>4 DEF AnswersInv

(* The memory of one repository changes, and its notes with it. *)
LEMMA ChangeAnswers ==
  ASSUME AnswersInv, NEW r \in Repos, pc[r] = "open",
         NEW d \in Seq(Items), NEW l \in [Ids -> Notes],
         data' = [data EXCEPT ![r] = d], last' = [last EXCEPT ![r] = l],
         Answers(d, l), format = "xml" => NoTwins(d),
         dirty' \in [Repos -> BOOLEAN], changed' \in [Repos -> BOOLEAN],
         UNCHANGED <<format, file, temp, pc, closing>>
  PROVE  AnswersInv'
<1>0. TypeOK /\ XmlHasNoTwins /\ ClosedKnowsNothing /\ MemoryAnswers
  BY DEF AnswersInv
<1>1. TypeOK'
  BY <1>0 DEF TypeOK, Notes
<1>2. XmlHasNoTwins' /\ ClosedKnowsNothing'
  BY <1>0 DEF XmlHasNoTwins, ClosedKnowsNothing, TypeOK
<1>3. MemoryAnswers'
  <2> SUFFICES ASSUME NEW q \in Repos PROVE Answers(data'[q], last'[q])
    BY DEF MemoryAnswers, Answers, Find, FirstPlace, PlacesOf
  <2>1. CASE q = r
    BY <2>1, <1>0 DEF TypeOK
  <2>2. CASE q # r
    BY <2>2, <1>0 DEF TypeOK, MemoryAnswers
  <2> QED BY <2>1, <2>2
<1> QED BY <1>1, <1>2, <1>3 DEF AnswersInv

(* save keeps the answers current. *)
LEMMA SaveInv ==
  ASSUME AnswersInv, NEW r \in Repos, NEW rule \in SavedRules, Save(r, rule)
  PROVE  AnswersInv'
<1>0. TypeOK /\ XmlHasNoTwins /\ MemoryAnswers
  BY DEF AnswersInv
<1> DEFINE items == ItemsOf(rule)
           d == UpsertAll(data[r], items)
           l == Told(last[r], items)
<1>1. items \in Seq(Items)
  <2>1. rule \in [id : Ids, body : Bodies, children : Seq(Items)]
    BY FilesAssumption
  <2>2. [id |-> rule.id, body |-> rule.body] \in Items
    BY <2>1 DEF Items
  <2> QED BY <2>1, <2>2, ConcatProperties DEF ItemsOf
<1>2. data[r] \in Seq(Items) /\ last[r] \in [Ids -> Notes]
      /\ Answers(data[r], last[r]) /\ (format = "xml" => NoTwins(data[r]))
  BY <1>0 DEF TypeOK, Notes, MemoryAnswers, XmlHasNoTwins
<1>3. /\ d \in Seq(Items) /\ l \in [Ids -> Notes] /\ Answers(d, l)
      /\ format = "xml" => NoTwins(d)
  <2> HIDE DEF items
  <2> QED BY <1>1, <1>2, SaveAnswers
<1>4. /\ pc[r] = "open" /\ data' = [data EXCEPT ![r] = d] /\ last' = [last EXCEPT ![r] = l]
      /\ UNCHANGED <<format, file, temp, pc, closing>>
  BY DEF Save
<1>5. dirty' \in [Repos -> BOOLEAN] /\ changed' \in [Repos -> BOOLEAN]
  BY <1>0 DEF Save, TypeOK
<1> HIDE DEF d, l
<1> QED BY <1>3, <1>4, <1>5, ChangeAnswers

(* remove keeps the answers current: of twins JSON erases all, and XML has *)
(* none.                                                                   *)
LEMMA RemoveInv ==
  ASSUME AnswersInv, NEW r \in Repos, NEW i \in Ids, RemoveRule(r, i)
  PROVE  AnswersInv'
<1>0. TypeOK /\ XmlHasNoTwins /\ MemoryAnswers
  BY DEF AnswersInv
<1> DEFINE c == data[r]
           d == IF PlacesOf(c, i) = {} THEN c
                ELSE IF format = "json" THEN Without(c, i)
                ELSE RemoveAt(c, FirstPlace(c, i))
           l == [last[r] EXCEPT ![i] = "removed"]
<1>1. c \in Seq(Items) /\ last[r] \in [Ids -> Notes]
      /\ Answers(c, last[r]) /\ (format = "xml" => NoTwins(c)) /\ format \in {"json", "xml"}
  BY <1>0 DEF TypeOK, Notes, MemoryAnswers, XmlHasNoTwins, Formats
<1>2. /\ pc[r] = "open" /\ data' = [data EXCEPT ![r] = d] /\ last' = [last EXCEPT ![r] = l]
      /\ UNCHANGED <<format, file, temp, pc, closing>>
  <2>1. last' = [last EXCEPT ![r][i] = "removed"]
    BY DEF RemoveRule
  <2>2. last' = [last EXCEPT ![r] = l]
    BY <2>1
  <2> QED BY <2>2 DEF RemoveRule
<1>3. dirty' \in [Repos -> BOOLEAN] /\ changed' \in [Repos -> BOOLEAN]
  BY <1>0 DEF RemoveRule, TypeOK
<1> HIDE DEF c
<1>4. d \in Seq(Items) /\ PlacesOf(d, i) = {} /\ (\A j : j # i => Find(d, j) = Find(c, j))
      /\ (format = "xml" => NoTwins(d))
  <2>1. CASE PlacesOf(c, i) = {}
    BY <2>1, <1>1
  <2>2. CASE PlacesOf(c, i) # {} /\ format = "json"
    <3>1. d = Without(c, i)
      BY <2>2
    <3> HIDE DEF d
    <3> QED BY <2>2, <3>1, <1>1, WithoutFinds
  <2>3. CASE PlacesOf(c, i) # {} /\ format = "xml"
    <3>1. d = RemoveAt(c, FirstPlace(c, i))
      BY <2>3
    <3>2. FirstPlace(c, i) \in PlacesOf(c, i)
      BY <2>3, <1>1, FirstPlaceIsFirst
    <3> HIDE DEF d
    <3> QED BY <2>3, <3>1, <3>2, <1>1, RemoveAtFinds
  <2> QED BY <2>1, <2>2, <2>3, <1>1
<1>5. l \in [Ids -> Notes] /\ l[i] = "removed" /\ \A j \in Ids : j # i => l[j] = last[r][j]
  BY <1>1 DEF Notes
<1> HIDE DEF d, l
<1>6. Answers(d, l)
  <2> SUFFICES ASSUME NEW j \in Ids, l[j] # "unknown"
               PROVE  Find(d, j) = IF l[j] = "removed" THEN Absent ELSE l[j]
    BY DEF Answers
  <2>1. CASE j = i
    BY <2>1, <1>4, <1>5 DEF Find
  <2>2. CASE j # i
    BY <2>2, <1>1, <1>4, <1>5 DEF Answers
  <2> QED BY <2>1, <2>2
<1> QED BY <1>2, <1>3, <1>4, <1>5, <1>6, ChangeAnswers

(* Steps that leave memory alone leave the answers alone. *)
LEMMA SameMemory == ASSUME MemoryAnswers, UNCHANGED <<data, last>> PROVE MemoryAnswers'
<1>1. data' = data /\ last' = last
  OBVIOUS
<1> SUFFICES ASSUME NEW q \in Repos PROVE Answers(data'[q], last'[q])
  BY DEF MemoryAnswers
<1> QED BY <1>1 DEF MemoryAnswers

(* The end of a flush, whether the file was replaced or the write failed. *)
LEMMA AfterFlushAnswers ==
  ASSUME AnswersInv, NEW r \in Repos, pc[r] \in {"write", "rename"},
         NEW b \in BOOLEAN, NEW c \in BOOLEAN, AfterFlush(r, b, c),
         format' = format, file' \in Contents,
         format = "xml" /\ file' \notin {Absent, Torn} => NoTwins(file')
  PROVE  AnswersInv'
<1>1. CASE closing[r]
  BY <1>1, GoneAnswers DEF AfterFlush
<1>2. CASE ~closing[r]
  <2>0. TypeOK /\ XmlHasNoTwins /\ ClosedKnowsNothing /\ MemoryAnswers
    BY DEF AnswersInv
  <2>1. TypeOK'
    BY <2>0, <1>2 DEF AfterFlush, TypeOK, Contents
  <2>2. XmlHasNoTwins'
    BY <2>0, <1>2 DEF AfterFlush, TypeOK, XmlHasNoTwins
  <2>3. ClosedKnowsNothing'
    BY <2>0, <1>2 DEF AfterFlush, TypeOK, ClosedKnowsNothing
  <2>4. MemoryAnswers'
    BY <2>0, <1>2, SameMemory DEF AfterFlush
  <2> QED BY <2>1, <2>2, <2>3, <2>4 DEF AnswersInv
<1> QED BY <1>1, <1>2

(* load(): what the file holds, nothing, or the first rules of a torn      *)
(* file.                                                                   *)
LEMMA OpenAnswers == ASSUME AnswersInv, NEW r \in Repos, Open(r) PROVE AnswersInv'
<1>0. TypeOK /\ XmlHasNoTwins /\ ClosedKnowsNothing /\ MemoryAnswers
  BY DEF AnswersInv
<1>1. PICK d \in Loaded(file) : data' = [data EXCEPT ![r] = d]
  BY DEF Open
<1>2. d \in Seq(Items) /\ (format = "xml" => NoTwins(d))
  <2>0. << >> \in Seq(Items) /\ NoTwins(<< >>)
    BY DEF NoTwins
  <2>1. CASE file = Absent
    <3>1. d = << >>
      BY <2>1, FilesAssumption DEF Loaded
    <3> QED BY <2>0, <3>1
  <2>2. CASE file # Absent /\ file = Torn
    <3>1. d = << >> \/ \E it \in Items : d = <<it>>
      BY <2>2 DEF Loaded
    <3>2. ASSUME NEW it \in Items PROVE <<it>> \in Seq(Items) /\ NoTwins(<<it>>)
      <4>1. <<it>> \in Seq(Items)
        OBVIOUS
      <4> QED BY <4>1 DEF NoTwins
    <3> QED BY <2>0, <3>1, <3>2
  <2>3. CASE file # Absent /\ file # Torn
    <3>1. d = file \/ d = << >>
      BY <2>3 DEF Loaded
    <3>2. file \in Seq(Items)
      BY <2>3, <1>0 DEF TypeOK, Contents
    <3> QED BY <2>0, <2>3, <3>1, <3>2, <1>0 DEF XmlHasNoTwins
  <2> QED BY <2>1, <2>2, <2>3
<1>3. last[r] = NothingKnown
  BY <1>0 DEF Open, ClosedKnowsNothing
<1>4. TypeOK'
  BY <1>0, <1>1, <1>2 DEF Open, TypeOK
<1>5. XmlHasNoTwins'
  BY <1>0, <1>1, <1>2 DEF Open, XmlHasNoTwins, TypeOK
<1>6. ClosedKnowsNothing'
  BY <1>0 DEF Open, ClosedKnowsNothing, TypeOK
<1>7. MemoryAnswers'
  <2> SUFFICES ASSUME NEW q \in Repos PROVE Answers(data'[q], last'[q])
    BY DEF MemoryAnswers, Answers, Find, FirstPlace, PlacesOf
  <2>1. CASE q = r
    BY <2>1, <1>3, NothingAnswers DEF Open
  <2>2. CASE q # r
    BY <2>2, <1>0, <1>1 DEF Open, TypeOK, MemoryAnswers
  <2> QED BY <2>1, <2>2
<1> QED BY <1>4, <1>5, <1>6, <1>7 DEF AnswersInv

(* Every step keeps the answers current. *)
LEMMA AnswersNextInv == AnswersInv /\ [Next]_vars => AnswersInv'
<1> SUFFICES ASSUME AnswersInv, [Next]_vars PROVE AnswersInv'
  OBVIOUS
<1>0. TypeOK /\ XmlHasNoTwins /\ ClosedKnowsNothing /\ MemoryAnswers
  BY DEF AnswersInv
<1>1. CASE UNCHANGED vars
  <2>1. TypeOK'
    BY <1>0, <1>1 DEF vars, TypeOK
  <2>2. XmlHasNoTwins'
    BY <1>0, <1>1 DEF vars, XmlHasNoTwins
  <2>3. ClosedKnowsNothing'
    BY <1>0, <1>1 DEF vars, ClosedKnowsNothing
  <2>4. MemoryAnswers'
    BY <1>0, <1>1, SameMemory DEF vars
  <2> QED BY <2>1, <2>2, <2>3, <2>4 DEF AnswersInv
<1>2. ASSUME file' = file PROVE file' \in Contents
                                /\ (format = "xml" /\ file' \notin {Absent, Torn} => NoTwins(file'))
  BY <1>0, <1>2 DEF TypeOK, XmlHasNoTwins
<1>3. ASSUME NEW r \in Repos, CloseClean(r) \/ Crash(r) PROVE AnswersInv'
  <2>1. Gone(r) /\ format' = format /\ file' = file
    BY <1>3 DEF CloseClean, Crash
  <2> QED BY <2>1, <1>2, GoneAnswers
<1>4. ASSUME NEW r \in Repos, NEW destructor \in BOOLEAN, BeginWrite(r, destructor) PROVE AnswersInv'
  <2>1. TypeOK'
    BY <1>0, <1>4 DEF BeginWrite, TypeOK, Contents
  <2>2. XmlHasNoTwins' /\ ClosedKnowsNothing'
    BY <1>0, <1>4 DEF BeginWrite, TypeOK, XmlHasNoTwins, ClosedKnowsNothing
  <2>3. MemoryAnswers'
    BY <1>0, <1>4, SameMemory DEF BeginWrite
  <2> QED BY <2>1, <2>2, <2>3 DEF AnswersInv
<1>5. ASSUME NEW r \in Repos, WriteTemp(r) PROVE AnswersInv'
  <2>1. TypeOK'
    BY <1>0, <1>5 DEF WriteTemp, TypeOK, Contents
  <2>2. XmlHasNoTwins' /\ ClosedKnowsNothing'
    BY <1>0, <1>5 DEF WriteTemp, TypeOK, XmlHasNoTwins, ClosedKnowsNothing
  <2>3. MemoryAnswers'
    BY <1>0, <1>5, SameMemory DEF WriteTemp
  <2> QED BY <2>1, <2>2, <2>3 DEF AnswersInv
<1>6. ASSUME NEW r \in Repos, WriteFails(r) \/ GiveUp(r) PROVE AnswersInv'
  <2>1. /\ pc[r] \in {"write", "rename"} /\ AfterFlush(r, TRUE, changed[r]) /\ format' = format
        /\ file' = file /\ changed[r] \in BOOLEAN
    BY <1>0, <1>6 DEF WriteFails, GiveUp, TypeOK
  <2> QED BY <2>1, <1>2, AfterFlushAnswers
<1>7. ASSUME NEW r \in Repos, Replace(r) PROVE AnswersInv'
  <2>1. /\ pc[r] \in {"write", "rename"} /\ AfterFlush(r, FALSE, FALSE) /\ format' = format
        /\ file' = temp[r]
    BY <1>7 DEF Replace
  <2>2. file' \in Contents /\ (format = "xml" /\ file' \notin {Absent, Torn} => NoTwins(file'))
    BY <2>1, <1>0 DEF TypeOK, XmlHasNoTwins
  <2> QED BY <2>1, <2>2, AfterFlushAnswers
<1> QED BY <1>1, <1>3, <1>4, <1>5, <1>6, <1>7, OpenAnswers, SaveInv, RemoveInv DEF Next, FlushStep

(* findById and exists answer with what this repository was told last, for *)
(* any rules saved with any children, files with twins, torn files, failed *)
(* writes, crashes and other writers of the file (json_repository.cpp,     *)
(* xml_repository.cpp: save, remove, load).                                *)
THEOREM CurrentAnswers == Spec => []AnswersAreCurrent
<1>1. AnswersInv => AnswersAreCurrent
  BY DEF AnswersInv, MemoryAnswers, Answers, AnswersAreCurrent
<1> QED BY <1>1, AnswersInitInv, AnswersNextInv, PTL DEF Spec

-----------------------------------------------------------------------------
(* The database repositories. *)

(* The tables: a row per rule, a position per workflow and rule. *)
RuleTables == UNION {[S -> {ToRow(r) : r \in RuleRecords}] : S \in SUBSET RuleIds}
MemberTables == UNION {[S -> Nat] : S \in SUBSET (FlowIds \X RuleIds)}
Tables == [rules : RuleTables, flows : SUBSET FlowIds, members : MemberTables,
           versions : SUBSET ({1} \X RuleIds)]

(* The first j rules of a list with their positions, and all of them. *)
OrderUpTo(rs, j) == {<<k, rs[k]>> : k \in 1 .. j}
OrderOf(rs) == OrderUpTo(rs, Len(rs))
NoMembers(db, f) == StoredOrder(db, f) = {}
NoneLeft(f) == NoMembers(committed, f) /\ NoMembers(session, f)

(* Thread u is inside the repository q and no other. *)
HoldsOnly(u, q) == dbLock[q] = u /\ \A p \in DbRepositories \ {q} : dbLock[p] # u
(* The n-th statement of SaveFlow, and what is left of it from there. *)
SaveStep(f, rs, n) ==
  IF n = 1 THEN Sql("begin")
  ELSE IF n = 2 THEN [op |-> "writeFlow", flow |-> f]
  ELSE IF n = Len(rs) + 3 THEN Sql("commit")
  ELSE [op |-> "insertMember", flow |-> f, rule |-> rs[n - 2], order |-> n - 2]
StepsFrom(f, rs, n) == [k \in 1 .. Len(rs) + 4 - n |-> SaveStep(f, rs, k + n - 1)]

(* Workflow f has the members v: exactly, or with rows of an earlier save   *)
(* between them if it is one of those, m, that a remove left in pieces.     *)
HasOrder(db, f, v, m) ==
  v \subseteq StoredOrder(db, f) /\ (StoredOrder(db, f) = v \/ <<"flow", f>> \in m)

(* Where a thread is.  Outside of the repositories: *)
IdleThread(u) ==
  /\ todo[u] = << >> /\ owner # u /\ \A q \in DbRepositories : dbLock[q] # u

(* in a method of the rule repository: its transaction not begun, begun,   *)
(* or ready to commit with the row written;                                *)
SavingRule(u, i, r) ==
  /\ writes[u] = One(<<"rule", i>>, r)
  /\ \/ todo[u] = SaveRule(i, r) /\ owner # u
     \/ todo[u] = <<[op |-> "upsertRule", rule |-> i, row |-> ToRow(r)], Sql("commit")>> /\ owner = u
     \/ /\ todo[u] = <<Sql("commit")>> /\ owner = u
        /\ i \in DOMAIN session.rules /\ session.rules[i] = ToRow(r)
RemovingRule(u, i) ==
  writes[u] = One(<<"rule", i>>, NoValue) /\ todo[u] = RemoveRuleRow(i) /\ owner # u
ClearingRules(u) ==
  writes[u] = All("rule", RuleIds) /\ todo[u] = ClearRules /\ owner # u
RulesThread(u) ==
  /\ HoldsOnly(u, "rules")
  /\ \/ \E i \in RuleIds, r \in RuleRecords : SavingRule(u, i, r)
     \/ \E i \in RuleIds : RemovingRule(u, i)
     \/ ClearingRules(u)

(* in a method of the workflow repository: save before its n-th statement, *)
(* with the workflow and its first members written;                        *)
AtStep(u, f, rs, n) ==
  /\ todo[u] = StepsFrom(f, rs, n)
  /\ n = 1 => owner # u
  /\ n > 1 => owner = u
  /\ n > 2 => f \in session.flows /\ HasOrder(session, f, OrderUpTo(rs, n - 3), mixed)
SavingFlow(u, f, rs) ==
  /\ writes[u] = One(<<"flow", f>>, OrderOf(rs))
  /\ \E n \in 1 .. Len(rs) + 3 : AtStep(u, f, rs, n)
(* remove and clear, which have no transaction.  Once the members are      *)
(* deleted they are gone for good, unless that happened inside a           *)
(* transaction of another thread, which may bring them back;               *)
RemovingFlow(u, f) ==
  /\ writes[u] = One(<<"flow", f>>, NoValue) /\ owner # u
  /\ \/ todo[u] = RemoveFlow(f)
     \/ todo[u] = <<[op |-> "deleteFlow", flow |-> f]>> /\ (<<"flow", f>> \in mixed \/ NoneLeft(f))
ClearingFlows(u) ==
  /\ writes[u] = All("flow", FlowIds) /\ owner # u
  /\ \/ todo[u] = ClearFlows
     \/ /\ todo[u] = <<Sql("deleteFlows")>>
        /\ \A f \in FlowIds : <<"flow", f>> \in mixed \/ NoneLeft(f)
FlowsThread(u) ==
  /\ HoldsOnly(u, "workflows")
  /\ \/ \E f \in FlowIds, rs \in Orders : SavingFlow(u, f, rs)
     \/ \E f \in FlowIds : RemovingFlow(u, f)
     \/ ClearingFlows(u)

(* in a method of the version repository, of one statement. *)
VersionsThread(u) ==
  /\ HoldsOnly(u, "versions") /\ DOMAIN writes[u] = {} /\ owner # u
  /\ \E i \in RuleIds : todo[u] \in {SaveVersion(1, i), RemoveVersions(i)}

(* There is nowhere else to be. *)
Thread(u) == IdleThread(u) \/ RulesThread(u) \/ FlowsThread(u) \/ VersionsThread(u)
Threads == \A u \in Users : Thread(u)

(* A call in progress has taken back what was promised of what it writes. *)
NothingPromised ==
  \A u \in Users : todo[u] # << >> => \A e \in DOMAIN writes[u] : promised[e] = Unknown

(* The properties, of the tables as committed and as the session sees      *)
(* them.  Only the owner of the transaction may have a workflow there in   *)
(* the middle of being saved.                                              *)
NoOrphans(db) == \A f \in FlowIds : f \in db.flows \/ <<"flow", f>> \in mixed \/ NoMembers(db, f)
Whole(db, f, m) ==
  <<"flow", f>> \in m \/ StoredOrder(db, f) = {} \/ \E rs \in Orders : StoredOrder(db, f) = OrderOf(rs)
BeingSaved(f) == owner \in Users /\ <<"flow", f>> \in DOMAIN writes[owner]
AllWhole ==
  /\ \A f \in committed.flows : Whole(committed, f, mixed)
  /\ \A f \in session.flows : Whole(session, f, mixed) \/ BeingSaved(f)

(* What the tables must say of what was promised: that it is not there, or *)
(* that it is there as it was saved.                                       *)
RuleKept(db, i, v) ==
  IF v = NoValue THEN i \notin DOMAIN db.rules
  ELSE v \in RuleRecords /\ i \in DOMAIN db.rules /\ db.rules[i] = ToRow(v)
FlowKept(db, f, v, m) ==
  IF v = NoValue THEN f \notin db.flows
  ELSE f \in db.flows /\ HasOrder(db, f, v, m)
RulePromises ==
  \A i \in RuleIds : promised[<<"rule", i>>] # Unknown =>
    RuleKept(committed, i, promised[<<"rule", i>>]) /\ RuleKept(session, i, promised[<<"rule", i>>])
FlowPromises ==
  \A f \in FlowIds : promised[<<"flow", f>>] # Unknown =>
    /\ FlowKept(committed, f, promised[<<"flow", f>>], mixed)
    /\ FlowKept(session, f, promised[<<"flow", f>>], mixed)

(* Outside of transactions the session shows what is committed. *)
Synced == owner = NoValue => session = committed

(* The types of the state of the database. *)
DbTyped ==
  /\ committed \in Tables /\ session \in Tables
  /\ owner \in Users \cup {NoValue}
  /\ DOMAIN todo = Users /\ todo = [u \in Users |-> todo[u]]
  /\ DOMAIN writes = Users /\ writes = [u \in Users |-> writes[u]]
  /\ DOMAIN promised = Entities /\ promised = [e \in Entities |-> promised[e]]
  /\ dbLock \in [DbRepositories -> Users \cup {NoValue}]
  /\ exposed \subseteq Users /\ mixed \subseteq Entities
  /\ calls \in 0 .. MaxOps /\ faults \in 0 .. MaxFaults

(* The inductive invariant of the database repositories. *)
DbInv ==
  /\ DbTyped /\ Synced /\ Threads /\ NothingPromised
  /\ NoOrphans(committed) /\ NoOrphans(session) /\ AllWhole
  /\ RulePromises /\ FlowPromises

(* A rule table is a function from some ids to rows that were written from *)
(* rules.                                                                  *)
LEMMA RuleTableIs ==
  ASSUME NEW t
  PROVE  t \in RuleTables <=>
           /\ DOMAIN t \subseteq RuleIds /\ t = [k \in DOMAIN t |-> t[k]]
           /\ \A k \in DOMAIN t : \E r \in RuleRecords : t[k] = ToRow(r)
<1> DEFINE Rows == {ToRow(r) : r \in RuleRecords}
<1>1. ASSUME t \in RuleTables
      PROVE  /\ DOMAIN t \subseteq RuleIds /\ t = [k \in DOMAIN t |-> t[k]]
             /\ \A k \in DOMAIN t : \E r \in RuleRecords : t[k] = ToRow(r)
  <2>1. PICK S \in SUBSET RuleIds : t \in [S -> Rows]
    BY <1>1 DEF RuleTables
  <2> QED BY <2>1
<1>2. ASSUME DOMAIN t \subseteq RuleIds, t = [k \in DOMAIN t |-> t[k]],
             \A k \in DOMAIN t : \E r \in RuleRecords : t[k] = ToRow(r)
      PROVE  t \in RuleTables
  <2>1. t \in [DOMAIN t -> Rows]
    BY <1>2
  <2> QED BY <1>2, <2>1 DEF RuleTables
<1> QED BY <1>1, <1>2

(* The member table is a function from pairs of workflow and rule to       *)
(* positions.                                                              *)
LEMMA MemberTableIs ==
  ASSUME NEW t
  PROVE  t \in MemberTables <=>
           /\ DOMAIN t \subseteq FlowIds \X RuleIds /\ t = [k \in DOMAIN t |-> t[k]]
           /\ \A k \in DOMAIN t : t[k] \in Nat
<1>1. ASSUME t \in MemberTables
      PROVE  /\ DOMAIN t \subseteq FlowIds \X RuleIds /\ t = [k \in DOMAIN t |-> t[k]]
             /\ \A k \in DOMAIN t : t[k] \in Nat
  <2>1. PICK S \in SUBSET (FlowIds \X RuleIds) : t \in [S -> Nat]
    BY <1>1 DEF MemberTables
  <2> QED BY <2>1
<1>2. ASSUME DOMAIN t \subseteq FlowIds \X RuleIds, t = [k \in DOMAIN t |-> t[k]],
             \A k \in DOMAIN t : t[k] \in Nat
      PROVE  t \in MemberTables
  <2>1. t \in [DOMAIN t -> Nat]
    BY <1>2
  <2> QED BY <1>2, <2>1 DEF MemberTables
<1> QED BY <1>1, <1>2

(* createSchema makes tables of these types. *)
LEMMA EmptyTables == << >> \in RuleTables /\ << >> \in MemberTables /\ DOMAIN << >> = {} /\ Empty \in Tables
<1>1. DOMAIN << >> = {} /\ << >> = [k \in DOMAIN << >> |-> << >>[k]]
  OBVIOUS
<1>2. << >> \in RuleTables
  BY <1>1, RuleTableIs
<1>3. << >> \in MemberTables
  BY <1>1, MemberTableIs
<1> QED BY <1>1, <1>2, <1>3 DEF Empty, Tables

(* A pair is in the stored order exactly when the member row says so. *)
LEMMA MembersOfIs ==
  ASSUME NEW db \in Tables, NEW f \in FlowIds, NEW n \in Nat, NEW i \in RuleIds
  PROVE  <<n, i>> \in StoredOrder(db, f) <=>
           <<f, i>> \in DOMAIN db.members /\ db.members[<<f, i>>] = n
<1>1. DOMAIN db.members \subseteq FlowIds \X RuleIds
  BY MemberTableIs DEF Tables
<1>2. ASSUME <<n, i>> \in StoredOrder(db, f)
      PROVE  <<f, i>> \in DOMAIN db.members /\ db.members[<<f, i>>] = n
  <2>1. PICK k \in MembersOf(db, f) : <<n, i>> = <<db.members[k], k[2]>>
    BY <1>2 DEF StoredOrder
  <2>2. k \in DOMAIN db.members /\ k[1] = f
    BY <2>1 DEF MembersOf
  <2>3. k = <<f, i>>
    BY <2>1, <2>2, <1>1
  <2> QED BY <2>1, <2>2, <2>3
<1>3. ASSUME <<f, i>> \in DOMAIN db.members, db.members[<<f, i>>] = n
      PROVE  <<n, i>> \in StoredOrder(db, f)
  <2>1. <<f, i>> \in MembersOf(db, f)
    BY <1>3 DEF MembersOf
  <2> QED BY <1>3, <2>1 DEF StoredOrder
<1> QED BY <1>2, <1>3

(* A stored order is made of positions and rule ids. *)
LEMMA StoredOrderIs ==
  ASSUME NEW db \in Tables, NEW f \in FlowIds PROVE StoredOrder(db, f) \subseteq Nat \X RuleIds
<1>1. /\ DOMAIN db.members \subseteq FlowIds \X RuleIds
      /\ \A k \in DOMAIN db.members : db.members[k] \in Nat
  BY MemberTableIs DEF Tables
<1> QED BY <1>1 DEF StoredOrder, MembersOf

(* Equal member rows give equal orders. *)
LEMMA SameOrder ==
  ASSUME NEW a \in Tables, NEW b \in Tables, NEW f \in FlowIds,
         \A i \in RuleIds : /\ <<f, i>> \in DOMAIN a.members <=> <<f, i>> \in DOMAIN b.members
                            /\ <<f, i>> \in DOMAIN a.members => a.members[<<f, i>>] = b.members[<<f, i>>]
  PROVE  StoredOrder(a, f) = StoredOrder(b, f)
<1>1. ASSUME NEW n \in Nat, NEW i \in RuleIds
      PROVE  <<n, i>> \in StoredOrder(a, f) <=> <<n, i>> \in StoredOrder(b, f)
  <2>1. <<n, i>> \in StoredOrder(a, f) <=>
          <<f, i>> \in DOMAIN a.members /\ a.members[<<f, i>>] = n
    BY MembersOfIs
  <2>2. <<n, i>> \in StoredOrder(b, f) <=>
          <<f, i>> \in DOMAIN b.members /\ b.members[<<f, i>>] = n
    BY MembersOfIs
  <2> QED BY <2>1, <2>2
<1>2. StoredOrder(a, f) \subseteq Nat \X RuleIds /\ StoredOrder(b, f) \subseteq Nat \X RuleIds
  BY StoredOrderIs
<1>3. \A u : u \in StoredOrder(a, f) <=> u \in StoredOrder(b, f)
  BY <1>1, <1>2
<1> QED BY <1>3

(* A workflow has no order exactly when it has no member rows. *)
LEMMA NoMembersIs ==
  ASSUME NEW db \in Tables, NEW f \in FlowIds
  PROVE  StoredOrder(db, f) = {} <=> \A i \in RuleIds : <<f, i>> \notin DOMAIN db.members
<1>1. ASSUME \A i \in RuleIds : <<f, i>> \notin DOMAIN db.members PROVE StoredOrder(db, f) = {}
  <2> SUFFICES ASSUME NEW p \in StoredOrder(db, f) PROVE FALSE
    OBVIOUS
  <2>1. PICK n \in Nat, i \in RuleIds : p = <<n, i>>
    BY StoredOrderIs
  <2>2. <<f, i>> \in DOMAIN db.members
    BY <2>1, MembersOfIs
  <2> QED BY <1>1, <2>2
<1>2. ASSUME StoredOrder(db, f) = {} PROVE \A i \in RuleIds : <<f, i>> \notin DOMAIN db.members
  <2> SUFFICES ASSUME NEW i \in RuleIds, <<f, i>> \in DOMAIN db.members PROVE FALSE
    OBVIOUS
  <2>1. db.members[<<f, i>>] \in Nat
    BY MemberTableIs DEF Tables
  <2> QED BY <1>2, <2>1, MembersOfIs
<1> QED BY <1>1, <1>2

-----------------------------------------------------------------------------
(* The statements. *)
SameFlows(a, b) == a.flows = b.flows /\ a.members = b.members

(* What upsert and delete of rules do, to the rule named, to the others    *)
(* and to the other tables.                                                *)
LEMMA RuleEffects ==
  ASSUME NEW db \in Tables, NEW s, NEW i \in RuleIds, NEW r \in RuleRecords, NEW e, e = Effect(s, db)
  PROVE  /\ s.op \in {"upsertRule", "deleteRule", "deleteRules"} =>
              SameFlows(e, db) /\ e.versions = db.versions
         /\ s = [op |-> "upsertRule", rule |-> i, row |-> ToRow(r)] =>
              /\ e \in Tables /\ i \in DOMAIN e.rules /\ e.rules[i] = ToRow(r)
              /\ \A j \in RuleIds : j # i => /\ j \in DOMAIN e.rules <=> j \in DOMAIN db.rules
                                             /\ j \in DOMAIN db.rules => e.rules[j] = db.rules[j]
         /\ s = [op |-> "deleteRule", rule |-> i] =>
              /\ e \in Tables /\ i \notin DOMAIN e.rules
              /\ \A j \in RuleIds : j # i => /\ j \in DOMAIN e.rules <=> j \in DOMAIN db.rules
                                             /\ j \in DOMAIN db.rules => e.rules[j] = db.rules[j]
         /\ s = Sql("deleteRules") => e \in Tables /\ DOMAIN e.rules = {}
<1>0. /\ db \in [rules : RuleTables, flows : SUBSET FlowIds, members : MemberTables,
                 versions : SUBSET ({1} \X RuleIds)]
      /\ DOMAIN db.rules \subseteq RuleIds /\ db.rules = [k \in DOMAIN db.rules |-> db.rules[k]]
      /\ \A k \in DOMAIN db.rules : \E x \in RuleRecords : db.rules[k] = ToRow(x)
  BY RuleTableIs DEF Tables
<1>1. s.op \in {"upsertRule", "deleteRule", "deleteRules"} => SameFlows(e, db) /\ e.versions = db.versions
  BY <1>0 DEF Effect, SameFlows
<1>2. ASSUME s = [op |-> "upsertRule", rule |-> i, row |-> ToRow(r)]
      PROVE  /\ e \in Tables /\ i \in DOMAIN e.rules /\ e.rules[i] = ToRow(r)
             /\ \A j \in RuleIds : j # i => /\ j \in DOMAIN e.rules <=> j \in DOMAIN db.rules
                                            /\ j \in DOMAIN db.rules => e.rules[j] = db.rules[j]
  <2> DEFINE t == With(db.rules, i, ToRow(r))
  <2>1. e = [db EXCEPT !.rules = t]
    BY <1>2 DEF Effect
  <2>2. /\ DOMAIN t = DOMAIN db.rules \cup {i} /\ t[i] = ToRow(r)
        /\ \A j \in DOMAIN db.rules : j # i => t[j] = db.rules[j]
        /\ t = [k \in DOMAIN t |-> t[k]]
    BY DEF With
  <2> HIDE DEF t
  <2>3. t \in RuleTables
    <3>1. \A k \in DOMAIN t : \E x \in RuleRecords : t[k] = ToRow(x)
      BY <1>0, <2>2
    <3> QED BY <1>0, <2>2, <3>1, RuleTableIs
  <2>4. e \in Tables /\ e.rules = t
    BY <1>0, <2>1, <2>3 DEF Tables
  <2> QED BY <2>2, <2>4
<1>3. ASSUME s = [op |-> "deleteRule", rule |-> i]
      PROVE  /\ e \in Tables /\ i \notin DOMAIN e.rules
             /\ \A j \in RuleIds : j # i => /\ j \in DOMAIN e.rules <=> j \in DOMAIN db.rules
                                            /\ j \in DOMAIN db.rules => e.rules[j] = db.rules[j]
  <2> DEFINE t == RowsWithout(db.rules, {i})
  <2>1. e = [db EXCEPT !.rules = t]
    BY <1>3 DEF Effect
  <2>2. /\ DOMAIN t = DOMAIN db.rules \ {i}
        /\ \A j \in DOMAIN t : t[j] = db.rules[j]
        /\ t = [k \in DOMAIN t |-> t[k]]
    BY DEF RowsWithout
  <2> HIDE DEF t
  <2>3. t \in RuleTables
    <3>1. \A k \in DOMAIN t : \E x \in RuleRecords : t[k] = ToRow(x)
      BY <1>0, <2>2
    <3> QED BY <1>0, <2>2, <3>1, RuleTableIs
  <2>4. e \in Tables /\ e.rules = t
    BY <1>0, <2>1, <2>3 DEF Tables
  <2> QED BY <2>2, <2>4
<1>4. ASSUME s = Sql("deleteRules") PROVE e \in Tables /\ DOMAIN e.rules = {}
  <2>1. e = [db EXCEPT !.rules = << >>]
    BY <1>4 DEF Effect, Sql
  <2>2. e \in Tables /\ e.rules = << >>
    BY <1>0, <2>1, EmptyTables DEF Tables
  <2> QED BY <2>2, EmptyTables
<1> QED BY <1>1, <1>2, <1>3, <1>4

(* The statements on workflows, and tables that agree on their members. *)
FlowOps ==
  {"writeFlow", "deleteFlow", "deleteFlows", "deleteMembers", "deleteAllMembers",
   "insertMember"}
SameOrders(a, b) == \A g \in FlowIds : StoredOrder(a, g) = StoredOrder(b, g)
SameOtherOrders(a, b, f) == \A g \in FlowIds : g # f => StoredOrder(a, g) = StoredOrder(b, g)

(* What the statements of the workflow repository do, to the workflow      *)
(* named and to the others.                                                *)
LEMMA FlowEffects ==
  ASSUME NEW db \in Tables, NEW s, NEW f \in FlowIds, NEW e, e = Effect(s, db)
  PROVE  /\ s.op \in FlowOps => e.rules = db.rules /\ e.versions = db.versions
         /\ s = [op |-> "writeFlow", flow |-> f] =>
              /\ e \in Tables /\ e.flows = db.flows \cup {f} /\ SameOtherOrders(e, db, f)
              /\ StoredOrder(e, f) = IF f \in db.flows THEN {} ELSE StoredOrder(db, f)
         /\ s = [op |-> "deleteFlow", flow |-> f] =>
              e \in Tables /\ e.flows = db.flows \ {f} /\ SameOrders(e, db)
         /\ s = Sql("deleteFlows") => e \in Tables /\ e.flows = {} /\ SameOrders(e, db)
         /\ s = [op |-> "deleteMembers", flow |-> f] =>
              /\ e \in Tables /\ e.flows = db.flows
              /\ StoredOrder(e, f) = {} /\ SameOtherOrders(e, db, f)
         /\ s = Sql("deleteAllMembers") =>
              e \in Tables /\ e.flows = db.flows /\ \A g \in FlowIds : StoredOrder(e, g) = {}
<1>0. /\ db \in [rules : RuleTables, flows : SUBSET FlowIds, members : MemberTables,
                 versions : SUBSET ({1} \X RuleIds)]
      /\ DOMAIN db.members \subseteq FlowIds \X RuleIds
      /\ db.members = [k \in DOMAIN db.members |-> db.members[k]]
      /\ \A k \in DOMAIN db.members : db.members[k] \in Nat
  BY MemberTableIs DEF Tables
<1>1. s.op \in FlowOps => e.rules = db.rules /\ e.versions = db.versions
  BY <1>0 DEF Effect, FlowOps, WriteFlow
<1>s. ASSUME e.members = db.members PROVE SameOrders(e, db)
  BY <1>s DEF SameOrders, StoredOrder, MembersOf
<1>3. ASSUME s = [op |-> "deleteFlow", flow |-> f]
      PROVE  e \in Tables /\ e.flows = db.flows \ {f} /\ e.members = db.members
  <2>1. e = [db EXCEPT !.flows = db.flows \ {f}]
    BY <1>3 DEF Effect
  <2> QED BY <1>0, <2>1 DEF Tables
<1>4. ASSUME s = Sql("deleteFlows") PROVE e \in Tables /\ e.flows = {} /\ e.members = db.members
  <2>1. e = [db EXCEPT !.flows = {}]
    BY <1>4 DEF Effect, Sql
  <2> QED BY <1>0, <2>1 DEF Tables
<1>d. ASSUME e = [db EXCEPT !.members = RowsWithout(db.members, MembersOf(db, f))]
      PROVE  /\ e \in Tables /\ e.flows = db.flows
             /\ StoredOrder(e, f) = {} /\ SameOtherOrders(e, db, f)
  <2> DEFINE t == RowsWithout(db.members, MembersOf(db, f))
  <2>1. e = [db EXCEPT !.members = t]
    BY <1>d
  <2>2. /\ DOMAIN t = DOMAIN db.members \ MembersOf(db, f)
        /\ \A k \in DOMAIN t : t[k] = db.members[k]
        /\ t = [k \in DOMAIN t |-> t[k]]
    BY DEF RowsWithout
  <2> HIDE DEF t
  <2>3. \A k \in FlowIds \X RuleIds : k \in DOMAIN t <=> k \in DOMAIN db.members /\ k[1] # f
    BY <2>2 DEF MembersOf
  <2>4. t \in MemberTables
    BY <1>0, <2>2, MemberTableIs
  <2>5. e \in Tables /\ e.members = t /\ e.flows = db.flows
    BY <1>0, <2>1, <2>4 DEF Tables
  <2>6. \A i \in RuleIds : <<f, i>> \notin DOMAIN e.members
    BY <2>3, <2>5
  <2>7. StoredOrder(e, f) = {}
    BY <2>5, <2>6, NoMembersIs
  <2>8. ASSUME NEW g \in FlowIds, g # f PROVE StoredOrder(e, g) = StoredOrder(db, g)
    <3>1. \A i \in RuleIds : <<g, i>> \in DOMAIN e.members <=> <<g, i>> \in DOMAIN db.members
      BY <2>3, <2>5, <2>8
    <3>2. \A i \in RuleIds : <<g, i>> \in DOMAIN e.members =>
                               e.members[<<g, i>>] = db.members[<<g, i>>]
      BY <2>2, <2>5
    <3> QED BY <2>5, <3>1, <3>2, SameOrder
  <2> QED BY <2>5, <2>7, <2>8 DEF SameOtherOrders
<1>5. ASSUME s = [op |-> "deleteMembers", flow |-> f]
      PROVE  e = [db EXCEPT !.members = RowsWithout(db.members, MembersOf(db, f))]
  BY <1>5 DEF Effect
<1>w. ASSUME s = [op |-> "writeFlow", flow |-> f] PROVE e = WriteFlow(db, f)
  BY <1>w DEF Effect
<1>2. ASSUME s = [op |-> "writeFlow", flow |-> f]
      PROVE  /\ e \in Tables /\ e.flows = db.flows \cup {f} /\ SameOtherOrders(e, db, f)
             /\ StoredOrder(e, f) = IF f \in db.flows THEN {} ELSE StoredOrder(db, f)
  <2>1. CASE f \in db.flows
    <3>1. e = [db EXCEPT !.members = RowsWithout(db.members, MembersOf(db, f))]
      BY <1>2, <1>w, <2>1 DEF WriteFlow
    <3> QED BY <1>d, <2>1, <3>1
  <2>2. CASE f \notin db.flows
    <3>1. e = [db EXCEPT !.flows = db.flows \cup {f}]
      BY <1>2, <1>w, <2>2 DEF WriteFlow
    <3>2. e \in Tables /\ e.flows = db.flows \cup {f} /\ e.members = db.members
      BY <1>0, <3>1 DEF Tables
    <3> QED BY <1>s, <2>2, <3>2 DEF SameOrders, SameOtherOrders
  <2> QED BY <2>1, <2>2
<1>6. ASSUME s = Sql("deleteAllMembers")
      PROVE  e \in Tables /\ e.flows = db.flows /\ \A g \in FlowIds : StoredOrder(e, g) = {}
  <2>1. e = [db EXCEPT !.members = << >>]
    BY <1>6 DEF Effect, Sql
  <2>2. e \in Tables /\ e.members = << >> /\ e.flows = db.flows
    BY <1>0, <2>1, EmptyTables DEF Tables
  <2> QED BY <2>2, EmptyTables, NoMembersIs
<1> QED BY <1>1, <1>s, <1>2, <1>3, <1>4, <1>5, <1>d, <1>6

(* An insert of a member adds its position to the order of its workflow    *)
(* and touches no other.                                                   *)
LEMMA InsertEffect ==
  ASSUME NEW db \in Tables, NEW f \in FlowIds, NEW i \in RuleIds, NEW n \in Nat, NEW s, NEW e,
         s = [op |-> "insertMember", flow |-> f, rule |-> i, order |-> n], e = Effect(s, db),
         ~Conflict(s, db)
  PROVE  /\ e \in Tables /\ e.rules = db.rules /\ e.flows = db.flows /\ SameOtherOrders(e, db, f)
         /\ StoredOrder(e, f) = StoredOrder(db, f) \cup {<<n, i>>}
<1>0. /\ db \in [rules : RuleTables, flows : SUBSET FlowIds, members : MemberTables,
                 versions : SUBSET ({1} \X RuleIds)]
      /\ DOMAIN db.members \subseteq FlowIds \X RuleIds
      /\ db.members = [k \in DOMAIN db.members |-> db.members[k]]
      /\ \A k \in DOMAIN db.members : db.members[k] \in Nat
  BY MemberTableIs DEF Tables
<1>1. <<f, i>> \notin DOMAIN db.members
  BY DEF Conflict
<1> DEFINE t == With(db.members, <<f, i>>, n)
<1>2. e = [db EXCEPT !.members = t]
  BY DEF Effect
<1>3. /\ DOMAIN t = DOMAIN db.members \cup {<<f, i>>} /\ t[<<f, i>>] = n
      /\ \A k \in DOMAIN db.members : t[k] = db.members[k]
      /\ t = [k \in DOMAIN t |-> t[k]]
  BY <1>1 DEF With
<1> HIDE DEF t
<1>4. t \in MemberTables
  BY <1>0, <1>3, MemberTableIs
<1>5. e \in Tables /\ e.members = t /\ e.flows = db.flows /\ e.rules = db.rules
  BY <1>0, <1>2, <1>4 DEF Tables
<1>6. ASSUME NEW g \in FlowIds, g # f PROVE StoredOrder(e, g) = StoredOrder(db, g)
  <2>1. \A j \in RuleIds : <<g, j>> \in DOMAIN e.members <=> <<g, j>> \in DOMAIN db.members
    BY <1>3, <1>5, <1>6
  <2>2. \A j \in RuleIds : <<g, j>> \in DOMAIN e.members =>
                             e.members[<<g, j>>] = db.members[<<g, j>>]
    BY <1>3, <1>5, <2>1
  <2> QED BY <1>5, <2>1, <2>2, SameOrder
<1>7. ASSUME NEW m \in Nat, NEW j \in RuleIds
      PROVE  <<m, j>> \in StoredOrder(e, f) <=> <<m, j>> \in StoredOrder(db, f) \cup {<<n, i>>}
  <2>1. <<m, j>> \in StoredOrder(e, f) <=> <<f, j>> \in DOMAIN t /\ t[<<f, j>>] = m
    BY <1>5, MembersOfIs
  <2>2. <<m, j>> \in StoredOrder(db, f) <=> <<f, j>> \in DOMAIN db.members /\ db.members[<<f, j>>] = m
    BY MembersOfIs
  <2>3. CASE j = i
    BY <2>1, <2>2, <2>3, <1>1, <1>3
  <2>4. CASE j # i
    BY <2>1, <2>2, <2>4, <1>1, <1>3
  <2> QED BY <2>3, <2>4
<1>8. StoredOrder(e, f) \subseteq Nat \X RuleIds /\ StoredOrder(db, f) \subseteq Nat \X RuleIds
  BY <1>5, StoredOrderIs
<1>9. \A p : p \in StoredOrder(e, f) <=> p \in StoredOrder(db, f) \cup {<<n, i>>}
  BY <1>7, <1>8
<1> QED BY <1>5, <1>6, <1>9 DEF SameOtherOrders

(* Statements on versions touch neither rules nor workflows. *)
LEMMA VersionEffects ==
  ASSUME NEW db \in Tables, NEW s, NEW i \in RuleIds, NEW e, e = Effect(s, db),
         \/ s = [op |-> "insertVersion", version |-> 1, rule |-> i]
         \/ s = [op |-> "deleteVersions", rule |-> i]
  PROVE  e \in Tables /\ SameFlows(e, db) /\ e.rules = db.rules
<1>0. db \in [rules : RuleTables, flows : SUBSET FlowIds, members : MemberTables,
              versions : SUBSET ({1} \X RuleIds)]
  BY DEF Tables
<1>1. CASE s = [op |-> "insertVersion", version |-> 1, rule |-> i]
  <2>1. e = [db EXCEPT !.versions = db.versions \cup {<<1, i>>}]
    BY <1>1 DEF Effect
  <2> QED BY <1>0, <2>1 DEF Tables, SameFlows
<1>2. CASE s = [op |-> "deleteVersions", rule |-> i]
  <2>1. e = [db EXCEPT !.versions = {v \in db.versions : v[2] # i}]
    BY <1>2 DEF Effect
  <2> QED BY <1>0, <2>1 DEF Tables, SameFlows
<1> QED BY <1>1, <1>2

(* The statements of save, counted. *)
LEMMA SaveFlowSteps ==
  ASSUME NEW f, NEW rs \in Seq(RuleIds) PROVE SaveFlow(f, rs) = StepsFrom(f, rs, 1)
<1>0. Len(rs) \in Nat
  OBVIOUS
<1> DEFINE first == <<Sql("begin"), [op |-> "writeFlow", flow |-> f]>>
           inserts == InsertMembers(f, rs)
           end == <<Sql("commit")>>
           S == {first[1], first[2], end[1]} \cup {inserts[k] : k \in 1 .. Len(rs)}
<1>1. first \in Seq(S) /\ Len(first) = 2
  OBVIOUS
<1>2. inserts \in Seq(S) /\ Len(inserts) = Len(rs)
  <2>1. inserts = [k \in 1 .. Len(rs) |-> inserts[k]]
    BY DEF InsertMembers
  <2> HIDE DEF inserts
  <2>2. inserts \in [1 .. Len(rs) -> S]
    BY <2>1
  <2> HIDE DEF S
  <2> QED BY <2>2, <1>0
<1>3. end \in Seq(S) /\ Len(end) = 1
  OBVIOUS
<1>f. /\ first[1] = Sql("begin") /\ first[2] = [op |-> "writeFlow", flow |-> f]
      /\ end[1] = Sql("commit")
  OBVIOUS
<1>i. \A k \in 1 .. Len(rs) :
        inserts[k] = [op |-> "insertMember", flow |-> f, rule |-> rs[k], order |-> k]
  BY DEF InsertMembers
<1>s. SaveFlow(f, rs) = first \o inserts \o end
  BY DEF SaveFlow
<1> HIDE DEF S, first, inserts, end
<1> DEFINE a == first \o inserts
           b == a \o end
<1>c. /\ a \in Seq(S) /\ Len(a) = Len(first) + Len(inserts)
      /\ \A k \in 1 .. Len(first) + Len(inserts) :
           a[k] = IF k <= Len(first) THEN first[k] ELSE inserts[k - Len(first)]
  <2>1. first \in Seq(S) /\ inserts \in Seq(S)
    BY <1>1, <1>2
  <2> QED BY <2>1, ConcatProperties, Zenon
<1> HIDE DEF a
<1>n. Len(first) + Len(inserts) = Len(rs) + 2
  BY <1>0, <1>1, <1>2
<1>4. a \in Seq(S) /\ Len(a) = Len(rs) + 2
  BY <1>c, <1>n
<1>5. \A k \in 1 .. Len(rs) + 2 : a[k] = IF k <= 2 THEN first[k] ELSE inserts[k - 2]
  BY <1>c, <1>n, <1>1
<1>d. /\ b \in Seq(S) /\ Len(b) = Len(a) + Len(end)
      /\ \A k \in 1 .. Len(a) + Len(end) :
           b[k] = IF k <= Len(a) THEN a[k] ELSE end[k - Len(a)]
  BY <1>3, <1>4, ConcatProperties
<1>8. SaveFlow(f, rs) = b
  BY <1>s DEF a
<1> HIDE DEF b
<1>m. Len(a) + Len(end) = Len(rs) + 3
  BY <1>0, <1>3, <1>4
<1>6. b \in Seq(S) /\ Len(b) = Len(rs) + 3
  BY <1>d, <1>m
<1>7. \A k \in 1 .. Len(rs) + 3 : b[k] = IF k <= Len(rs) + 2 THEN a[k] ELSE end[k - (Len(rs) + 2)]
  BY <1>d, <1>m, <1>4
<1>9. b = [k \in 1 .. Len(rs) + 3 |-> b[k]]
  BY <1>0, <1>6
<1>10. ASSUME NEW k \in 1 .. Len(rs) + 3 PROVE b[k] = SaveStep(f, rs, k)
  <2>1. CASE k = Len(rs) + 3
    BY <2>1, <1>0, <1>7, <1>f DEF SaveStep
  <2>2. CASE k <= 2
    <3>1. b[k] = first[k]
      BY <2>2, <1>0, <1>5, <1>7
    <3>2. k = 1 \/ k = 2
      BY <2>2, <1>0
    <3> QED BY <3>1, <3>2, <1>f DEF SaveStep
  <2>3. CASE 2 < k /\ k < Len(rs) + 3
    <3>1. b[k] = inserts[k - 2]
      BY <2>3, <1>0, <1>5, <1>7
    <3>2. k - 2 \in 1 .. Len(rs)
      BY <2>3, <1>0
    <3> QED BY <2>3, <3>1, <3>2, <1>0, <1>i DEF SaveStep
  <2> QED BY <2>1, <2>2, <2>3, <1>0
<1>11. StepsFrom(f, rs, 1) = [k \in 1 .. Len(rs) + 3 |-> SaveStep(f, rs, k)]
  BY <1>0 DEF StepsFrom
<1> QED BY <1>8, <1>9, <1>10, <1>11

(* After a statement of save comes the next one, down to the commit. *)
LEMMA StepsLeft ==
  ASSUME NEW f, NEW rs \in Seq(RuleIds), NEW n \in 1 .. Len(rs) + 3
  PROVE  /\ StepsFrom(f, rs, n) # << >> /\ Head(StepsFrom(f, rs, n)) = SaveStep(f, rs, n)
         /\ Len(StepsFrom(f, rs, n)) = Len(rs) + 4 - n
         /\ n < Len(rs) + 3 => Tail(StepsFrom(f, rs, n)) = StepsFrom(f, rs, n + 1)
<1>0. Len(rs) \in Nat /\ n \in Nat
  OBVIOUS
<1> DEFINE m == Len(rs) + 4 - n
           t == StepsFrom(f, rs, n)
           S == {SaveStep(f, rs, k + n - 1) : k \in 1 .. m}
<1>1. m \in Nat /\ m >= 1
  BY <1>0
<1>2. t = [k \in 1 .. m |-> SaveStep(f, rs, k + n - 1)]
  BY DEF StepsFrom
<1> HIDE DEF m, t
<1>3. t \in [1 .. m -> S]
  BY <1>2
<1> HIDE DEF S
<1>4. t \in Seq(S) /\ Len(t) = m
  BY <1>1, <1>3
<1>5. t # << >> /\ Head(t) = t[1]
  BY <1>1, <1>4
<1>6. t[1] = SaveStep(f, rs, n)
  <2>1. t[1] = SaveStep(f, rs, 1 + n - 1)
    BY <1>1, <1>2
  <2>2. 1 + n - 1 = n
    BY <1>0
  <2> QED BY <2>1, <2>2
<1>7. ASSUME n < Len(rs) + 3 PROVE Tail(t) = StepsFrom(f, rs, n + 1)
  <2>1. Tail(t) = [k \in 1 .. m - 1 |-> t[k + 1]]
    <3>1. /\ Tail(t) \in Seq(S) /\ Len(Tail(t)) = m - 1
          /\ \A k \in 1 .. m - 1 : Tail(t)[k] = t[k + 1]
      BY <1>4, <1>5, HeadTailProperties
    <3> DEFINE w == Tail(t)
    <3> HIDE DEF w
    <3>2. w \in Seq(S) /\ Len(w) = m - 1
      BY <3>1 DEF w
    <3>3. w = [k \in 1 .. m - 1 |-> w[k]]
      BY <3>2
    <3> QED BY <3>1, <3>3 DEF w
  <2>2. Len(rs) + 4 - (n + 1) = m - 1
    BY <1>0 DEF m
  <2>3. StepsFrom(f, rs, n + 1) = [k \in 1 .. m - 1 |-> SaveStep(f, rs, k + (n + 1) - 1)]
    BY <2>2 DEF StepsFrom
  <2>4. ASSUME NEW k \in 1 .. m - 1 PROVE t[k + 1] = SaveStep(f, rs, k + (n + 1) - 1)
    <3>1. k + 1 \in 1 .. m /\ (k + 1) + n - 1 = k + (n + 1) - 1
      BY <1>0, <1>1
    <3>2. t[k + 1] = SaveStep(f, rs, (k + 1) + n - 1)
      BY <3>1, <1>2
    <3> QED BY <3>1, <3>2
  <2> QED BY <2>1, <2>3, <2>4
<1> QED BY <1>4, <1>5, <1>6, <1>7 DEF m, t

-----------------------------------------------------------------------------
(* The threads. *)
LEMMA RulesActive ==
  ASSUME NEW u \in Users, RulesThread(u)
  PROVE  /\ todo[u] # << >> /\ DOMAIN writes[u] \subseteq {"rule"} \X RuleIds
         /\ \A k \in DOMAIN todo[u] : todo[u][k].op \in Statements
<1>1. ASSUME NEW i \in RuleIds, NEW r \in RuleRecords, SavingRule(u, i, r)
      PROVE  /\ todo[u] # << >> /\ DOMAIN writes[u] \subseteq {"rule"} \X RuleIds
             /\ \A k \in DOMAIN todo[u] : todo[u][k].op \in Statements
  <2>1. DOMAIN writes[u] = {<<"rule", i>>}
    BY <1>1 DEF SavingRule, One
  <2>2. CASE todo[u] = SaveRule(i, r)
    BY <2>1, <2>2 DEF SaveRule, Sql, Statements
  <2>3. CASE todo[u] = <<[op |-> "upsertRule", rule |-> i, row |-> ToRow(r)], Sql("commit")>>
    BY <2>1, <2>3 DEF Sql, Statements
  <2>4. CASE todo[u] = <<Sql("commit")>>
    BY <2>1, <2>4 DEF Sql, Statements
  <2> QED BY <1>1, <2>2, <2>3, <2>4 DEF SavingRule
<1>2. ASSUME NEW i \in RuleIds, RemovingRule(u, i)
      PROVE  /\ todo[u] # << >> /\ DOMAIN writes[u] \subseteq {"rule"} \X RuleIds
             /\ \A k \in DOMAIN todo[u] : todo[u][k].op \in Statements
  BY <1>2 DEF RemovingRule, RemoveRuleRow, One, Statements
<1>3. ASSUME ClearingRules(u)
      PROVE  /\ todo[u] # << >> /\ DOMAIN writes[u] \subseteq {"rule"} \X RuleIds
             /\ \A k \in DOMAIN todo[u] : todo[u][k].op \in Statements
  BY <1>3 DEF ClearingRules, ClearRules, All, Sql, Statements
<1> QED BY <1>1, <1>2, <1>3 DEF RulesThread

(* A thread in the workflow repository has statements left, and writes     *)
(* workflows.                                                              *)
LEMMA FlowsActive ==
  ASSUME NEW u \in Users, FlowsThread(u)
  PROVE  /\ todo[u] # << >> /\ DOMAIN writes[u] \subseteq {"flow"} \X FlowIds
         /\ \A k \in DOMAIN todo[u] : todo[u][k].op \in Statements
<1>1. ASSUME NEW f \in FlowIds, NEW rs \in Orders, SavingFlow(u, f, rs)
      PROVE  /\ todo[u] # << >> /\ DOMAIN writes[u] \subseteq {"flow"} \X FlowIds
             /\ \A k \in DOMAIN todo[u] : todo[u][k].op \in Statements
  <2>1. DOMAIN writes[u] = {<<"flow", f>>}
    BY <1>1 DEF SavingFlow, One
  <2>2. PICK n \in 1 .. Len(rs) + 3 : todo[u] = StepsFrom(f, rs, n)
    BY <1>1 DEF SavingFlow, AtStep
  <2>3. rs \in Seq(RuleIds)
    BY DbAssumption
  <2>4. todo[u] # << >>
    BY <2>2, <2>3, StepsLeft
  <2>5. \A k \in DOMAIN todo[u] : \E m : todo[u][k] = SaveStep(f, rs, m)
    BY <2>2 DEF StepsFrom
  <2>6. \A m : SaveStep(f, rs, m).op \in Statements
    BY DEF SaveStep, Sql, Statements
  <2> QED BY <2>1, <2>4, <2>5, <2>6
<1>2. ASSUME NEW f \in FlowIds, RemovingFlow(u, f)
      PROVE  /\ todo[u] # << >> /\ DOMAIN writes[u] \subseteq {"flow"} \X FlowIds
             /\ \A k \in DOMAIN todo[u] : todo[u][k].op \in Statements
  <2>1. DOMAIN writes[u] = {<<"flow", f>>}
    BY <1>2 DEF RemovingFlow, One
  <2>2. CASE todo[u] = RemoveFlow(f)
    BY <2>1, <2>2 DEF RemoveFlow, Statements
  <2>3. CASE todo[u] = <<[op |-> "deleteFlow", flow |-> f]>>
    BY <2>1, <2>3 DEF Statements
  <2> QED BY <1>2, <2>2, <2>3 DEF RemovingFlow
<1>3. ASSUME ClearingFlows(u)
      PROVE  /\ todo[u] # << >> /\ DOMAIN writes[u] \subseteq {"flow"} \X FlowIds
             /\ \A k \in DOMAIN todo[u] : todo[u][k].op \in Statements
  BY <1>3 DEF ClearingFlows, ClearFlows, All, Sql, Statements
<1> QED BY <1>1, <1>2, <1>3 DEF FlowsThread

(* A thread in the version repository has statements left, and writes      *)
(* neither.                                                                *)
LEMMA VersionsActive ==
  ASSUME NEW u \in Users, VersionsThread(u)
  PROVE  /\ todo[u] # << >> /\ DOMAIN writes[u] = {}
         /\ \A k \in DOMAIN todo[u] : todo[u][k].op \in Statements
BY DEF VersionsThread, SaveVersion, RemoveVersions, Statements

(* Calls write rules and workflows. *)
LEMMA WritesAreEntities ==
  ASSUME Threads, NEW u \in Users, todo[u] # << >> PROVE DOMAIN writes[u] \subseteq Entities
<1>1. CASE RulesThread(u)
  BY <1>1, RulesActive DEF Entities
<1>2. CASE FlowsThread(u)
  BY <1>2, FlowsActive DEF Entities
<1>3. CASE VersionsThread(u)
  BY <1>3, VersionsActive
<1> QED BY <1>1, <1>2, <1>3 DEF Threads, Thread, IdleThread

(* The locks keep two calls from writing the same entity at the same time, *)
(* although they share the session.                                        *)
LEMMA WritesDisjoint ==
  ASSUME Threads, NEW u \in Users, NEW v \in Users, u # v, todo[u] # << >>, todo[v] # << >>
  PROVE  DOMAIN writes[u] \cap DOMAIN writes[v] = {}
<1>1. Thread(u) /\ Thread(v) /\ ~IdleThread(u) /\ ~IdleThread(v)
  BY DEF Threads, IdleThread
<1>2. ~(RulesThread(u) /\ RulesThread(v)) /\ ~(FlowsThread(u) /\ FlowsThread(v))
  BY DEF RulesThread, FlowsThread, HoldsOnly
<1>3. "rule" # "flow"
  OBVIOUS
<1>4. \A e : ~(e \in {"rule"} \X RuleIds /\ e \in {"flow"} \X FlowIds)
  OBVIOUS
<1>5. CASE VersionsThread(u) \/ VersionsThread(v)
  BY <1>5, VersionsActive
<1>6. CASE RulesThread(u) /\ FlowsThread(v)
  BY <1>6, <1>4, RulesActive, FlowsActive
<1>7. CASE FlowsThread(u) /\ RulesThread(v)
  BY <1>7, <1>4, RulesActive, FlowsActive
<1> QED BY <1>1, <1>2, <1>5, <1>6, <1>7 DEF Thread

(* Only save opens a transaction. *)
LEMMA OwnerSaves ==
  ASSUME Threads, owner \in Users
  PROVE  \/ RulesThread(owner) /\ \E i \in RuleIds, r \in RuleRecords : SavingRule(owner, i, r)
         \/ FlowsThread(owner) /\ \E f \in FlowIds, rs \in Orders : SavingFlow(owner, f, rs)
<1>1. Thread(owner) /\ ~IdleThread(owner) /\ ~VersionsThread(owner)
  BY DEF Threads, IdleThread, VersionsThread
<1>2. CASE RulesThread(owner)
  BY <1>2 DEF RulesThread, RemovingRule, ClearingRules
<1>3. CASE FlowsThread(owner)
  BY <1>3 DEF FlowsThread, RemovingFlow, ClearingFlows
<1> QED BY <1>1, <1>2, <1>3 DEF Thread

(* A step of u leaves alone what the other threads rely on. *)
Spares(u) ==
  /\ \A v \in Users : v # u =>
       /\ todo'[v] = todo[v] /\ writes'[v] = writes[v]
       /\ owner' = v <=> owner = v
       /\ \A q \in DbRepositories : dbLock'[q] = v <=> dbLock[q] = v
       /\ owner = v /\ dbLock["rules"] = v => session'.rules = session.rules
       /\ dbLock["workflows"] = v =>
            /\ owner = v => session'.flows = session.flows /\ SameOrders(session', session)
            /\ \A f \in FlowIds : NoneLeft(f) => NoneLeft(f)'
  /\ mixed \subseteq mixed'

(* Then the other threads are where they were. *)
LEMMA OtherThreads ==
  ASSUME Threads, NEW u, Spares(u), NEW v \in Users, v # u PROVE Thread(v)'
<1>0. /\ todo'[v] = todo[v] /\ writes'[v] = writes[v]
      /\ owner' = v <=> owner = v
      /\ \A q \in DbRepositories : dbLock'[q] = v <=> dbLock[q] = v
      /\ owner = v /\ dbLock["rules"] = v => session'.rules = session.rules
      /\ dbLock["workflows"] = v =>
           /\ owner = v => session'.flows = session.flows /\ SameOrders(session', session)
           /\ \A f \in FlowIds : NoneLeft(f) => NoneLeft(f)'
      /\ mixed \subseteq mixed'
  BY DEF Spares
<1>h. \A q \in DbRepositories : HoldsOnly(v, q) => HoldsOnly(v, q)'
  BY <1>0 DEF HoldsOnly
<1>1. CASE IdleThread(v)
  BY <1>0, <1>1 DEF IdleThread, Thread
<1>2. CASE VersionsThread(v)
  BY <1>0, <1>2, <1>h DEF VersionsThread, Thread, DbRepositories
<1>3. CASE RulesThread(v)
  <2>1. HoldsOnly(v, "rules")' /\ dbLock["rules"] = v
    BY <1>3, <1>h DEF RulesThread, HoldsOnly, DbRepositories
  <2>2. ASSUME NEW i \in RuleIds, NEW r \in RuleRecords, SavingRule(v, i, r) PROVE SavingRule(v, i, r)'
    BY <1>0, <2>1, <2>2 DEF SavingRule
  <2>3. ASSUME NEW i \in RuleIds, RemovingRule(v, i) PROVE RemovingRule(v, i)'
    BY <1>0, <2>3 DEF RemovingRule
  <2>4. ASSUME ClearingRules(v) PROVE ClearingRules(v)'
    BY <1>0, <2>4 DEF ClearingRules
  <2>5. RulesThread(v)'
    BY <1>3, <2>1, <2>2, <2>3, <2>4 DEF RulesThread
  <2> QED BY <2>5 DEF Thread
<1>4. CASE FlowsThread(v)
  <2>1. HoldsOnly(v, "workflows")' /\ dbLock["workflows"] = v
    BY <1>4, <1>h DEF FlowsThread, HoldsOnly, DbRepositories
  <2>2. ASSUME NEW f \in FlowIds, NEW rs \in Orders, SavingFlow(v, f, rs) PROVE SavingFlow(v, f, rs)'
    <3>1. PICK n \in 1 .. Len(rs) + 3 : AtStep(v, f, rs, n)
      BY <2>2 DEF SavingFlow
    <3>2. n > 2 => f \in session'.flows
      BY <1>0, <2>1, <3>1 DEF AtStep
    <3>3. n > 2 => HasOrder(session', f, OrderUpTo(rs, n - 3), mixed')
      BY <1>0, <2>1, <3>1 DEF AtStep, SameOrders, HasOrder
    <3>4. AtStep(v, f, rs, n)'
      BY <1>0, <3>1, <3>2, <3>3 DEF AtStep
    <3> QED BY <1>0, <2>2, <3>4 DEF SavingFlow
  <2>3. ASSUME NEW f \in FlowIds, RemovingFlow(v, f) PROVE RemovingFlow(v, f)'
    BY <1>0, <2>1, <2>3 DEF RemovingFlow
  <2>4. ASSUME ClearingFlows(v) PROVE ClearingFlows(v)'
    BY <1>0, <2>1, <2>4 DEF ClearingFlows
  <2>5. FlowsThread(v)'
    BY <1>4, <2>1, <2>2, <2>3, <2>4 DEF FlowsThread
  <2> QED BY <2>5 DEF Thread
<1> QED BY <1>1, <1>2, <1>3, <1>4 DEF Threads, Thread

-----------------------------------------------------------------------------
(* What a step leaves of the promises and of the workflows. *)
RuleSameAt(a, b, i) ==
  /\ i \in DOMAIN a.rules <=> i \in DOMAIN b.rules
  /\ i \in DOMAIN b.rules => a.rules[i] = b.rules[i]
FlowSameAt(a, b, f) == (f \in a.flows <=> f \in b.flows) /\ StoredOrder(a, f) = StoredOrder(b, f)

(* A promise about a rule lives in its row alone, *)
LEMMA SameRuleKept ==
  ASSUME NEW a, NEW b, NEW i, NEW v, RuleSameAt(a, b, i), RuleKept(b, i, v) PROVE RuleKept(a, i, v)
BY DEF RuleSameAt, RuleKept

(* and one about a workflow in its row and its members. *)
LEMMA SameFlowKept ==
  ASSUME NEW a, NEW b, NEW f, NEW v, NEW m, NEW n, m \subseteq n, FlowSameAt(a, b, f),
         FlowKept(b, f, v, m)
  PROVE  FlowKept(a, f, v, n)
BY DEF FlowSameAt, FlowKept, HasOrder

(* After the step the promise for rule i is taken back, kept by the new    *)
(* tables, or the old one for a row that is as it was in one of the old    *)
(* tables.                                                                 *)
RuleNews(i) ==
  \/ promised'[<<"rule", i>>] = Unknown
  \/ /\ RuleKept(committed', i, promised'[<<"rule", i>>])
     /\ RuleKept(session', i, promised'[<<"rule", i>>])
  \/ /\ promised'[<<"rule", i>>] = promised[<<"rule", i>>]
     /\ RuleSameAt(committed', committed, i) \/ RuleSameAt(committed', session, i)
     /\ RuleSameAt(session', committed, i) \/ RuleSameAt(session', session, i)

(* Then the promises for rules are kept. *)
LEMMA RulePromisesNext ==
  ASSUME RulePromises, \A i \in RuleIds : RuleNews(i) PROVE RulePromises'
<1> SUFFICES ASSUME NEW i \in RuleIds, promised'[<<"rule", i>>] # Unknown
             PROVE  /\ RuleKept(committed', i, promised'[<<"rule", i>>])
                    /\ RuleKept(session', i, promised'[<<"rule", i>>])
  BY DEF RulePromises
<1> DEFINE v == promised[<<"rule", i>>]
           w == promised'[<<"rule", i>>]
<1>1. CASE RuleKept(committed', i, w) /\ RuleKept(session', i, w)
  BY <1>1
<1>2. CASE /\ w = v
           /\ RuleSameAt(committed', committed, i) \/ RuleSameAt(committed', session, i)
           /\ RuleSameAt(session', committed, i) \/ RuleSameAt(session', session, i)
  <2>1. RuleKept(committed, i, w) /\ RuleKept(session, i, w)
    BY <1>2 DEF RulePromises
  <2> HIDE DEF v, w
  <2> QED BY <1>2, <2>1, SameRuleKept DEF w
<1> QED BY <1>1, <1>2 DEF RuleNews

(* The same for a workflow. *)
FlowNews(f) ==
  \/ promised'[<<"flow", f>>] = Unknown
  \/ /\ FlowKept(committed', f, promised'[<<"flow", f>>], mixed')
     /\ FlowKept(session', f, promised'[<<"flow", f>>], mixed')
  \/ /\ promised'[<<"flow", f>>] = promised[<<"flow", f>>]
     /\ FlowSameAt(committed', committed, f) \/ FlowSameAt(committed', session, f)
     /\ FlowSameAt(session', committed, f) \/ FlowSameAt(session', session, f)

(* Then the promises for workflows are kept. *)
LEMMA FlowPromisesNext ==
  ASSUME FlowPromises, mixed \subseteq mixed', \A f \in FlowIds : FlowNews(f) PROVE FlowPromises'
<1> SUFFICES ASSUME NEW f \in FlowIds, promised'[<<"flow", f>>] # Unknown
             PROVE  /\ FlowKept(committed', f, promised'[<<"flow", f>>], mixed')
                    /\ FlowKept(session', f, promised'[<<"flow", f>>], mixed')
  BY DEF FlowPromises
<1> DEFINE v == promised[<<"flow", f>>]
           w == promised'[<<"flow", f>>]
<1>1. CASE FlowKept(committed', f, w, mixed') /\ FlowKept(session', f, w, mixed')
  BY <1>1
<1>2. CASE /\ w = v
           /\ FlowSameAt(committed', committed, f) \/ FlowSameAt(committed', session, f)
           /\ FlowSameAt(session', committed, f) \/ FlowSameAt(session', session, f)
  <2>1. FlowKept(committed, f, w, mixed) /\ FlowKept(session, f, w, mixed)
    BY <1>2 DEF FlowPromises
  <2> HIDE DEF v, w
  <2> QED BY <1>2, <2>1, SameFlowKept DEF w
<1> QED BY <1>1, <1>2 DEF FlowNews

(* f has no orphans in the new tables db. *)
Housed(db, f) ==
  \/ FlowSameAt(db, committed, f) \/ FlowSameAt(db, session, f)
  \/ f \in db.flows \/ <<"flow", f>> \in mixed' \/ StoredOrder(db, f) = {}

(* Then there are no orphans. *)
LEMMA NoOrphansNext ==
  ASSUME NoOrphans(committed), NoOrphans(session), mixed \subseteq mixed',
         \A f \in FlowIds : Housed(committed', f) /\ Housed(session', f)
  PROVE  NoOrphans(committed)' /\ NoOrphans(session)'
BY DEF NoOrphans, NoMembers, Housed, FlowSameAt

(* After the step workflow f is whole, or it is as it was where it was     *)
(* whole.                                                                  *)
WholeNext(f) ==
  /\ \/ f \notin committed'.flows
     \/ Whole(committed', f, mixed')
     \/ FlowSameAt(committed', committed, f)
     \/ FlowSameAt(committed', session, f) /\ ~BeingSaved(f)
  /\ \/ f \notin session'.flows
     \/ Whole(session', f, mixed')
     \/ BeingSaved(f)'
     \/ FlowSameAt(session', committed, f)
     \/ FlowSameAt(session', session, f) /\ ~BeingSaved(f)

(* Then the stored workflows are whole. *)
LEMMA AllWholeNext ==
  ASSUME AllWhole, mixed \subseteq mixed', committed' \in Tables, session' \in Tables,
         \A f \in FlowIds : WholeNext(f)
  PROVE  AllWhole'
<1>0. \A f : f \in committed'.flows \/ f \in session'.flows => f \in FlowIds
  BY DEF Tables
<1>1. ASSUME NEW f \in committed'.flows PROVE Whole(committed', f, mixed')
  BY <1>0, <1>1 DEF WholeNext, AllWhole, Whole, FlowSameAt
<1>2. ASSUME NEW f \in session'.flows PROVE Whole(session', f, mixed') \/ BeingSaved(f)'
  BY <1>0, <1>2 DEF WholeNext, AllWhole, Whole, FlowSameAt
<1> QED BY <1>1, <1>2 DEF AllWhole

-----------------------------------------------------------------------------
(* One statement of a thread. *)
RunShape(u) ==
  /\ session' = Effect(Head(todo[u]), session) /\ ~Conflict(Head(todo[u]), session)
  /\ Head(todo[u]).op \notin {"begin", "commit"}
  /\ committed' = IF owner = NoValue THEN session' ELSE committed
  /\ owner' = owner
  /\ \A v \in Users : v # u => todo'[v] = todo[v] /\ writes'[v] = writes[v]
  /\ \A v \in Users, q \in DbRepositories : v # u => (dbLock'[q] = v <=> dbLock[q] = v)
  /\ mixed \subseteq mixed'
  /\ owner \notin {u, NoValue} => DOMAIN writes[u] \subseteq mixed'
  /\ Len(todo[u]) = 1 => todo'[u] = << >> /\ \A q \in DbRepositories : dbLock'[q] # u
  /\ Len(todo[u]) # 1 => todo'[u] = Tail(todo[u]) /\ writes'[u] = writes[u] /\ dbLock' = dbLock
  /\ \A x \in Entities :
       \/ promised'[x] = promised[x]
       \/ /\ x \in DOMAIN writes[u] /\ Len(todo[u]) = 1 /\ owner \in {u, NoValue}
          /\ promised'[x] = writes[u][x]

(* A call that is over leaves its lock, and the other threads theirs. *)
LEMMA ReturnLocks ==
  ASSUME DbTyped, NEW u \in Users, NEW ok, NEW met, Return(u, ok, met)
  PROVE  /\ todo'[u] = << >> /\ \A q \in DbRepositories : dbLock'[q] # u
         /\ \A v \in Users : v # u => todo'[v] = todo[v] /\ writes'[v] = writes[v]
         /\ \A v \in Users, q \in DbRepositories : v # u => (dbLock'[q] = v <=> dbLock[q] = v)
         /\ dbLock' \in [DbRepositories -> Users \cup {NoValue}]
         /\ DOMAIN todo' = Users /\ todo' = [v \in Users |-> todo'[v]]
         /\ DOMAIN writes' = Users /\ writes' = [v \in Users |-> writes'[v]]
         /\ DOMAIN promised' = Entities /\ promised' = [x \in Entities |-> promised'[x]]
<1>0. NoValue \notin Users
  BY DbAssumption
<1>1. DOMAIN todo = Users /\ DOMAIN writes = Users /\ dbLock \in [DbRepositories -> Users \cup {NoValue}]
  BY DEF DbTyped
<1>2. todo' = [todo EXCEPT ![u] = << >>] /\ writes' = [writes EXCEPT ![u] = Unknown]
  BY DEF Return
<1>3. todo'[u] = << >> /\ \A v \in Users : v # u => todo'[v] = todo[v] /\ writes'[v] = writes[v]
  BY <1>1, <1>2
<1>4. /\ DOMAIN todo' = Users /\ todo' = [v \in Users |-> todo'[v]]
      /\ DOMAIN writes' = Users /\ writes' = [v \in Users |-> writes'[v]]
  BY <1>1, <1>2
<1>5. dbLock' = [q \in DbRepositories |-> IF dbLock[q] = u THEN NoValue ELSE dbLock[q]]
  BY DEF Return
<1>6. \A q \in DbRepositories : dbLock'[q] # u
  BY <1>0, <1>5
<1>7. \A v \in Users, q \in DbRepositories : v # u => (dbLock'[q] = v <=> dbLock[q] = v)
  BY <1>0, <1>5
<1>8. dbLock' \in [DbRepositories -> Users \cup {NoValue}]
  BY <1>1, <1>5
<1>9. DOMAIN promised' = Entities /\ promised' = [x \in Entities |-> promised'[x]]
  BY DEF Return
<1> QED BY <1>3, <1>4, <1>6, <1>7, <1>8, <1>9

(* A statement has this shape. *)
LEMMA RunIs == ASSUME DbTyped, NEW u \in Users, Run(u) PROVE RunShape(u)
<1> DEFINE met == IF owner \notin {u, NoValue} THEN exposed \cup {u} ELSE exposed
<1>1. /\ session' = Effect(Head(todo[u]), session) /\ ~Conflict(Head(todo[u]), session)
      /\ Head(todo[u]).op \notin {"begin", "commit"}
      /\ committed' = IF owner = NoValue THEN session' ELSE committed
      /\ owner' = owner
  BY DEF Run
<1>2. mixed \subseteq mixed' /\ (owner \notin {u, NoValue} => DOMAIN writes[u] \subseteq mixed')
  BY DEF Run
<1>3. CASE Len(todo[u]) = 1
  <2>1. Return(u, TRUE, met)
    BY <1>3 DEF Run
  <2>2. \A x \in Entities :
          \/ promised'[x] = promised[x]
          \/ x \in DOMAIN writes[u] /\ owner \in {u, NoValue} /\ promised'[x] = writes[u][x]
    BY <2>1 DEF Return
  <2> HIDE DEF met
  <2>3. /\ todo'[u] = << >> /\ \A q \in DbRepositories : dbLock'[q] # u
        /\ \A v \in Users : v # u => todo'[v] = todo[v] /\ writes'[v] = writes[v]
        /\ \A v \in Users, q \in DbRepositories : v # u => (dbLock'[q] = v <=> dbLock[q] = v)
    BY <2>1, ReturnLocks
  <2> QED BY <1>1, <1>2, <1>3, <2>2, <2>3 DEF RunShape
<1>4. CASE Len(todo[u]) # 1
  <2>1. todo' = [todo EXCEPT ![u] = Tail(@)] /\ UNCHANGED <<dbLock, promised, writes>>
    BY <1>4 DEF Run
  <2>2. todo'[u] = Tail(todo[u]) /\ \A v \in Users : v # u => todo'[v] = todo[v]
    BY <2>1 DEF DbTyped
  <2> QED BY <1>1, <1>2, <1>4, <2>1, <2>2 DEF RunShape
<1> QED BY <1>3, <1>4

(* A statement keeps the types, and takes back no promise but its own. *)
LEMMA RunBase ==
  ASSUME DbInv, NEW u \in Users, Run(u), session' \in Tables
  PROVE  DbTyped' /\ Synced' /\ NothingPromised'
<1>0. DbTyped /\ Synced /\ Threads /\ NothingPromised
  BY DEF DbInv
<1> DEFINE met == IF owner \notin {u, NoValue} THEN exposed \cup {u} ELSE exposed
<1>1. todo[u] # << >> /\ met \subseteq Users /\ DOMAIN writes[u] \subseteq Entities
  BY <1>0, WritesAreEntities DEF Run, DbTyped
<1>2. RunShape(u)
  BY <1>0, RunIs
<1>3. /\ committed' \in Tables /\ owner' \in Users \cup {NoValue}
      /\ mixed' \subseteq Entities /\ calls' = calls /\ faults' = faults
  BY <1>0, <1>1 DEF Run, DbTyped
<1>4. exposed' \subseteq Users
  <2>1. CASE Len(todo[u]) = 1
    BY <1>1, <2>1 DEF Run, Return
  <2>2. CASE Len(todo[u]) # 1
    BY <1>1, <2>2 DEF Run
  <2> QED BY <2>1, <2>2
<1>5. /\ dbLock' \in [DbRepositories -> Users \cup {NoValue}]
      /\ DOMAIN todo' = Users /\ todo' = [v \in Users |-> todo'[v]]
      /\ DOMAIN writes' = Users /\ writes' = [v \in Users |-> writes'[v]]
      /\ DOMAIN promised' = Entities /\ promised' = [x \in Entities |-> promised'[x]]
  <2>1. CASE Len(todo[u]) = 1
    <3>1. Return(u, TRUE, met)
      BY <2>1 DEF Run
    <3> HIDE DEF met
    <3> QED BY <3>1, <1>0, ReturnLocks
  <2>2. CASE Len(todo[u]) # 1
    <3>1. todo' = [todo EXCEPT ![u] = Tail(@)] /\ UNCHANGED <<dbLock, promised, writes>>
      BY <2>2 DEF Run
    <3> QED BY <3>1, <1>0 DEF DbTyped
  <2> QED BY <2>1, <2>2
<1>6. DbTyped'
  BY <1>0, <1>3, <1>4, <1>5 DEF DbTyped
<1>7. Synced'
  BY <1>2 DEF RunShape, Synced
<1>8. NothingPromised'
  <2> SUFFICES ASSUME NEW v \in Users, todo'[v] # << >>, NEW x \in DOMAIN writes'[v]
               PROVE  promised'[x] = Unknown
    BY DEF NothingPromised
  <2>1. CASE v = u
    <3>1. Len(todo[u]) # 1
      BY <2>1, <1>2 DEF RunShape
    <3>2. writes'[u] = writes[u] /\ x \in Entities
      BY <2>1, <3>1, <1>1, <1>2 DEF RunShape
    <3>3. promised'[x] = promised[x]
      BY <3>1, <3>2, <1>2 DEF RunShape
    <3> QED BY <2>1, <3>2, <3>3, <1>0, <1>1 DEF NothingPromised
  <2>2. CASE v # u
    <3>1. todo'[v] = todo[v] /\ writes'[v] = writes[v]
      BY <2>2, <1>2 DEF RunShape
    <3>2. x \in DOMAIN writes[v] /\ x \in Entities /\ x \notin DOMAIN writes[u]
      BY <2>2, <3>1, <1>0, <1>1, WritesAreEntities, WritesDisjoint
    <3>3. promised'[x] = promised[x]
      BY <3>2, <1>2 DEF RunShape
    <3> QED BY <3>1, <3>2, <3>3, <1>0 DEF NothingPromised
  <2> QED BY <2>1, <2>2
<1> QED BY <1>6, <1>7, <1>8

(* Tables that hold the same workflows. *)
FlowsSame(a, b) == a.flows = b.flows /\ SameOrders(a, b)

(* A statement of one repository spares the threads in the others. *)
LEMMA RunSpares ==
  ASSUME Synced, NEW u \in Users, RunShape(u),
         dbLock["rules"] = u \/ session'.rules = session.rules,
         dbLock["workflows"] = u \/ FlowsSame(session', session)
  PROVE  Spares(u)
<1> SUFFICES ASSUME NEW v \in Users, v # u
    PROVE  /\ todo'[v] = todo[v] /\ writes'[v] = writes[v]
           /\ owner' = v <=> owner = v
           /\ \A q \in DbRepositories : dbLock'[q] = v <=> dbLock[q] = v
           /\ owner = v /\ dbLock["rules"] = v => session'.rules = session.rules
           /\ dbLock["workflows"] = v =>
                /\ owner = v => session'.flows = session.flows /\ SameOrders(session', session)
                /\ \A f \in FlowIds : NoneLeft(f) => NoneLeft(f)'
  BY DEF Spares, RunShape
<1>1. /\ todo'[v] = todo[v] /\ writes'[v] = writes[v]
      /\ owner' = v <=> owner = v
      /\ \A q \in DbRepositories : dbLock'[q] = v <=> dbLock[q] = v
      /\ owner = v /\ dbLock["rules"] = v => session'.rules = session.rules
  BY DEF RunShape
<1>2. ASSUME dbLock["workflows"] = v
      PROVE  /\ session'.flows = session.flows /\ SameOrders(session', session)
             /\ \A f \in FlowIds : NoneLeft(f) => NoneLeft(f)'
  <2>1. FlowsSame(session', session)
    BY <1>2
  <2>2. ASSUME NEW f \in FlowIds, NoneLeft(f) PROVE NoneLeft(f)'
    <3>1. StoredOrder(session', f) = {}
      BY <2>1, <2>2 DEF FlowsSame, SameOrders, NoneLeft, NoMembers
    <3>2. StoredOrder(committed', f) = {}
      BY <2>2, <3>1 DEF RunShape, NoneLeft, NoMembers
    <3> QED BY <3>1, <3>2 DEF NoneLeft, NoMembers
  <2> QED BY <2>1, <2>2 DEF FlowsSame
<1> QED BY <1>1, <1>2

(* All threads after a step of one of them. *)
LEMMA ThreadsNext == ASSUME Threads, NEW u \in Users, Spares(u), Thread(u)' PROVE Threads'
<1> SUFFICES ASSUME NEW v \in Users PROVE Thread(v)'
  BY DEF Threads
<1> QED BY OtherThreads

(* The last statement of a call outside of a transaction ends it. *)
LEMMA RunDone ==
  ASSUME NEW u \in Users, RunShape(u), Len(todo[u]) = 1, owner # u PROVE Thread(u)'
BY DEF RunShape, Thread, IdleThread

(* A statement is committed at once when no transaction is open, and not   *)
(* at all otherwise.                                                       *)
LEMMA CommittedIs ==
  ASSUME Synced, NEW u \in Users, RunShape(u)
  PROVE  \/ committed' = committed /\ owner # NoValue
         \/ committed' = session' /\ committed = session /\ owner = NoValue
BY DEF RunShape, Synced

(* Statements on rules and versions leave the workflows in order. *)
LEMMA FlowsUntouched ==
  ASSUME DbInv, NEW u \in Users, RunShape(u), DbTyped', SameFlows(session', session),
         \A f \in FlowIds : <<"flow", f>> \notin DOMAIN writes[u]
  PROVE  NoOrphans(committed)' /\ NoOrphans(session)' /\ AllWhole' /\ FlowPromises'
<1>0. /\ DbTyped /\ Synced /\ NoOrphans(committed) /\ NoOrphans(session) /\ AllWhole /\ FlowPromises
      /\ committed' \in Tables /\ session' \in Tables
  BY DEF DbInv, DbTyped
<1>1. ASSUME NEW f \in FlowIds
      PROVE  FlowSameAt(session', session, f) /\ FlowSameAt(committed', committed, f)
  <2>1. FlowSameAt(session', session, f)
    BY DEF SameFlows, FlowSameAt, StoredOrder, MembersOf
  <2>2. committed' = committed \/ (committed' = session' /\ committed = session)
    BY <1>0, CommittedIs
  <2> QED BY <2>1, <2>2 DEF FlowSameAt
<1>2. NoOrphans(committed)' /\ NoOrphans(session)'
  BY <1>0, <1>1, NoOrphansNext DEF Housed, RunShape
<1>3. ASSUME NEW f \in FlowIds PROVE WholeNext(f)
  <2>1. CASE BeingSaved(f)
    <3>1. owner # u /\ owner \in Users
      BY <2>1 DEF BeingSaved
    <3>2. BeingSaved(f)'
      BY <2>1, <3>1 DEF BeingSaved, RunShape
    <3> QED BY <1>1, <3>2 DEF WholeNext
  <2>2. CASE ~BeingSaved(f)
    BY <2>2, <1>1 DEF WholeNext
  <2> QED BY <2>1, <2>2
<1>m. mixed \subseteq mixed'
  BY DEF RunShape
<1>4. AllWhole'
  BY <1>0, <1>m, <1>3, AllWholeNext
<1>5. ASSUME NEW f \in FlowIds PROVE FlowNews(f)
  <2>1. <<"flow", f>> \in Entities
    BY DEF Entities
  <2>2. promised'[<<"flow", f>>] = promised[<<"flow", f>>]
    BY <2>1 DEF RunShape
  <2> QED BY <1>1, <2>2 DEF FlowNews
<1>6. FlowPromises'
  BY <1>0, <1>m, <1>5, FlowPromisesNext
<1> QED BY <1>2, <1>4, <1>6

(* Statements on workflows and versions leave the rules in order. *)
LEMMA RulesUntouched ==
  ASSUME DbInv, NEW u \in Users, RunShape(u), session'.rules = session.rules,
         \A i \in RuleIds : <<"rule", i>> \notin DOMAIN writes[u]
  PROVE  RulePromises'
<1>0. RulePromises /\ Synced
  BY DEF DbInv
<1>1. ASSUME NEW i \in RuleIds PROVE RuleNews(i)
  <2>1. <<"rule", i>> \in Entities
    BY DEF Entities
  <2>2. promised'[<<"rule", i>>] = promised[<<"rule", i>>]
    BY <2>1 DEF RunShape
  <2>3. RuleSameAt(session', session, i)
    BY DEF RuleSameAt
  <2>4. committed' = committed \/ (committed' = session' /\ committed = session)
    BY <1>0, CommittedIs
  <2>5. RuleSameAt(committed', committed, i)
    BY <2>3, <2>4 DEF RuleSameAt
  <2> QED BY <2>2, <2>3, <2>5 DEF RuleNews
<1> QED BY <1>0, <1>1, RulePromisesNext

(* A statement of the version repository. *)
LEMMA VersionsRun == ASSUME DbInv, NEW u \in Users, Run(u), VersionsThread(u) PROVE DbInv'
<1>0. DbTyped /\ Synced /\ Threads /\ session \in Tables
  BY DEF DbInv, DbTyped
<1>1. RunShape(u)
  BY <1>0, RunIs
<1>2. PICK i \in RuleIds : todo[u] \in {SaveVersion(1, i), RemoveVersions(i)}
  BY DEF VersionsThread
<1>3. /\ Len(todo[u]) = 1
      /\ \/ Head(todo[u]) = [op |-> "insertVersion", version |-> 1, rule |-> i]
         \/ Head(todo[u]) = [op |-> "deleteVersions", rule |-> i]
  BY <1>2 DEF SaveVersion, RemoveVersions
<1>4. session' \in Tables /\ SameFlows(session', session) /\ session'.rules = session.rules
  BY <1>0, <1>1, <1>3, VersionEffects DEF RunShape
<1>5. DbTyped' /\ Synced' /\ NothingPromised'
  BY <1>4, RunBase
<1>6. DOMAIN writes[u] = {} /\ owner # u
  BY DEF VersionsThread
<1>7. NoOrphans(committed)' /\ NoOrphans(session)' /\ AllWhole' /\ FlowPromises' /\ RulePromises'
  BY <1>1, <1>4, <1>5, <1>6, FlowsUntouched, RulesUntouched
<1>8. FlowsSame(session', session)
  BY <1>4 DEF SameFlows, FlowsSame, SameOrders, StoredOrder, MembersOf
<1>9. Spares(u)
  BY <1>0, <1>1, <1>4, <1>8, RunSpares
<1>10. Threads'
  BY <1>0, <1>1, <1>3, <1>6, <1>9, RunDone, ThreadsNext
<1> QED BY <1>5, <1>7, <1>10 DEF DbInv

(* A statement of the rule repository: save inside its transaction, remove *)
(* and clear inside whichever is open.                                     *)
LEMMA RulesRun == ASSUME DbInv, NEW u \in Users, Run(u), RulesThread(u) PROVE DbInv'
<1>0. DbTyped /\ Synced /\ Threads /\ session \in Tables /\ RulePromises /\ NothingPromised
  BY DEF DbInv, DbTyped
<1>1. RunShape(u) /\ todo[u] # << >>
  BY <1>0, RunIs DEF Run
<1>2. dbLock["rules"] = u /\ HoldsOnly(u, "rules")
  BY DEF RulesThread, HoldsOnly
<1>u. \A x \in DOMAIN writes[u] : promised[x] = Unknown
  BY <1>0, <1>1 DEF NothingPromised
<1>n. NoValue \notin Users
  BY DbAssumption
<1> DEFINE s == Head(todo[u])
<1>3. ASSUME session' \in Tables, s.op \in {"upsertRule", "deleteRule", "deleteRules"}, Thread(u)',
             \A i \in RuleIds : RuleNews(i)
      PROVE  DbInv'
  <2>1. DbTyped' /\ Synced' /\ NothingPromised'
    BY <1>3, RunBase
  <2>2. SameFlows(session', session)
    BY <1>0, <1>1, <1>3 DEF RunShape, Effect, SameFlows, Tables
  <2>3. \A f \in FlowIds : <<"flow", f>> \notin DOMAIN writes[u]
    BY RulesActive
  <2>4. NoOrphans(committed)' /\ NoOrphans(session)' /\ AllWhole' /\ FlowPromises'
    BY <1>1, <2>1, <2>2, <2>3, FlowsUntouched
  <2>5. FlowsSame(session', session)
    BY <2>2 DEF SameFlows, FlowsSame, SameOrders, StoredOrder, MembersOf
  <2>6. Spares(u)
    BY <1>0, <1>1, <1>2, <2>5, RunSpares
  <2>7. Threads'
    BY <1>0, <1>3, <2>6, ThreadsNext
  <2>8. RulePromises'
    BY <1>0, <1>3, RulePromisesNext
  <2> QED BY <2>1, <2>4, <2>7, <2>8 DEF DbInv
<1>4. ASSUME NEW i \in RuleIds, NEW r \in RuleRecords, SavingRule(u, i, r) PROVE DbInv'
  <2>1. /\ todo[u] = <<[op |-> "upsertRule", rule |-> i, row |-> ToRow(r)], Sql("commit")>>
        /\ owner = u /\ writes[u] = One(<<"rule", i>>, r)
    <3>1. s.op \notin {"begin", "commit"}
      BY <1>1 DEF RunShape
    <3>2. todo[u] # SaveRule(i, r) /\ todo[u] # <<Sql("commit")>>
      BY <3>1 DEF SaveRule, Sql
    <3> QED BY <1>4, <3>2 DEF SavingRule
  <2>2. s = [op |-> "upsertRule", rule |-> i, row |-> ToRow(r)] /\ Len(todo[u]) = 2
    BY <2>1
  <2>3. todo'[u] = <<Sql("commit")>> /\ writes'[u] = writes[u] /\ dbLock' = dbLock
    BY <1>1, <2>1, <2>2 DEF RunShape
  <2> HIDE DEF s
  <2>4. /\ session' \in Tables /\ i \in DOMAIN session'.rules /\ session'.rules[i] = ToRow(r)
        /\ \A j \in RuleIds : j # i => RuleSameAt(session', session, j)
    <3>1. session' = Effect(s, session)
      BY <1>1 DEF RunShape, s
    <3> QED BY <1>0, <2>2, <3>1, RuleEffects DEF RuleSameAt
  <2>5. Thread(u)'
    <3>1. HoldsOnly(u, "rules")'
      BY <1>2, <2>3 DEF HoldsOnly
    <3>2. SavingRule(u, i, r)'
      BY <1>1, <2>1, <2>3, <2>4 DEF SavingRule, RunShape
    <3> QED BY <3>1, <3>2 DEF Thread, RulesThread
  <2>6. committed' = committed
    BY <1>1, <1>n, <2>1 DEF RunShape
  <2>7. ASSUME NEW j \in RuleIds PROVE RuleNews(j)
    <3>1. <<"rule", j>> \in Entities
      BY DEF Entities
    <3>2. promised'[<<"rule", j>>] = promised[<<"rule", j>>]
      BY <3>1, <1>1, <2>2 DEF RunShape
    <3>3. CASE j = i
      <4>1. <<"rule", i>> \in DOMAIN writes[u]
        BY <2>1 DEF One
      <4> QED BY <3>2, <3>3, <4>1, <1>u DEF RuleNews
    <3>4. CASE j # i
      BY <3>2, <3>4, <2>4, <2>6 DEF RuleNews, RuleSameAt
    <3> QED BY <3>3, <3>4
  <2>8. s.op = "upsertRule"
    BY <2>2
  <2> QED BY <1>3, <2>4, <2>5, <2>7, <2>8
<1>5. ASSUME owner # u, Len(todo[u]) = 1, session' \in Tables,
             \A x \in DOMAIN writes[u] : writes[u][x] = NoValue,
             \A j \in RuleIds : IF <<"rule", j>> \in DOMAIN writes[u] THEN j \notin DOMAIN session'.rules
                                ELSE RuleSameAt(session', session, j)
      PROVE  Thread(u)' /\ \A j \in RuleIds : RuleNews(j)
  <2>1. Thread(u)'
    BY <1>1, <1>5, RunDone
  <2>2. ASSUME NEW j \in RuleIds PROVE RuleNews(j)
    <3>1. <<"rule", j>> \in Entities
      BY DEF Entities
    <3>2. CASE <<"rule", j>> \in DOMAIN writes[u]
      <4>1. promised[<<"rule", j>>] = Unknown
        BY <1>u, <3>2
      <4>2. CASE promised'[<<"rule", j>>] = promised[<<"rule", j>>]
        BY <4>1, <4>2 DEF RuleNews
      <4>3. CASE owner \in {u, NoValue} /\ promised'[<<"rule", j>>] = writes[u][<<"rule", j>>]
        <5>1. committed' = session' /\ promised'[<<"rule", j>>] = NoValue
          BY <1>1, <1>5, <3>2, <4>3 DEF RunShape
        <5>2. j \notin DOMAIN session'.rules
          BY <1>5, <3>2
        <5> QED BY <5>1, <5>2 DEF RuleNews, RuleKept
      <4> QED BY <1>1, <3>1, <4>2, <4>3 DEF RunShape
    <3>3. CASE <<"rule", j>> \notin DOMAIN writes[u]
      <4>1. promised'[<<"rule", j>>] = promised[<<"rule", j>>]
        BY <1>1, <3>1, <3>3 DEF RunShape
      <4>2. RuleSameAt(session', session, j)
        BY <1>5, <3>3
      <4>3. committed' = committed \/ committed' = session'
        BY <1>1 DEF RunShape
      <4> QED BY <4>1, <4>2, <4>3 DEF RuleNews, RuleSameAt
    <3> QED BY <3>2, <3>3
  <2> QED BY <2>1, <2>2
<1>6. ASSUME NEW i \in RuleIds, RemovingRule(u, i) PROVE DbInv'
  <2>1. /\ s = [op |-> "deleteRule", rule |-> i] /\ Len(todo[u]) = 1 /\ owner # u
        /\ writes[u] = One(<<"rule", i>>, NoValue) /\ s.op = "deleteRule"
    BY <1>6 DEF RemovingRule, RemoveRuleRow
  <2> HIDE DEF s
  <2>2. session' = Effect(s, session)
    BY <1>1 DEF RunShape, s
  <2>3. \E r : r \in RuleRecords
    BY DbAssumption
  <2>4. /\ session' \in Tables /\ i \notin DOMAIN session'.rules
        /\ \A j \in RuleIds : j # i => RuleSameAt(session', session, j)
    BY <1>0, <2>1, <2>2, <2>3, RuleEffects DEF RuleSameAt
  <2>5. DOMAIN writes[u] = {<<"rule", i>>} /\ writes[u][<<"rule", i>>] = NoValue
    BY <2>1 DEF One
  <2>6. \A j \in RuleIds : IF <<"rule", j>> \in DOMAIN writes[u] THEN j \notin DOMAIN session'.rules
                           ELSE RuleSameAt(session', session, j)
    BY <2>4, <2>5
  <2> QED BY <1>3, <1>5, <2>1, <2>4, <2>5, <2>6
<1>7. ASSUME ClearingRules(u) PROVE DbInv'
  <2>1. /\ s = Sql("deleteRules") /\ Len(todo[u]) = 1 /\ owner # u
        /\ writes[u] = All("rule", RuleIds) /\ s.op = "deleteRules"
    BY <1>7 DEF ClearingRules, ClearRules, Sql
  <2> HIDE DEF s
  <2>2. session' = [session EXCEPT !.rules = << >>]
    BY <1>1, <2>1 DEF RunShape, Effect, s
  <2>3. session' \in Tables /\ session'.rules = << >> /\ DOMAIN << >> = {}
    BY <1>0, <2>2, EmptyTables DEF Tables
  <2>4. \A x \in DOMAIN writes[u] : writes[u][x] = NoValue
    BY <2>1 DEF All
  <2>5. \A j \in RuleIds : <<"rule", j>> \in DOMAIN writes[u]
    BY <2>1 DEF All
  <2>6. \A j \in RuleIds : IF <<"rule", j>> \in DOMAIN writes[u] THEN j \notin DOMAIN session'.rules
                           ELSE RuleSameAt(session', session, j)
    BY <2>3, <2>5
  <2> QED BY <1>3, <1>5, <2>1, <2>3, <2>4, <2>6
<1> QED BY <1>4, <1>6, <1>7 DEF RulesThread

(* What is left to show for a statement of the workflow repository. *)
LEMMA FlowsWrapUp ==
  ASSUME DbInv, NEW u \in Users, Run(u), FlowsThread(u), session' \in Tables,
         session'.rules = session.rules, Thread(u)',
         \A f \in FlowIds : /\ Housed(committed', f) /\ Housed(session', f)
                            /\ WholeNext(f) /\ FlowNews(f)
  PROVE  DbInv'
<1>0. /\ DbTyped /\ Synced /\ Threads /\ NoOrphans(committed) /\ NoOrphans(session) /\ AllWhole
      /\ FlowPromises
  BY DEF DbInv
<1>1. RunShape(u) /\ dbLock["workflows"] = u
  BY <1>0, RunIs DEF FlowsThread, HoldsOnly
<1>2. DbTyped' /\ Synced' /\ NothingPromised'
  BY RunBase
<1>3. \A i \in RuleIds : <<"rule", i>> \notin DOMAIN writes[u]
  BY FlowsActive
<1>4. RulePromises'
  BY <1>1, <1>3, RulesUntouched
<1>5. Spares(u)
  BY <1>0, <1>1, RunSpares
<1>6. Threads'
  BY <1>0, <1>5, ThreadsNext
<1>7. NoOrphans(committed)' /\ NoOrphans(session)'
  BY <1>0, <1>1, NoOrphansNext DEF RunShape
<1>m. mixed \subseteq mixed'
  BY <1>1 DEF RunShape
<1>8. AllWhole'
  BY <1>0, <1>2, <1>m, AllWholeNext DEF DbTyped
<1>9. FlowPromises'
  BY <1>0, <1>m, FlowPromisesNext
<1> QED BY <1>2, <1>4, <1>6, <1>7, <1>8, <1>9 DEF DbInv

(* While remove or clear of workflows runs, no workflow is being saved. *)
LEMMA NobodySaves ==
  ASSUME Threads, NEW u \in Users, FlowsThread(u), owner # u, NEW f \in FlowIds PROVE ~BeingSaved(f)
<1> SUFFICES ASSUME owner \in Users, <<"flow", f>> \in DOMAIN writes[owner] PROVE FALSE
  BY DEF BeingSaved
<1>1. CASE RulesThread(owner)
  BY <1>1, RulesActive
<1>2. CASE FlowsThread(owner)
  BY <1>2 DEF FlowsThread, HoldsOnly
<1> QED BY <1>1, <1>2, OwnerSaves

(* The two statements of remove and clear, as they leave workflow f. *)
MembersGone(u, f) ==
  IF <<"flow", f>> \in DOMAIN writes[u]
  THEN StoredOrder(session', f) = {} /\ (f \in session'.flows <=> f \in session.flows)
  ELSE FlowSameAt(session', session, f)
FlowGone(u, f) ==
  IF <<"flow", f>> \in DOMAIN writes[u]
  THEN /\ f \notin session'.flows /\ StoredOrder(session', f) = StoredOrder(session, f)
       /\ <<"flow", f>> \in mixed \/ NoneLeft(f)
  ELSE FlowSameAt(session', session, f)

(* The members are deleted: in both tables, or the workflow counts as      *)
(* mixed.                                                                  *)
LEMMA FirstHalf ==
  ASSUME DbInv, NEW u \in Users, RunShape(u), FlowsThread(u), owner # u, Len(todo[u]) # 1,
         NEW f \in FlowIds, MembersGone(u, f)
  PROVE  /\ Housed(committed', f) /\ Housed(session', f) /\ WholeNext(f) /\ FlowNews(f)
         /\ <<"flow", f>> \in DOMAIN writes[u] => (<<"flow", f>> \in mixed' \/ NoneLeft(f)')
<1>0. DbTyped /\ Synced /\ Threads /\ NothingPromised /\ todo[u] # << >>
  BY FlowsActive DEF DbInv
<1>1. ~BeingSaved(f)
  BY <1>0, NobodySaves
<1>2. \/ committed' = committed /\ owner # NoValue
      \/ committed' = session' /\ committed = session /\ owner = NoValue
  BY <1>0, CommittedIs
<1>3. <<"flow", f>> \in Entities
  BY DEF Entities
<1>4. promised'[<<"flow", f>>] = promised[<<"flow", f>>]
  BY <1>3 DEF RunShape
<1>5. CASE <<"flow", f>> \in DOMAIN writes[u]
  <2>1. StoredOrder(session', f) = {} /\ (f \in session'.flows <=> f \in session.flows)
    BY <1>5 DEF MembersGone
  <2>2. promised[<<"flow", f>>] = Unknown
    BY <1>0, <1>5 DEF NothingPromised
  <2>3. FlowNews(f)
    BY <1>4, <2>2 DEF FlowNews
  <2>4. Housed(committed', f) /\ Housed(session', f)
    BY <1>2, <2>1 DEF Housed, FlowSameAt
  <2>5. WholeNext(f)
    BY <1>2, <2>1 DEF WholeNext, Whole, FlowSameAt
  <2>6. <<"flow", f>> \in mixed' \/ NoneLeft(f)'
    BY <1>2, <1>5, <2>1 DEF RunShape, NoneLeft, NoMembers
  <2> QED BY <2>3, <2>4, <2>5, <2>6
<1>6. CASE <<"flow", f>> \notin DOMAIN writes[u]
  <2>1. FlowSameAt(session', session, f)
    BY <1>6 DEF MembersGone
  <2>2. FlowSameAt(committed', committed, f)
    BY <2>1, <1>2 DEF FlowSameAt
  <2> QED BY <1>1, <1>4, <1>6, <2>1, <2>2 DEF Housed, WholeNext, FlowNews
<1> QED BY <1>5, <1>6

(* The workflow is deleted after its members. *)
LEMMA SecondHalf ==
  ASSUME DbInv, NEW u \in Users, RunShape(u), FlowsThread(u), owner # u, Len(todo[u]) = 1,
         \A x \in DOMAIN writes[u] : writes[u][x] = NoValue,
         NEW f \in FlowIds, FlowGone(u, f)
  PROVE  Housed(committed', f) /\ Housed(session', f) /\ WholeNext(f) /\ FlowNews(f)
<1>0. DbTyped /\ Synced /\ Threads /\ NothingPromised /\ todo[u] # << >>
  BY FlowsActive DEF DbInv
<1>1. ~BeingSaved(f)
  BY <1>0, NobodySaves
<1>2. \/ committed' = committed /\ owner # NoValue
      \/ committed' = session' /\ committed = session /\ owner = NoValue
  BY <1>0, CommittedIs
<1>3. <<"flow", f>> \in Entities /\ mixed \subseteq mixed'
  BY DEF Entities, RunShape
<1>5. CASE <<"flow", f>> \in DOMAIN writes[u]
  <2>1. /\ f \notin session'.flows /\ StoredOrder(session', f) = StoredOrder(session, f)
        /\ <<"flow", f>> \in mixed \/ NoneLeft(f)
    BY <1>5 DEF FlowGone
  <2>2. promised[<<"flow", f>>] = Unknown
    BY <1>0, <1>5 DEF NothingPromised
  <2>3. FlowNews(f)
    <3>1. CASE promised'[<<"flow", f>>] = promised[<<"flow", f>>]
      BY <2>2, <3>1 DEF FlowNews
    <3>2. CASE owner \in {u, NoValue} /\ promised'[<<"flow", f>>] = writes[u][<<"flow", f>>]
      <4>1. committed' = session' /\ promised'[<<"flow", f>>] = NoValue
        BY <3>2, <1>2, <1>5
      <4> QED BY <2>1, <4>1 DEF FlowNews, FlowKept
    <3> QED BY <1>3, <3>1, <3>2 DEF RunShape
  <2>4. Housed(committed', f) /\ Housed(session', f)
    BY <1>2, <1>3, <2>1 DEF Housed, FlowSameAt, NoneLeft, NoMembers
  <2>5. WholeNext(f)
    BY <1>2, <2>1 DEF WholeNext, FlowSameAt
  <2> QED BY <2>3, <2>4, <2>5
<1>6. CASE <<"flow", f>> \notin DOMAIN writes[u]
  <2>1. FlowSameAt(session', session, f)
    BY <1>6 DEF FlowGone
  <2>2. FlowSameAt(committed', committed, f)
    BY <2>1, <1>2 DEF FlowSameAt
  <2>3. promised'[<<"flow", f>>] = promised[<<"flow", f>>]
    BY <1>3, <1>6 DEF RunShape
  <2> QED BY <1>1, <1>6, <2>1, <2>2, <2>3 DEF Housed, WholeNext, FlowNews
<1> QED BY <1>5, <1>6

(* A statement of remove. *)
LEMMA RemoveFlowRun ==
  ASSUME DbInv, NEW u \in Users, Run(u), FlowsThread(u), NEW f \in FlowIds, RemovingFlow(u, f)
  PROVE  DbInv'
<1>0. DbTyped /\ Synced /\ Threads /\ session \in Tables /\ HoldsOnly(u, "workflows")
  BY DEF DbInv, DbTyped, FlowsThread
<1>1. RunShape(u)
  BY <1>0, RunIs
<1>2. owner # u /\ DOMAIN writes[u] = {<<"flow", f>>} /\ writes[u][<<"flow", f>>] = NoValue
  BY DEF RemovingFlow, One
<1> DEFINE s == Head(todo[u])
<1>3. session' = Effect(s, session)
  BY <1>1 DEF RunShape
<1>4. CASE todo[u] = RemoveFlow(f)
  <2>1. s = [op |-> "deleteMembers", flow |-> f] /\ Len(todo[u]) # 1
        /\ Tail(todo[u]) = <<[op |-> "deleteFlow", flow |-> f]>> /\ s.op \in FlowOps
    BY <1>4 DEF RemoveFlow, FlowOps
  <2> HIDE DEF s
  <2>2. /\ session' \in Tables /\ session'.rules = session.rules /\ session'.flows = session.flows
        /\ StoredOrder(session', f) = {} /\ SameOtherOrders(session', session, f)
    BY <1>0, <1>3, <2>1, FlowEffects
  <2>3. \A g \in FlowIds : MembersGone(u, g)
    BY <1>2, <2>2 DEF MembersGone, FlowSameAt, SameOtherOrders
  <2>4. \A g \in FlowIds : /\ Housed(committed', g) /\ Housed(session', g)
                           /\ WholeNext(g) /\ FlowNews(g)
    BY <1>1, <1>2, <2>1, <2>3, FirstHalf
  <2>5. <<"flow", f>> \in mixed' \/ NoneLeft(f)'
    BY <1>1, <1>2, <2>1, <2>3, FirstHalf
  <2>6. RemovingFlow(u, f)'
    BY <1>1, <2>1, <2>5 DEF RunShape, RemovingFlow
  <2>7. Thread(u)'
    BY <1>0, <1>1, <2>1, <2>6 DEF Thread, FlowsThread, HoldsOnly, RunShape
  <2> QED BY <2>2, <2>4, <2>7, FlowsWrapUp
<1>5. CASE /\ todo[u] = <<[op |-> "deleteFlow", flow |-> f]>>
           /\ <<"flow", f>> \in mixed \/ NoneLeft(f)
  <2>1. s = [op |-> "deleteFlow", flow |-> f] /\ Len(todo[u]) = 1 /\ s.op \in FlowOps
    BY <1>5 DEF FlowOps
  <2> HIDE DEF s
  <2>2. /\ session' \in Tables /\ session'.rules = session.rules /\ session'.flows = session.flows \ {f}
        /\ SameOrders(session', session)
    BY <1>0, <1>3, <2>1, FlowEffects
  <2>3. \A g \in FlowIds : FlowGone(u, g)
    BY <1>2, <1>5, <2>2 DEF FlowGone, FlowSameAt, SameOrders
  <2>4. \A g \in FlowIds : /\ Housed(committed', g) /\ Housed(session', g)
                           /\ WholeNext(g) /\ FlowNews(g)
    BY <1>1, <1>2, <2>1, <2>3, SecondHalf
  <2>5. Thread(u)'
    BY <1>1, <1>2, <2>1, RunDone
  <2> QED BY <2>2, <2>4, <2>5, FlowsWrapUp
<1> QED BY <1>4, <1>5 DEF RemovingFlow

(* A statement of clear. *)
LEMMA ClearFlowsRun ==
  ASSUME DbInv, NEW u \in Users, Run(u), FlowsThread(u), ClearingFlows(u) PROVE DbInv'
<1>0. DbTyped /\ Synced /\ Threads /\ session \in Tables /\ HoldsOnly(u, "workflows")
  BY DEF DbInv, DbTyped, FlowsThread
<1>1. RunShape(u)
  BY <1>0, RunIs
<1>2. /\ owner # u /\ \A g \in FlowIds : <<"flow", g>> \in DOMAIN writes[u]
      /\ \A x \in DOMAIN writes[u] : writes[u][x] = NoValue
  BY DEF ClearingFlows, All
<1> DEFINE s == Head(todo[u])
<1>3. session' = Effect(s, session)
  BY <1>1 DEF RunShape
<1>4. CASE todo[u] = ClearFlows
  <2>1. s = Sql("deleteAllMembers") /\ Len(todo[u]) # 1
        /\ Tail(todo[u]) = <<Sql("deleteFlows")>> /\ s.op = "deleteAllMembers"
    BY <1>4 DEF ClearFlows, Sql
  <2> HIDE DEF s
  <2>2. session' = [session EXCEPT !.members = << >>]
    BY <1>3, <2>1 DEF Effect
  <2>3. /\ session' \in Tables /\ session'.rules = session.rules /\ session'.flows = session.flows
        /\ session'.members = << >> /\ DOMAIN << >> = {}
    BY <1>0, <2>2, EmptyTables DEF Tables
  <2>4. \A g \in FlowIds : StoredOrder(session', g) = {}
    BY <2>3, NoMembersIs
  <2>5. \A g \in FlowIds : MembersGone(u, g)
    BY <1>2, <2>3, <2>4 DEF MembersGone
  <2>6. \A g \in FlowIds : /\ Housed(committed', g) /\ Housed(session', g)
                           /\ WholeNext(g) /\ FlowNews(g)
                           /\ <<"flow", g>> \in mixed' \/ NoneLeft(g)'
    BY <1>1, <1>2, <2>1, <2>5, FirstHalf
  <2>7. ClearingFlows(u)'
    BY <1>1, <2>1, <2>6 DEF RunShape, ClearingFlows
  <2>8. Thread(u)'
    BY <1>0, <1>1, <2>1, <2>7 DEF Thread, FlowsThread, HoldsOnly, RunShape
  <2> QED BY <2>3, <2>6, <2>8, FlowsWrapUp
<1>5. CASE /\ todo[u] = <<Sql("deleteFlows")>>
           /\ \A g \in FlowIds : <<"flow", g>> \in mixed \/ NoneLeft(g)
  <2>1. s = Sql("deleteFlows") /\ Len(todo[u]) = 1 /\ s.op = "deleteFlows"
    BY <1>5 DEF Sql
  <2> HIDE DEF s
  <2>2. session' = [session EXCEPT !.flows = {}]
    BY <1>3, <2>1 DEF Effect
  <2>3. /\ session' \in Tables /\ session'.rules = session.rules /\ session'.flows = {}
        /\ session'.members = session.members
    BY <1>0, <2>2 DEF Tables
  <2>4. \A g \in FlowIds : FlowGone(u, g)
    BY <1>2, <1>5, <2>3 DEF FlowGone, StoredOrder, MembersOf
  <2>5. \A g \in FlowIds : /\ Housed(committed', g) /\ Housed(session', g)
                           /\ WholeNext(g) /\ FlowNews(g)
    BY <1>1, <1>2, <2>1, <2>4, SecondHalf
  <2>6. Thread(u)'
    BY <1>1, <1>2, <2>1, RunDone
  <2> QED BY <2>3, <2>5, <2>6, FlowsWrapUp
<1> QED BY <1>4, <1>5 DEF ClearingFlows

(* One more member. *)
LEMMA OrderGrows ==
  ASSUME NEW rs, NEW j \in Nat PROVE OrderUpTo(rs, j + 1) = OrderUpTo(rs, j) \cup {<<j + 1, rs[j + 1]>>}
<1>1. \A k : k \in 1 .. j + 1 <=> k \in 1 .. j \/ k = j + 1
  OBVIOUS
<1>2. \A p : p \in OrderUpTo(rs, j + 1) <=> p \in OrderUpTo(rs, j) \cup {<<j + 1, rs[j + 1]>>}
  BY <1>1 DEF OrderUpTo
<1> QED BY <1>2

(* A statement of save of a workflow: only the session has it in pieces. *)
LEMMA SaveFlowRun ==
  ASSUME DbInv, NEW u \in Users, Run(u), FlowsThread(u), NEW f \in FlowIds, NEW rs \in Orders,
         SavingFlow(u, f, rs)
  PROVE  DbInv'
<1>0. /\ DbTyped /\ Synced /\ Threads /\ NothingPromised /\ session \in Tables
      /\ HoldsOnly(u, "workflows") /\ NoValue \notin Users /\ rs \in Seq(RuleIds) /\ Len(rs) \in Nat
  <2>1. rs \in Seq(RuleIds) /\ NoValue \notin Users
    BY DbAssumption
  <2> QED BY <2>1 DEF DbInv, DbTyped, FlowsThread
<1>1. RunShape(u) /\ todo[u] # << >>
  BY <1>0, RunIs DEF Run
<1>2. DOMAIN writes[u] = {<<"flow", f>>} /\ writes[u] = One(<<"flow", f>>, OrderOf(rs))
  BY DEF SavingFlow, One
<1>3. PICK n \in 1 .. Len(rs) + 3 : AtStep(u, f, rs, n)
  BY DEF SavingFlow
<1> DEFINE s == Head(todo[u])
<1>4. s = SaveStep(f, rs, n) /\ Len(todo[u]) = Len(rs) + 4 - n /\ s.op \notin {"begin", "commit"}
  <2>1. todo[u] = StepsFrom(f, rs, n)
    BY <1>3 DEF AtStep
  <2>2. Head(todo[u]).op \notin {"begin", "commit"}
    BY <1>1 DEF RunShape
  <2> QED BY ZenonT(30), <1>0, <2>1, <2>2, StepsLeft
<1>5. n # 1 /\ n # Len(rs) + 3
  BY <1>4, <1>0 DEF SaveStep, Sql
<1>n. n \in Nat /\ n > 1 /\ n < Len(rs) + 3 /\ Len(todo[u]) # 1 /\ n + 1 \in 1 .. Len(rs) + 3
  BY <1>0, <1>4, <1>5
<1>6. /\ todo'[u] = StepsFrom(f, rs, n + 1) /\ writes'[u] = writes[u] /\ dbLock' = dbLock
      /\ owner = u /\ owner' = u /\ committed' = committed
  <2>1. todo[u] = StepsFrom(f, rs, n) /\ owner = u
    BY <1>3, <1>n DEF AtStep
  <2>2. Tail(todo[u]) = StepsFrom(f, rs, n + 1)
    BY <1>0, <1>n, <2>1, StepsLeft
  <2>3. todo'[u] = Tail(todo[u]) /\ writes'[u] = writes[u] /\ dbLock' = dbLock
    BY <1>1, <1>n DEF RunShape
  <2>4. owner' = owner /\ (owner # NoValue => committed' = committed)
    BY <1>1 DEF RunShape
  <2> QED BY <1>0, <2>1, <2>2, <2>3, <2>4
<1>7. session' = Effect(s, session) /\ ~Conflict(s, session)
  BY <1>1 DEF RunShape
<1> HIDE DEF s
<1>8. ASSUME session' \in Tables, session'.rules = session.rules, f \in session'.flows,
             HasOrder(session', f, OrderUpTo(rs, n - 2), mixed'),
             \A g \in FlowIds : g # f => FlowSameAt(session', session, g)
      PROVE  DbInv'
  <2>1. (n + 1) - 3 = n - 2 /\ n + 1 # 1
    BY <1>n
  <2>2. AtStep(u, f, rs, n + 1)'
    BY <1>6, <1>8, <2>1 DEF AtStep
  <2>3. SavingFlow(u, f, rs)'
    BY <1>2, <1>6, <1>n, <2>2 DEF SavingFlow
  <2>4. Thread(u)'
    BY <1>0, <1>6, <2>3 DEF Thread, FlowsThread, HoldsOnly
  <2>5. ASSUME NEW g \in FlowIds
        PROVE  Housed(committed', g) /\ Housed(session', g) /\ WholeNext(g) /\ FlowNews(g)
    <3>1. FlowSameAt(committed', committed, g)
      BY <1>6 DEF FlowSameAt
    <3>2. <<"flow", g>> \in Entities
      BY DEF Entities
    <3>3. promised'[<<"flow", g>>] = promised[<<"flow", g>>]
      BY <1>1, <1>n, <3>2 DEF RunShape
    <3>4. CASE g = f
      <4>1. promised[<<"flow", f>>] = Unknown
        BY <1>0, <1>1, <1>2 DEF NothingPromised
      <4>2. BeingSaved(f)'
        BY <1>2, <1>6 DEF BeingSaved
      <4> QED BY <1>8, <3>1, <3>3, <3>4, <4>1, <4>2 DEF Housed, WholeNext, FlowNews
    <3>5. CASE g # f
      <4>1. ~BeingSaved(g)
        BY <1>2, <1>6, <3>5 DEF BeingSaved
      <4>2. FlowSameAt(session', session, g)
        BY <1>8, <3>5
      <4> QED BY <3>1, <3>3, <4>1, <4>2 DEF Housed, WholeNext, FlowNews
    <3> QED BY <3>4, <3>5
  <2> QED BY <1>8, <2>4, <2>5, FlowsWrapUp
<1>m. mixed \subseteq mixed' /\ NoOrphans(session)
  BY <1>1 DEF RunShape, DbInv
<1>9. CASE n = 2
  <2>1. s = [op |-> "writeFlow", flow |-> f] /\ s.op \in FlowOps
    <3>1. s = [op |-> "writeFlow", flow |-> f]
      BY <1>4, <1>9 DEF SaveStep
    <3> QED BY <3>1 DEF FlowOps
  <2>2. /\ session' \in Tables /\ session'.rules = session.rules
        /\ session'.flows = session.flows \cup {f} /\ SameOtherOrders(session', session, f)
        /\ StoredOrder(session', f) = IF f \in session.flows THEN {} ELSE StoredOrder(session, f)
    BY <1>0, <1>7, <2>1, FlowEffects
  <2>3. OrderUpTo(rs, n - 2) = {}
    BY <1>9 DEF OrderUpTo
  <2>4. StoredOrder(session', f) = {} \/ <<"flow", f>> \in mixed'
    BY <1>m, <2>2 DEF NoOrphans, NoMembers
  <2>5. HasOrder(session', f, OrderUpTo(rs, n - 2), mixed')
    BY <2>3, <2>4 DEF HasOrder
  <2> QED BY <1>8, <2>2, <2>5 DEF SameOtherOrders, FlowSameAt
<1>10. CASE n > 2
  <2>0. n - 2 \in Nat /\ n - 2 \in 1 .. Len(rs) /\ n - 3 \in Nat /\ (n - 3) + 1 = n - 2
    BY <1>0, <1>n, <1>10
  <2>1. rs[n - 2] \in RuleIds
    BY <1>0, <2>0
  <2>2. s = [op |-> "insertMember", flow |-> f, rule |-> rs[n - 2], order |-> n - 2] /\ s.op \in FlowOps
    <3>1. s = [op |-> "insertMember", flow |-> f, rule |-> rs[n - 2], order |-> n - 2]
      BY <1>0, <1>4, <1>5, <1>10 DEF SaveStep
    <3> QED BY <3>1 DEF FlowOps
  <2>3. f \in session.flows /\ HasOrder(session, f, OrderUpTo(rs, n - 3), mixed)
    BY <1>3, <1>n, <1>10 DEF AtStep
  <2> DEFINE i == rs[n - 2]
             m == n - 2
  <2>4. i \in RuleIds /\ m \in Nat /\ s = [op |-> "insertMember", flow |-> f, rule |-> i, order |-> m]
    BY <2>0, <2>1, <2>2
  <2>6. OrderUpTo(rs, m) = OrderUpTo(rs, n - 3) \cup {<<m, i>>}
    BY <2>0, OrderGrows
  <2> HIDE DEF i, m
  <2>7. /\ session' \in Tables /\ session'.rules = session.rules /\ session'.flows = session.flows
        /\ SameOtherOrders(session', session, f)
        /\ StoredOrder(session', f) = StoredOrder(session, f) \cup {<<m, i>>}
    BY <1>0, <1>7, <2>4, InsertEffect
  <2>8. HasOrder(session', f, OrderUpTo(rs, m), mixed')
    BY <1>m, <2>3, <2>6, <2>7 DEF HasOrder
  <2> QED BY <1>8, <2>3, <2>7, <2>8 DEF SameOtherOrders, FlowSameAt, m
<1> QED BY <1>9, <1>10, <1>n

(* Any statement of any repository. *)
LEMMA RunInv == ASSUME DbInv, NEW u \in Users, Run(u) PROVE DbInv'
<1>1. Thread(u) /\ ~IdleThread(u)
  BY DEF DbInv, Threads, Run, IdleThread
<1>2. CASE FlowsThread(u)
  BY <1>2, SaveFlowRun, RemoveFlowRun, ClearFlowsRun DEF FlowsThread
<1> QED BY <1>1, <1>2, RulesRun, VersionsRun DEF Thread

-----------------------------------------------------------------------------
(* The other steps. *)
LEMMA TablesKept ==
  ASSUME DbInv, UNCHANGED <<committed, session, mixed>>,
         \A x \in Entities : promised'[x] \in {Unknown, promised[x]},
         \A f \in FlowIds : BeingSaved(f) => BeingSaved(f)'
  PROVE  NoOrphans(committed)' /\ NoOrphans(session)' /\ AllWhole' /\ FlowPromises' /\ RulePromises'
<1>0. /\ NoOrphans(committed) /\ NoOrphans(session) /\ AllWhole /\ FlowPromises /\ RulePromises
      /\ committed \in Tables /\ session \in Tables
      /\ committed' = committed /\ session' = session /\ mixed' = mixed
  BY DEF DbInv, DbTyped
<1>1. \A f \in FlowIds : FlowSameAt(session', session, f) /\ FlowSameAt(committed', committed, f)
  BY <1>0 DEF FlowSameAt
<1>2. \A i \in RuleIds : RuleSameAt(session', session, i) /\ RuleSameAt(committed', committed, i)
  BY <1>0 DEF RuleSameAt
<1>3. NoOrphans(committed)' /\ NoOrphans(session)'
  BY <1>0, <1>1, NoOrphansNext DEF Housed
<1>4. \A f \in FlowIds : WholeNext(f)
  BY <1>1 DEF WholeNext
<1>5. AllWhole'
  BY <1>0, <1>4, AllWholeNext
<1>6. (\A f \in FlowIds : <<"flow", f>> \in Entities) /\ (\A i \in RuleIds : <<"rule", i>> \in Entities)
  BY DEF Entities
<1>7. \A f \in FlowIds : FlowNews(f)
  BY <1>1, <1>6 DEF FlowNews
<1>8. \A i \in RuleIds : RuleNews(i)
  BY <1>2, <1>6 DEF RuleNews
<1> QED BY <1>0, <1>3, <1>5, <1>7, <1>8, FlowPromisesNext, RulePromisesNext

(* A roll-back or a crash leaves what is committed. *)
LEMMA RolledBack ==
  ASSUME DbInv, UNCHANGED <<committed, mixed>>, session' = committed,
         \A x \in Entities : promised'[x] = promised[x]
  PROVE  NoOrphans(committed)' /\ NoOrphans(session)' /\ AllWhole' /\ FlowPromises' /\ RulePromises'
<1>0. /\ NoOrphans(committed) /\ NoOrphans(session) /\ AllWhole /\ FlowPromises /\ RulePromises
      /\ committed \in Tables /\ session \in Tables
      /\ committed' = committed /\ session' = committed /\ mixed' = mixed
  BY DEF DbInv, DbTyped
<1>1. \A f \in FlowIds : FlowSameAt(session', committed, f) /\ FlowSameAt(committed', committed, f)
  BY <1>0 DEF FlowSameAt
<1>2. \A i \in RuleIds : RuleSameAt(session', committed, i) /\ RuleSameAt(committed', committed, i)
  BY <1>0 DEF RuleSameAt
<1>3. NoOrphans(committed)' /\ NoOrphans(session)'
  BY <1>0, <1>1, NoOrphansNext DEF Housed
<1>4. \A f \in FlowIds : WholeNext(f)
  BY <1>1 DEF WholeNext
<1>5. AllWhole'
  BY <1>0, <1>4, AllWholeNext
<1>6. (\A f \in FlowIds : <<"flow", f>> \in Entities) /\ (\A i \in RuleIds : <<"rule", i>> \in Entities)
  BY DEF Entities
<1>7. \A f \in FlowIds : FlowNews(f)
  BY <1>1, <1>6 DEF FlowNews
<1>8. \A i \in RuleIds : RuleNews(i)
  BY <1>2, <1>6 DEF RuleNews
<1> QED BY <1>0, <1>3, <1>5, <1>7, <1>8, FlowPromisesNext, RulePromisesNext

(* A thread has no statements exactly when it is outside of the            *)
(* repositories.                                                           *)
LEMMA NotIdle == ASSUME Threads, NEW u \in Users PROVE IdleThread(u) <=> todo[u] = << >>
<1>1. IdleThread(u) => todo[u] = << >>
  BY DEF IdleThread
<1>2. RulesThread(u) \/ FlowsThread(u) \/ VersionsThread(u) => todo[u] # << >>
  BY RulesActive, FlowsActive, VersionsActive
<1> QED BY <1>1, <1>2 DEF Threads, Thread

(* A call that begins takes its lock. *)
LEMMA BeginIs ==
  ASSUME DbInv, NEW u \in Users, NEW repo \in DbRepositories, NEW list, NEW what,
         Begin(u, repo, list, what)
  PROVE  /\ HoldsOnly(u, repo)' /\ todo'[u] = list /\ writes'[u] = what /\ owner' # u
         /\ UNCHANGED <<committed, session, owner, exposed, mixed, faults>>
<1>0. DbTyped /\ Threads /\ IdleThread(u)
  BY NotIdle DEF DbInv, Begin
<1>1. todo' = [todo EXCEPT ![u] = list] /\ writes' = [writes EXCEPT ![u] = what]
  BY DEF Begin
<1>2. dbLock' = [dbLock EXCEPT ![repo] = u]
  BY DEF Begin
<1>3. HoldsOnly(u, repo)'
  BY <1>0, <1>2 DEF HoldsOnly, IdleThread, DbTyped
<1> QED BY <1>0, <1>1, <1>3 DEF Begin, DbTyped, IdleThread

(* A call that begins takes back what was promised of what it will write,  *)
(* and nothing else.                                                       *)
LEMMA BeginBase ==
  ASSUME DbInv, NEW u \in Users, NEW repo \in DbRepositories, NEW list, NEW what,
         Begin(u, repo, list, what), DOMAIN what \subseteq Entities, Thread(u)'
  PROVE  DbInv'
<1>0. /\ DbTyped /\ Synced /\ Threads /\ NothingPromised /\ IdleThread(u) /\ owner # u
      /\ NoValue \notin Users
  BY NotIdle, DbAssumption DEF DbInv, Begin, IdleThread
<1>1. /\ todo[u] = << >> /\ dbLock[repo] = NoValue /\ calls < MaxOps
      /\ todo' = [todo EXCEPT ![u] = list]
      /\ dbLock' = [dbLock EXCEPT ![repo] = u]
      /\ writes' = [writes EXCEPT ![u] = what]
      /\ promised' = [e \in Entities |-> IF e \in DOMAIN what THEN Unknown ELSE promised[e]]
      /\ calls' = calls + 1
      /\ UNCHANGED <<committed, session, owner, exposed, mixed, faults>>
  BY DEF Begin
<1>2. /\ todo'[u] = list /\ writes'[u] = what
      /\ \A v \in Users : v # u => todo'[v] = todo[v] /\ writes'[v] = writes[v]
      /\ DOMAIN todo' = Users /\ todo' = [v \in Users |-> todo'[v]]
      /\ DOMAIN writes' = Users /\ writes' = [v \in Users |-> writes'[v]]
  BY <1>0, <1>1 DEF DbTyped
<1>3. \A v \in Users, q \in DbRepositories : v # u => (dbLock'[q] = v <=> dbLock[q] = v)
  BY <1>0, <1>1 DEF DbTyped
<1>4. calls' \in 0 .. MaxOps
  BY <1>0, <1>1, DbAssumption DEF DbTyped
<1>5. DOMAIN promised' = Entities /\ promised' = [x \in Entities |-> promised'[x]]
  BY <1>1
<1>6. dbLock' \in [DbRepositories -> Users \cup {NoValue}]
  BY <1>0, <1>1 DEF DbTyped
<1>7. DbTyped'
  BY <1>0, <1>1, <1>2, <1>4, <1>5, <1>6 DEF DbTyped
<1>8. Synced'
  BY <1>0, <1>1 DEF Synced
<1>9. Spares(u)
  BY <1>1, <1>2, <1>3 DEF Spares, SameOrders, NoneLeft, NoMembers
<1>10. Threads'
  BY <1>0, <1>9, ThreadsNext
<1>11. NothingPromised'
  <2> SUFFICES ASSUME NEW v \in Users, todo'[v] # << >>, NEW x \in DOMAIN writes'[v]
               PROVE  promised'[x] = Unknown
    BY DEF NothingPromised
  <2>1. CASE v = u
    BY <2>1, <1>1, <1>2
  <2>2. CASE v # u
    <3>1. promised[x] = Unknown /\ x \in Entities
      BY <2>2, <1>0, <1>2, WritesAreEntities DEF NothingPromised
    <3> QED BY <3>1, <1>1
  <2> QED BY <2>1, <2>2
<1>12. \A x \in Entities : promised'[x] \in {Unknown, promised[x]}
  BY <1>1
<1>13. \A f \in FlowIds : BeingSaved(f) => BeingSaved(f)'
  BY <1>0, <1>1, <1>2 DEF BeingSaved
<1>14. NoOrphans(committed)' /\ NoOrphans(session)' /\ AllWhole' /\ FlowPromises' /\ RulePromises'
  BY <1>1, <1>12, <1>13, TablesKept
<1> QED BY <1>7, <1>8, <1>10, <1>11, <1>14 DEF DbInv

(* save, remove and clear of rules begin. *)
LEMMA CallRulesInv == ASSUME DbInv, NEW u \in Users, CallRules(u) PROVE DbInv'
<1>0. "rules" \in DbRepositories
  BY DEF DbRepositories
<1>1. ASSUME NEW i \in RuleIds, NEW r \in RuleRecords,
             Begin(u, "rules", SaveRule(i, r), One(<<"rule", i>>, r))
      PROVE  DbInv'
  <2>1. HoldsOnly(u, "rules")' /\ SavingRule(u, i, r)'
    BY <1>0, <1>1, BeginIs DEF SavingRule
  <2>2. Thread(u)' /\ DOMAIN One(<<"rule", i>>, r) \subseteq Entities
    BY <2>1 DEF Thread, RulesThread, One, Entities
  <2> QED BY <1>0, <1>1, <2>2, BeginBase
<1>2. ASSUME NEW i \in RuleIds, Begin(u, "rules", RemoveRuleRow(i), One(<<"rule", i>>, NoValue))
      PROVE  DbInv'
  <2>1. HoldsOnly(u, "rules")' /\ RemovingRule(u, i)'
    BY <1>0, <1>2, BeginIs DEF RemovingRule
  <2>2. Thread(u)' /\ DOMAIN One(<<"rule", i>>, NoValue) \subseteq Entities
    BY <2>1 DEF Thread, RulesThread, One, Entities
  <2> QED BY <1>0, <1>2, <2>2, BeginBase
<1>3. ASSUME Begin(u, "rules", ClearRules, All("rule", RuleIds)) PROVE DbInv'
  <2>1. HoldsOnly(u, "rules")' /\ ClearingRules(u)'
    BY <1>0, <1>3, BeginIs DEF ClearingRules
  <2>2. Thread(u)' /\ DOMAIN All("rule", RuleIds) \subseteq Entities
    BY <2>1 DEF Thread, RulesThread, All, Entities
  <2> QED BY <1>0, <1>3, <2>2, BeginBase
<1> QED BY <1>1, <1>2, <1>3 DEF CallRules

(* save, remove and clear of workflows begin. *)
LEMMA CallFlowsInv == ASSUME DbInv, NEW u \in Users, CallFlows(u) PROVE DbInv'
<1>0. "workflows" \in DbRepositories
  BY DEF DbRepositories
<1>1. ASSUME NEW f \in FlowIds, NEW rs \in Orders,
             Begin(u, "workflows", SaveFlow(f, rs), One(<<"flow", f>>, {<<k, rs[k]>> : k \in 1 .. Len(rs)}))
      PROVE  DbInv'
  <2>1. rs \in Seq(RuleIds) /\ Len(rs) \in Nat
    BY DbAssumption
  <2>2. Begin(u, "workflows", SaveFlow(f, rs), One(<<"flow", f>>, OrderOf(rs)))
    BY <1>1 DEF OrderOf, OrderUpTo
  <2>3. /\ HoldsOnly(u, "workflows")' /\ todo'[u] = SaveFlow(f, rs) /\ owner' # u
        /\ writes'[u] = One(<<"flow", f>>, OrderOf(rs))
    BY <1>0, <2>2, BeginIs
  <2>4. AtStep(u, f, rs, 1)'
    BY <2>1, <2>3, SaveFlowSteps DEF AtStep
  <2>5. 1 \in 1 .. Len(rs) + 3
    BY <2>1
  <2>6. SavingFlow(u, f, rs)'
    BY <2>3, <2>4, <2>5 DEF SavingFlow
  <2>7. Thread(u)' /\ DOMAIN One(<<"flow", f>>, OrderOf(rs)) \subseteq Entities
    BY <2>3, <2>6 DEF Thread, FlowsThread, One, Entities
  <2> QED BY <1>0, <2>2, <2>7, BeginBase
<1>2. ASSUME NEW f \in FlowIds, Begin(u, "workflows", RemoveFlow(f), One(<<"flow", f>>, NoValue))
      PROVE  DbInv'
  <2>1. HoldsOnly(u, "workflows")' /\ RemovingFlow(u, f)'
    BY <1>0, <1>2, BeginIs DEF RemovingFlow
  <2>2. Thread(u)' /\ DOMAIN One(<<"flow", f>>, NoValue) \subseteq Entities
    BY <2>1 DEF Thread, FlowsThread, One, Entities
  <2> QED BY <1>0, <1>2, <2>2, BeginBase
<1>3. ASSUME Begin(u, "workflows", ClearFlows, All("flow", FlowIds)) PROVE DbInv'
  <2>1. HoldsOnly(u, "workflows")' /\ ClearingFlows(u)'
    BY <1>0, <1>3, BeginIs DEF ClearingFlows
  <2>2. Thread(u)' /\ DOMAIN All("flow", FlowIds) \subseteq Entities
    BY <2>1 DEF Thread, FlowsThread, All, Entities
  <2> QED BY <1>0, <1>3, <2>2, BeginBase
<1> QED BY <1>1, <1>2, <1>3 DEF CallFlows

(* Methods of the version repository begin. *)
LEMMA CallVersionsInv == ASSUME DbInv, NEW u \in Users, CallVersions(u) PROVE DbInv'
<1>0. "versions" \in DbRepositories
  BY DEF DbRepositories
<1>1. PICK i \in RuleIds : \E list \in {SaveVersion(1, i), RemoveVersions(i)} :
        Begin(u, "versions", list, [x \in {} |-> NoValue])
  BY DEF CallVersions
<1>2. PICK list \in {SaveVersion(1, i), RemoveVersions(i)} :
        Begin(u, "versions", list, [x \in {} |-> NoValue])
  BY <1>1
<1> DEFINE none == [x \in {} |-> NoValue]
<1>3. DOMAIN none = {}
  OBVIOUS
<1> HIDE DEF none
<1>4. Begin(u, "versions", list, none)
  BY <1>2 DEF none
<1>5. HoldsOnly(u, "versions")' /\ todo'[u] = list /\ writes'[u] = none /\ owner' # u
  BY <1>0, <1>4, BeginIs
<1>6. Thread(u)'
  BY <1>3, <1>5 DEF Thread, VersionsThread
<1> QED BY <1>0, <1>3, <1>4, <1>6, BeginBase

(* A call is over, by return, error or commit: what that leaves in order. *)
LEMMA ReturnBase ==
  ASSUME DbInv, NEW u \in Users, NEW ok \in BOOLEAN, Return(u, ok, exposed), todo[u] # << >>,
         committed' \in Tables, session' \in Tables, owner' \in Users \cup {NoValue}, owner' # u,
         mixed' = mixed, calls' = calls, faults' \in 0 .. MaxFaults, Spares(u)
  PROVE  DbTyped' /\ Threads' /\ NothingPromised'
<1>0. DbTyped /\ Threads /\ NothingPromised
  BY DEF DbInv
<1>1. /\ todo'[u] = << >> /\ \A q \in DbRepositories : dbLock'[q] # u
      /\ \A v \in Users : v # u => todo'[v] = todo[v] /\ writes'[v] = writes[v]
      /\ dbLock' \in [DbRepositories -> Users \cup {NoValue}]
      /\ DOMAIN todo' = Users /\ todo' = [v \in Users |-> todo'[v]]
      /\ DOMAIN writes' = Users /\ writes' = [v \in Users |-> writes'[v]]
      /\ DOMAIN promised' = Entities /\ promised' = [x \in Entities |-> promised'[x]]
  BY <1>0, ReturnLocks
<1>2. exposed' \subseteq Users
  BY <1>0 DEF Return, DbTyped
<1>3. DbTyped'
  BY <1>0, <1>1, <1>2 DEF DbTyped
<1>4. Thread(u)'
  BY <1>1 DEF Thread, IdleThread
<1>5. Threads'
  BY <1>0, <1>4, ThreadsNext
<1>6. NothingPromised'
  <2> SUFFICES ASSUME NEW v \in Users, todo'[v] # << >>, NEW x \in DOMAIN writes'[v]
               PROVE  promised'[x] = Unknown
    BY DEF NothingPromised
  <2>1. v # u /\ todo'[v] = todo[v] /\ writes'[v] = writes[v]
    BY <1>1
  <2>2. x \in Entities /\ x \notin DOMAIN writes[u] /\ promised[x] = Unknown
    BY <2>1, <1>0, WritesAreEntities, WritesDisjoint DEF NothingPromised
  <2> QED BY <2>2 DEF Return
<1> QED BY <1>3, <1>5, <1>6

(* A statement fails: the transaction of the thread is rolled back, with   *)
(* the statements other threads ran in it.                                 *)
LEMMA FailInv == ASSUME DbInv, NEW u \in Users, Fail(u) PROVE DbInv'
<1>0. DbTyped /\ Synced /\ Threads /\ NoValue \notin Users /\ todo[u] # << >>
  BY DbAssumption DEF DbInv, Fail
<1>1. /\ Return(u, FALSE, exposed)
      /\ owner' = IF owner = u THEN NoValue ELSE owner
      /\ session' = IF owner = u THEN committed ELSE session
      /\ committed' = committed /\ mixed' = mixed /\ calls' = calls
  BY DEF Fail
<1>2. faults' \in 0 .. MaxFaults
  BY <1>0, DbAssumption DEF Fail, DbTyped
<1>3. \A x \in Entities : promised'[x] = promised[x]
  BY <1>1 DEF Return
<1>4. /\ \A v \in Users : v # u => todo'[v] = todo[v] /\ writes'[v] = writes[v]
      /\ \A v \in Users, q \in DbRepositories : v # u => (dbLock'[q] = v <=> dbLock[q] = v)
  BY <1>0, <1>1, ReturnLocks
<1>5. Spares(u)
  <2>1. CASE owner = u
    BY <2>1, <1>0, <1>1, <1>4 DEF Spares, NoneLeft, NoMembers
  <2>2. CASE owner # u
    BY <2>2, <1>0, <1>1, <1>4 DEF Spares, NoneLeft, NoMembers, SameOrders
  <2> QED BY <2>1, <2>2
<1>6. DbTyped' /\ Threads' /\ NothingPromised'
  <2>1. /\ committed' \in Tables /\ session' \in Tables /\ owner' \in Users \cup {NoValue}
        /\ owner' # u /\ FALSE \in BOOLEAN
    BY <1>0, <1>1 DEF DbTyped
  <2> QED BY <2>1, <1>0, <1>1, <1>2, <1>5, ReturnBase
<1>7. Synced'
  BY <1>0, <1>1 DEF Synced
<1>8. NoOrphans(committed)' /\ NoOrphans(session)' /\ AllWhole' /\ FlowPromises' /\ RulePromises'
  <2>1. CASE owner = u
    BY <2>1, <1>1, <1>3, RolledBack
  <2>2. CASE owner # u
    <3>1. session' = session /\ owner' = owner
      BY <2>2, <1>1
    <3>2. \A f \in FlowIds : BeingSaved(f) => BeingSaved(f)'
      BY <2>2, <3>1, <1>4 DEF BeingSaved
    <3>3. \A x \in Entities : promised'[x] \in {Unknown, promised[x]}
      BY <1>3
    <3> QED BY <3>1, <3>2, <3>3, <1>1, TablesKept
  <2> QED BY <2>1, <2>2
<1> QED BY <1>6, <1>7, <1>8 DEF DbInv

(* soci::transaction begins, if no other is open. *)
LEMMA BeginTransactionInv ==
  ASSUME DbInv, NEW u \in Users, Transact(u), Head(todo[u]).op = "begin" PROVE DbInv'
<1>0. DbTyped /\ Synced /\ Threads /\ NothingPromised /\ NoValue \notin Users /\ todo[u] # << >>
  BY DbAssumption DEF DbInv, Transact
<1>1. /\ owner = NoValue /\ owner' = u /\ todo' = [todo EXCEPT ![u] = Tail(@)]
      /\ UNCHANGED <<committed, dbLock, promised, exposed, writes, session, mixed, calls, faults>>
  BY DEF Transact
<1>2. /\ todo'[u] = Tail(todo[u]) /\ \A v \in Users : v # u => todo'[v] = todo[v]
      /\ DOMAIN todo' = Users /\ todo' = [v \in Users |-> todo'[v]]
  BY <1>0, <1>1 DEF DbTyped
<1>3. DbTyped'
  BY <1>0, <1>1, <1>2 DEF DbTyped
<1>4. Synced' /\ Spares(u)
  BY <1>0, <1>1, <1>2 DEF Synced, Spares, SameOrders, NoneLeft, NoMembers
<1>5. NothingPromised'
  BY <1>0, <1>1, <1>2 DEF NothingPromised
<1>6. Thread(u)'
  <2>1. ASSUME NEW i \in RuleIds, NEW r \in RuleRecords, SavingRule(u, i, r), HoldsOnly(u, "rules")
        PROVE  Thread(u)'
    <3>1. todo[u] = SaveRule(i, r) /\ writes[u] = One(<<"rule", i>>, r)
      BY <2>1, <1>0, <1>1 DEF SavingRule
    <3>2. Tail(todo[u]) = <<[op |-> "upsertRule", rule |-> i, row |-> ToRow(r)], Sql("commit")>>
      BY <3>1 DEF SaveRule
    <3>3. SavingRule(u, i, r)' /\ HoldsOnly(u, "rules")'
      BY <2>1, <3>1, <3>2, <1>1, <1>2 DEF SavingRule, HoldsOnly
    <3> QED BY <3>3 DEF Thread, RulesThread
  <2>2. ASSUME NEW f \in FlowIds, NEW rs \in Orders, SavingFlow(u, f, rs), HoldsOnly(u, "workflows")
        PROVE  Thread(u)'
    <3>0. rs \in Seq(RuleIds) /\ Len(rs) \in Nat
      BY DbAssumption
    <3>1. PICK n \in 1 .. Len(rs) + 3 : AtStep(u, f, rs, n)
      BY <2>2 DEF SavingFlow
    <3>2. n = 1
      BY <3>0, <3>1, <1>0, <1>1 DEF AtStep
    <3>3. 1 \in 1 .. Len(rs) + 3 /\ 1 < Len(rs) + 3 /\ 2 \in 1 .. Len(rs) + 3 /\ 1 + 1 = 2
      BY <3>0
    <3>4. todo[u] = StepsFrom(f, rs, 1)
      BY <3>1, <3>2 DEF AtStep
    <3>5. Tail(todo[u]) = StepsFrom(f, rs, 2)
      BY <3>0, <3>3, <3>4, StepsLeft
    <3>6. AtStep(u, f, rs, 2)'
      BY <3>5, <1>1, <1>2 DEF AtStep
    <3>7. SavingFlow(u, f, rs)' /\ HoldsOnly(u, "workflows")'
      BY <2>2, <3>3, <3>6, <1>1 DEF SavingFlow, HoldsOnly
    <3> QED BY <3>7 DEF Thread, FlowsThread
  <2>3. ASSUME NEW i \in RuleIds PROVE ~RemovingRule(u, i)
    BY DEF RemovingRule, RemoveRuleRow
  <2>4. ~ClearingRules(u)
    BY DEF ClearingRules, ClearRules, Sql
  <2>5. ASSUME NEW f \in FlowIds, RemovingFlow(u, f) PROVE FALSE
    <3>1. Head(todo[u]).op \in {"deleteMembers", "deleteFlow"}
      BY <2>5 DEF RemovingFlow, RemoveFlow
    <3> QED BY <3>1
  <2>6. ASSUME ClearingFlows(u) PROVE FALSE
    <3>1. Head(todo[u]).op \in {"deleteAllMembers", "deleteFlows"}
      BY <2>6 DEF ClearingFlows, ClearFlows, Sql
    <3> QED BY <3>1
  <2>7. ~VersionsThread(u)
    BY DEF VersionsThread, SaveVersion, RemoveVersions
  <2>8. ~IdleThread(u)
    BY <1>0 DEF IdleThread
  <2>9. CASE RulesThread(u)
    BY <2>1, <2>3, <2>4, <2>9 DEF RulesThread
  <2>10. CASE FlowsThread(u)
    BY <2>2, <2>5, <2>6, <2>10 DEF FlowsThread
  <2> QED BY <2>7, <2>8, <2>9, <2>10, <1>0 DEF Threads, Thread
<1>7. Threads'
  BY <1>0, <1>4, <1>6, ThreadsNext
<1>8. \A f \in FlowIds : BeingSaved(f) => BeingSaved(f)'
  BY <1>0, <1>1 DEF BeingSaved
<1>9. NoOrphans(committed)' /\ NoOrphans(session)' /\ AllWhole' /\ FlowPromises' /\ RulePromises'
  BY <1>1, <1>8, TablesKept
<1> QED BY <1>3, <1>4, <1>5, <1>7, <1>9 DEF DbInv

(* commit: what the session shows is in the file, whole, and save returns. *)
LEMMA CommitInv ==
  ASSUME DbInv, NEW u \in Users, Transact(u), Head(todo[u]).op = "commit" PROVE DbInv'
<1>0. /\ DbTyped /\ Synced /\ Threads /\ NothingPromised /\ NoValue \notin Users /\ todo[u] # << >>
      /\ NoOrphans(committed) /\ NoOrphans(session) /\ AllWhole /\ FlowPromises /\ RulePromises
      /\ committed \in Tables /\ session \in Tables
  BY DbAssumption DEF DbInv, DbTyped, Transact
<1>1. /\ owner' = NoValue /\ committed' = session /\ Return(u, TRUE, exposed)
      /\ session' = session /\ mixed' = mixed /\ calls' = calls /\ faults' = faults
  BY DEF Transact
<1>2. /\ owner = u
      /\ \/ \E i \in RuleIds, r \in RuleRecords :
              /\ writes[u] = One(<<"rule", i>>, r)
              /\ i \in DOMAIN session.rules /\ session.rules[i] = ToRow(r)
         \/ \E f \in FlowIds, rs \in Orders :
              /\ writes[u] = One(<<"flow", f>>, OrderOf(rs))
              /\ f \in session.flows /\ HasOrder(session, f, OrderOf(rs), mixed)
  <2>1. ASSUME NEW i \in RuleIds, NEW r \in RuleRecords, SavingRule(u, i, r)
        PROVE  /\ owner = u /\ writes[u] = One(<<"rule", i>>, r)
               /\ i \in DOMAIN session.rules /\ session.rules[i] = ToRow(r)
    <3>1. /\ todo[u] # SaveRule(i, r)
          /\ todo[u] # <<[op |-> "upsertRule", rule |-> i, row |-> ToRow(r)], Sql("commit")>>
      BY DEF SaveRule, Sql
    <3> QED BY <2>1, <3>1 DEF SavingRule
  <2>2. ASSUME NEW f \in FlowIds, NEW rs \in Orders, SavingFlow(u, f, rs)
        PROVE  /\ owner = u /\ writes[u] = One(<<"flow", f>>, OrderOf(rs))
               /\ f \in session.flows /\ HasOrder(session, f, OrderOf(rs), mixed)
    <3>0. rs \in Seq(RuleIds) /\ Len(rs) \in Nat
      BY DbAssumption
    <3>1. PICK n \in 1 .. Len(rs) + 3 : AtStep(u, f, rs, n)
      BY <2>2 DEF SavingFlow
    <3>2. Head(todo[u]) = SaveStep(f, rs, n)
      BY <3>0, <3>1, StepsLeft DEF AtStep
    <3>3. n = Len(rs) + 3
      BY <3>2, <3>0 DEF SaveStep, Sql
    <3>4. n > 1 /\ n > 2 /\ n - 3 = Len(rs)
      BY <3>0, <3>3
    <3>5. owner = u /\ f \in session.flows /\ HasOrder(session, f, OrderUpTo(rs, Len(rs)), mixed)
      BY <3>1, <3>4 DEF AtStep
    <3> QED BY <2>2, <3>5 DEF SavingFlow, OrderOf
  <2>3. ASSUME NEW i \in RuleIds PROVE ~RemovingRule(u, i)
    BY DEF RemovingRule, RemoveRuleRow
  <2>4. ~ClearingRules(u)
    BY DEF ClearingRules, ClearRules, Sql
  <2>5. ASSUME NEW f \in FlowIds, RemovingFlow(u, f) PROVE FALSE
    <3>1. Head(todo[u]).op \in {"deleteMembers", "deleteFlow"}
      BY <2>5 DEF RemovingFlow, RemoveFlow
    <3> QED BY <3>1
  <2>6. ASSUME ClearingFlows(u) PROVE FALSE
    <3>1. Head(todo[u]).op \in {"deleteAllMembers", "deleteFlows"}
      BY <2>6 DEF ClearingFlows, ClearFlows, Sql
    <3> QED BY <3>1
  <2>7. ~VersionsThread(u)
    BY DEF VersionsThread, SaveVersion, RemoveVersions
  <2>8. ~IdleThread(u)
    BY <1>0 DEF IdleThread
  <2>9. CASE RulesThread(u)
    BY <2>1, <2>3, <2>4, <2>9 DEF RulesThread
  <2>10. CASE FlowsThread(u)
    BY <2>2, <2>5, <2>6, <2>10 DEF FlowsThread
  <2> QED BY <2>7, <2>8, <2>9, <2>10, <1>0 DEF Threads, Thread
<1>4. /\ \A v \in Users : v # u => todo'[v] = todo[v] /\ writes'[v] = writes[v]
      /\ \A v \in Users, q \in DbRepositories : v # u => (dbLock'[q] = v <=> dbLock[q] = v)
  BY <1>0, <1>1, ReturnLocks
<1>5. Spares(u)
  BY <1>0, <1>1, <1>2, <1>4 DEF Spares, NoneLeft, NoMembers
<1>6. DbTyped' /\ Threads' /\ NothingPromised'
  <2>1. /\ committed' \in Tables /\ session' \in Tables /\ owner' \in Users \cup {NoValue}
        /\ owner' # u /\ TRUE \in BOOLEAN /\ faults' \in 0 .. MaxFaults
    BY <1>0, <1>1 DEF DbTyped
  <2> QED BY <2>1, <1>0, <1>1, <1>5, ReturnBase
<1>7. Synced'
  BY <1>1 DEF Synced
<1>8. \A f \in FlowIds : FlowSameAt(committed', session, f) /\ FlowSameAt(session', session, f)
  BY <1>1 DEF FlowSameAt
<1>9. \A i \in RuleIds : RuleSameAt(committed', session, i) /\ RuleSameAt(session', session, i)
  BY <1>1 DEF RuleSameAt
<1>10. NoOrphans(committed)' /\ NoOrphans(session)'
  BY <1>0, <1>1, <1>8, NoOrphansNext DEF Housed
<1>11. \A x \in Entities : \/ promised'[x] = promised[x]
                           \/ x \in DOMAIN writes[u] /\ promised'[x] = writes[u][x]
  BY <1>1 DEF Return
<1>12. \A x \in DOMAIN writes[u] : promised[x] = Unknown
  BY <1>0 DEF NothingPromised
<1>13. (\A f \in FlowIds : <<"flow", f>> \in Entities) /\ (\A i \in RuleIds : <<"rule", i>> \in Entities)
  BY DEF Entities
<1>14. CASE \E i \in RuleIds, r \in RuleRecords :
              /\ writes[u] = One(<<"rule", i>>, r)
              /\ i \in DOMAIN session.rules /\ session.rules[i] = ToRow(r)
  <2>1. PICK i \in RuleIds, r \in RuleRecords :
          /\ writes[u] = One(<<"rule", i>>, r)
          /\ i \in DOMAIN session.rules /\ session.rules[i] = ToRow(r)
    BY <1>14
  <2>2. DOMAIN writes[u] = {<<"rule", i>>} /\ writes[u][<<"rule", i>>] = r /\ r # NoValue
    BY <2>1, RecordsAssumption DEF One
  <2>3. ASSUME NEW f \in FlowIds PROVE FlowNews(f) /\ WholeNext(f)
    <3>1. <<"flow", f>> \notin DOMAIN writes[u]
      BY <2>2
    <3>2. promised'[<<"flow", f>>] = promised[<<"flow", f>>] /\ ~BeingSaved(f)
      BY <3>1, <1>2, <1>11, <1>13 DEF BeingSaved
    <3> QED BY <3>2, <1>8 DEF FlowNews, WholeNext
  <2>4. ASSUME NEW j \in RuleIds PROVE RuleNews(j)
    <3>1. CASE promised'[<<"rule", j>>] = promised[<<"rule", j>>]
      BY <3>1, <1>9 DEF RuleNews
    <3>2. CASE <<"rule", j>> \in DOMAIN writes[u] /\ promised'[<<"rule", j>>] = writes[u][<<"rule", j>>]
      <4>1. j = i /\ promised'[<<"rule", j>>] = r
        BY <3>2, <2>2
      <4>2. RuleKept(session, i, r)
        BY <2>1, <2>2 DEF RuleKept
      <4> QED BY <4>1, <4>2, <1>1 DEF RuleNews
    <3> QED BY <3>1, <3>2, <1>11, <1>13
  <2>5. FlowPromises' /\ RulePromises'
    BY <1>0, <1>1, <2>3, <2>4, FlowPromisesNext, RulePromisesNext
  <2>6. AllWhole'
    BY <1>0, <1>1, <2>3, AllWholeNext
  <2> QED BY <1>6, <1>7, <1>10, <2>5, <2>6 DEF DbInv
<1>15. CASE \E f \in FlowIds, rs \in Orders :
              /\ writes[u] = One(<<"flow", f>>, OrderOf(rs))
              /\ f \in session.flows /\ HasOrder(session, f, OrderOf(rs), mixed)
  <2>1. PICK f \in FlowIds, rs \in Orders :
          /\ writes[u] = One(<<"flow", f>>, OrderOf(rs))
          /\ f \in session.flows /\ HasOrder(session, f, OrderOf(rs), mixed)
    BY <1>15
  <2>2. DOMAIN writes[u] = {<<"flow", f>>} /\ writes[u][<<"flow", f>>] = OrderOf(rs)
    BY <2>1 DEF One
  <2>n. OrderOf(rs) # NoValue
    BY RecordsAssumption DEF OrderOf, OrderUpTo
  <2>3. ASSUME NEW i \in RuleIds PROVE RuleNews(i)
    <3>1. <<"rule", i>> \notin DOMAIN writes[u]
      BY <2>2
    <3>2. promised'[<<"rule", i>>] = promised[<<"rule", i>>]
      BY <3>1, <1>11, <1>13
    <3> QED BY <3>2, <1>9 DEF RuleNews
  <2>4. ASSUME NEW g \in FlowIds PROVE FlowNews(g)
    <3>1. CASE promised'[<<"flow", g>>] = promised[<<"flow", g>>]
      BY <3>1, <1>8 DEF FlowNews
    <3>2. CASE <<"flow", g>> \in DOMAIN writes[u] /\ promised'[<<"flow", g>>] = writes[u][<<"flow", g>>]
      <4>1. g = f /\ promised'[<<"flow", g>>] = OrderOf(rs)
        BY <3>2, <2>2
      <4>2. FlowKept(session, f, OrderOf(rs), mixed)
        BY <2>1, <2>n DEF FlowKept
      <4> QED BY <4>1, <4>2, <1>1 DEF FlowNews
    <3> QED BY <3>1, <3>2, <1>11, <1>13
  <2>5. ASSUME NEW g \in FlowIds PROVE WholeNext(g)
    <3>1. CASE g = f
      <4>1. Whole(session, f, mixed)
        BY <2>1 DEF Whole, HasOrder
      <4> QED BY <3>1, <4>1, <1>1 DEF WholeNext
    <3>2. CASE g # f
      <4>1. ~BeingSaved(g)
        BY <3>2, <2>2, <1>2 DEF BeingSaved
      <4> QED BY <4>1, <1>8 DEF WholeNext
    <3> QED BY <3>1, <3>2
  <2>6. FlowPromises' /\ RulePromises'
    BY <1>0, <1>1, <2>3, <2>4, FlowPromisesNext, RulePromisesNext
  <2>7. AllWhole'
    BY <1>0, <1>1, <2>5, AllWholeNext
  <2> QED BY <1>6, <1>7, <1>10, <2>6, <2>7 DEF DbInv
<1> QED BY <1>2, <1>14, <1>15

(* The process dies between any two statements. *)
LEMMA DbCrashInv == ASSUME DbInv, DbCrash PROVE DbInv'
<1>0. DbTyped /\ NoValue \notin Users
  BY DbAssumption DEF DbInv
<1>1. /\ session' = committed /\ committed' = committed /\ owner' = NoValue /\ mixed' = mixed
      /\ promised' = promised /\ calls' = calls
      /\ todo' = [u \in Users |-> << >>] /\ dbLock' = [r \in DbRepositories |-> NoValue]
      /\ writes' = [u \in Users |-> Unknown] /\ exposed' = {}
  BY DEF DbCrash
<1>2. faults' \in 0 .. MaxFaults
  BY <1>0, DbAssumption DEF DbCrash, DbTyped
<1>3. DbTyped'
  BY <1>0, <1>1, <1>2 DEF DbTyped
<1>4. Threads' /\ NothingPromised' /\ Synced'
  BY <1>0, <1>1 DEF Threads, Thread, IdleThread, NothingPromised, Synced
<1>5. NoOrphans(committed)' /\ NoOrphans(session)' /\ AllWhole' /\ FlowPromises' /\ RulePromises'
  BY <1>1, RolledBack
<1> QED BY <1>3, <1>4, <1>5 DEF DbInv

(* The invariant reads no variable but the ones of the repositories. *)
LEMMA DbStutter == ASSUME DbInv, UNCHANGED dbVars PROVE DbInv'
<1>0. DbTyped /\ Synced /\ Threads /\ NothingPromised
  BY DEF DbInv
<1>1. /\ committed' = committed /\ session' = session /\ owner' = owner /\ todo' = todo
      /\ dbLock' = dbLock /\ writes' = writes /\ exposed' = exposed /\ mixed' = mixed
      /\ promised' = promised /\ calls' = calls /\ faults' = faults
  BY DEF dbVars
<1>2. DbTyped' /\ Synced' /\ NothingPromised'
  BY <1>0, <1>1 DEF DbTyped, Synced, NothingPromised
<1>3. Spares(NoValue)
  BY <1>1 DEF Spares, SameOrders, NoneLeft, NoMembers
<1>4. Threads'
  BY <1>0, <1>3, OtherThreads, DbAssumption DEF Threads
<1>5. \A f \in FlowIds : BeingSaved(f) => BeingSaved(f)'
  BY <1>1 DEF BeingSaved
<1>6. NoOrphans(committed)' /\ NoOrphans(session)' /\ AllWhole' /\ FlowPromises' /\ RulePromises'
  BY <1>1, <1>5, TablesKept
<1> QED BY <1>2, <1>4, <1>6 DEF DbInv

(* The empty schema. *)
LEMMA DbInitInv == DbInit => DbInv
<1> SUFFICES ASSUME DbInit PROVE DbInv
  OBVIOUS
<1>0. NoValue \notin Users /\ MaxOps \in Nat /\ MaxFaults \in Nat
  BY DbAssumption
<1>1. Empty \in Tables
  BY EmptyTables
<1>2. DbTyped
  BY <1>0, <1>1 DEF DbInit, DbTyped
<1>3. Synced /\ Threads /\ NothingPromised
  BY <1>0 DEF DbInit, Synced, Threads, Thread, IdleThread, NothingPromised
<1>4. Empty.flows = {} /\ Empty.members = << >> /\ DOMAIN << >> = {}
  BY EmptyTables DEF Empty
<1>5. \A f \in FlowIds : StoredOrder(Empty, f) = {}
  BY <1>1, <1>4, NoMembersIs
<1>6. NoOrphans(committed) /\ NoOrphans(session)
  BY <1>5 DEF DbInit, NoOrphans, NoMembers
<1>7. AllWhole
  BY <1>4 DEF DbInit, AllWhole
<1>8. FlowPromises /\ RulePromises
  BY DEF DbInit, FlowPromises, RulePromises, Entities
<1> QED BY <1>2, <1>3, <1>6, <1>7, <1>8 DEF DbInv

(* Every step keeps the invariant. *)
LEMMA DbNextInv == DbInv /\ [DbNext]_dbVars => DbInv'
<1> SUFFICES ASSUME DbInv, [DbNext]_dbVars PROVE DbInv'
  OBVIOUS
<1>1. ASSUME NEW u \in Users, Transact(u) PROVE DbInv'
  <2>1. Head(todo[u]).op = "begin" \/ Head(todo[u]).op = "commit"
    BY <1>1 DEF Transact
  <2> QED BY <1>1, <2>1, BeginTransactionInv, CommitInv
<1> QED BY <1>1, CallRulesInv, CallFlowsInv, CallVersionsInv, RunInv, FailInv, DbCrashInv,
           DbStutter DEF DbNext

(* A time of 64 bits that is cast to int and read back. *)
LEMMA TimeReadsBack ==
  ASSUME NEW t, t \in Int \cup {NoValue} PROVE TimeReadsAs(t, TimeOf(TimeColumn(t)))
<1>1. CASE t = NoValue
  <2>1. TimeColumn(t) = -1
    BY <1>1 DEF TimeColumn
  <2> QED BY <1>1, <2>1 DEF TimeReadsAs, TimeOf
<1>2. CASE t # NoValue
  <2> DEFINE w == 2 * IntBound
             c == ((t + IntBound) % w) - IntBound
  <2>1. t \in Int /\ IntBound \in Nat /\ IntBound >= 1 /\ w \in Nat /\ w >= 1 /\ w = IntBound + IntBound
    BY <1>2, IntAssumption
  <2>2. TimeColumn(t) = c
    BY <1>2 DEF TimeColumn, CastToInt
  <2> DEFINE a == t + IntBound
             r == a % w
  <2>3. r \in 0 .. w - 1
    <3> HIDE DEF w
    <3> QED BY <2>1
  <2>4. 0 <= a /\ a < w => r = a
    <3> HIDE DEF w
    <3> QED BY <2>1
  <2> HIDE DEF w, r
  <2>5. c \in Int /\ c < IntBound /\ (t >= -IntBound /\ t < IntBound => c = t)
    BY <2>1, <2>3, <2>4 DEF r
  <2> HIDE DEF c
  <2>6. TimeOf(c) = IF c >= 0 THEN c ELSE NoValue
    BY DEF TimeOf
  <2>7. c >= 0 => c \in 0 .. IntBound - 1
    BY <2>1, <2>5
  <2> DEFINE b == TimeOf(c)
  <2>8. (c < 0 /\ b = NoValue) \/ (c >= 0 /\ b = c /\ b \in 0 .. IntBound - 1)
    BY <2>5, <2>6, <2>7
  <2> HIDE DEF b
  <2>9. TimeReadsAs(t, b)
    <3>1. CASE t < 0 /\ t >= -IntBound
      BY <1>2, <2>1, <2>5, <2>8, <3>1 DEF TimeReadsAs
    <3>2. CASE t >= 0 /\ t < IntBound
      BY <1>2, <2>1, <2>5, <2>8, <3>2 DEF TimeReadsAs
    <3>3. CASE t < -IntBound \/ t >= IntBound
      <4>1. ~(t < 0 /\ t >= -IntBound) /\ ~(t >= -IntBound /\ t < IntBound)
        BY <2>1, <3>3
      <4>2. b = NoValue \/ b \in 0 .. IntBound - 1
        BY <2>8
      <4> QED BY <1>2, <4>1, <4>2 DEF TimeReadsAs
    <3> QED BY <2>1, <3>1, <3>2, <3>3
  <2> QED BY <2>2, <2>9 DEF b
<1> QED BY <1>1, <1>2

(* rowToRule of ruleToRow. *)
LEMMA ReadsBack == ASSUME NEW r \in RuleRecords PROVE RuleReadsAs(r, RowToRule(ToRow(r)))
<1>1. r.timeout \in Int \cup {NoValue} /\ r.cache \in Int \cup {NoValue}
  BY DbAssumption
<1>2. /\ RowToRule(ToRow(r)).timeout = TimeOf(TimeColumn(r.timeout))
      /\ RowToRule(ToRow(r)).cache = TimeOf(TimeColumn(r.cache))
      /\ RowToRule(ToRow(r)).dep = IF r.dep = EmptyName THEN NoValue ELSE r.dep
  BY DEF RowToRule, ToRow
<1>3. /\ TimeReadsAs(r.timeout, TimeOf(TimeColumn(r.timeout)))
      /\ TimeReadsAs(r.cache, TimeOf(TimeColumn(r.cache)))
  BY <1>1, TimeReadsBack
<1> QED BY <1>2, <1>3 DEF RuleReadsAs

(* The invariant says that the tables are whole. *)
LEMMA DbInvImplies == DbInv => TablesAreWhole
<1> SUFFICES ASSUME DbInv PROVE TablesAreWhole
  OBVIOUS
<1>0. /\ DbTyped /\ Threads /\ NoOrphans(committed) /\ AllWhole /\ FlowPromises /\ RulePromises
      /\ committed \in Tables /\ session \in Tables
  BY DEF DbInv, DbTyped
<1>1. DbTypeOK
  <2>1. ASSUME NEW db \in Tables
        PROVE  /\ DOMAIN db.rules \subseteq RuleIds /\ db.flows \subseteq FlowIds
               /\ DOMAIN db.members \subseteq FlowIds \X RuleIds
               /\ db.versions \subseteq {1} \X RuleIds
    BY RuleTableIs, MemberTableIs DEF Tables
  <2>2. ASSUME NEW u \in Users, NEW k \in DOMAIN todo[u] PROVE todo[u][k].op \in Statements
    <3>1. CASE IdleThread(u)
      BY <3>1, EmptyTables DEF IdleThread
    <3> QED BY <3>1, <1>0, RulesActive, FlowsActive, VersionsActive DEF Threads, Thread
  <2> QED BY <1>0, <2>1, <2>2 DEF DbTypeOK, DbTyped
<1>2. NoOrphanMembers
  <2> SUFFICES ASSUME NEW k \in DOMAIN committed.members, k[1] \notin committed.flows
               PROVE  <<"flow", k[1]>> \in mixed
    BY DEF NoOrphanMembers
  <2>1. k \in FlowIds \X RuleIds
    BY <1>0, MemberTableIs DEF Tables
  <2>2. PICK f \in FlowIds, i \in RuleIds : k = <<f, i>>
    BY <2>1
  <2>3. StoredOrder(committed, f) # {}
    BY <1>0, <2>2, NoMembersIs
  <2> QED BY <1>0, <2>2, <2>3 DEF NoOrphans, NoMembers
<1>3. WorkflowIsWhole
  BY <1>0 DEF AllWhole, Whole, WorkflowIsWhole, OrderOf, OrderUpTo
<1>4. ReturnedIsDurable
  <2>1. ASSUME NEW i \in RuleIds, promised[<<"rule", i>>] # Unknown
        PROVE  IF promised[<<"rule", i>>] = NoValue THEN FindRule(committed, i) = NoValue
               ELSE /\ i \in DOMAIN committed.rules
                    /\ RuleReadsAs(promised[<<"rule", i>>], FindRule(committed, i))
    <3> DEFINE v == promised[<<"rule", i>>]
    <3>1. RuleKept(committed, i, v)
      BY <1>0, <2>1 DEF RulePromises
    <3> HIDE DEF v
    <3>2. CASE v = NoValue
      BY <3>1, <3>2 DEF RuleKept, FindRule, v
    <3>3. CASE v # NoValue
      <4>1. v \in RuleRecords /\ i \in DOMAIN committed.rules /\ committed.rules[i] = ToRow(v)
        BY <3>1, <3>3 DEF RuleKept
      <4>3. RuleReadsAs(v, RowToRule(ToRow(v)))
        BY <4>1, ReadsBack
      <4> QED BY <3>3, <4>1, <4>3 DEF FindRule, v
    <3> QED BY <3>2, <3>3
  <2>2. ASSUME NEW f \in FlowIds, promised[<<"flow", f>>] # Unknown
        PROVE  IF promised[<<"flow", f>>] = NoValue THEN FindFlow(committed, f) = NoValue
               ELSE /\ f \in committed.flows
                    /\ FlowReadsAs(f, promised[<<"flow", f>>], FindFlow(committed, f))
    <3> DEFINE v == promised[<<"flow", f>>]
    <3>1. FlowKept(committed, f, v, mixed)
      BY <1>0, <2>2 DEF FlowPromises
    <3> HIDE DEF v
    <3>2. CASE v = NoValue
      BY <3>1, <3>2 DEF FlowKept, FindFlow, v
    <3>3. CASE v # NoValue
      <4>1. f \in committed.flows /\ HasOrder(committed, f, v, mixed)
        BY <3>1, <3>3 DEF FlowKept
      <4> DEFINE M == {m \in MembersOf(committed, f) : m[2] \in DOMAIN committed.rules}
                 A == {<<committed.members[k], k[2]>> : k \in M}
                 B == {p \in StoredOrder(committed, f) : p[2] \in DOMAIN committed.rules}
      <4>2. \A p : p \in A <=> p \in B
        BY DEF StoredOrder
      <4>3. A = B
        BY <4>2
      <4>4. FindFlow(committed, f) = A
        BY <4>1 DEF FindFlow
      <4>5. FlowReadsAs(f, v, B)
        BY <4>1 DEF HasOrder, FlowReadsAs
      <4> QED BY <3>3, <4>1, <4>3, <4>4, <4>5 DEF v
    <3> QED BY <3>2, <3>3
  <2> SUFFICES ASSUME NEW e \in Entities, promised[e] # Unknown
               PROVE  CASE e[1] = "rule" ->
                             IF promised[e] = NoValue THEN FindRule(committed, e[2]) = NoValue
                             ELSE /\ e[2] \in DOMAIN committed.rules
                                  /\ RuleReadsAs(promised[e], FindRule(committed, e[2]))
                        [] e[1] = "flow" ->
                             IF promised[e] = NoValue THEN FindFlow(committed, e[2]) = NoValue
                             ELSE /\ e[2] \in committed.flows
                                  /\ FlowReadsAs(e[2], promised[e], FindFlow(committed, e[2]))
    BY DEF ReturnedIsDurable
  <2>3. CASE e \in {"rule"} \X RuleIds
    <3>1. PICK i \in RuleIds : e = <<"rule", i>>
      BY <2>3
    <3> QED BY <3>1, <2>1
  <2>4. CASE e \in {"flow"} \X FlowIds
    <3>1. PICK f \in FlowIds : e = <<"flow", f>>
      BY <2>4
    <3> QED BY <3>1, <2>2
  <2> QED BY <2>3, <2>4 DEF Entities
<1> QED BY <1>1, <1>2, <1>3, <1>4 DEF TablesAreWhole

(* For any number of threads, rules and workflows, and wherever statements *)
(* fail or the process dies: every stored workflow is whole and no member  *)
(* row is without its workflow, unless a remove met a foreign transaction; *)
(* and what a call returned is in the file and reads back, times as far as *)
(* an int holds them (db_repository.cpp: save, remove, clear and the       *)
(* finders on one SOCI session).                                           *)
THEOREM WholeTables == DbSpec => []TablesAreWhole
BY DbInitInv, DbNextInv, DbInvImplies, PTL DEF DbSpec

-----------------------------------------------------------------------------
(* The loaders and serialization. *)

(* The values the loaders work with. *)
ParsedRules ==
  [id : Int, generated : BOOLEAN, name : DocNames, dep : DocNames \cup {Missing},
   timeout : Int \cup {Missing}, depth : Nat, parent : BOOLEAN]
FlowRecords == [format : TransferFormats, orig : Nat, rules : Seq(ParsedRules)]
LoadRecords ==
  [format : TransferFormats, orig : Nat, todo : Seq(DocNodes), rules : Seq(ParsedRules)]
RefusedRecords == [format : TransferFormats, orig : Nat]

(* The types of the state of the loaders. *)
TransferShape ==
  /\ ruleIdCounter \in Nat
  /\ flows \in Seq(FlowRecords)
  /\ refused \in Seq(RefusedRecords)
  /\ loading \in [Loaders -> LoadRecords \cup {NotLoading}]

(* Threads in the middle of a load. *)
LoadingThreads == {t \in Loaders : loading[t] # NotLoading}

(* Every workflow, load in progress and refused load is counted. *)
LoadsBounded == Loads <= MaxLoads

(* A load of a saved workflow names one that exists, and an earlier one. *)
OriginsExist ==
  /\ \A i \in DOMAIN flows : flows[i].orig \in 0 .. i - 1
  /\ \A t \in LoadingThreads : loading[t].orig \in 0 .. Len(flows)

(* What reading a saved rule makes of it. *)
SameRule(fm, old, new) ==
  /\ new.id = old.id /\ new.dep = old.dep /\ new.depth = old.depth
  /\ new.name = Unnamed /\ new.parent = (fm = "json" /\ old.depth > 0)
  /\ (fm = "json" \/ old.timeout \in {Missing} \cup -IntBound .. IntBound - 1)
       => new.timeout = old.timeout

(* A load of a saved workflow has read its first rules, and has the others *)
(* before it as they were saved.                                           *)
ReloadInProgress(l, old) ==
  /\ ~SaveThrows(l.format, old)
  /\ Len(l.rules) + Len(l.todo) = Len(old)
  /\ \A k \in 1 .. Len(l.rules) : SameRule(l.format, old[k], l.rules[k])
  /\ \A k \in 1 .. Len(l.todo) : l.todo[k] = Saved(l.format, old)[Len(l.rules) + k]

(* Every reload in progress agrees with the workflow it is a copy of. *)
ReloadsInProgress ==
  \A t \in LoadingThreads :
    loading[t].orig # 0 => ReloadInProgress(loading[t], flows[loading[t].orig].rules)

(* A loaded workflow against the one it was saved from. *)
Reloaded(fl, old) ==
  /\ Len(fl.rules) = Len(old)
  /\ \A k \in 1 .. Len(old) : SameRule(fl.format, old[k], fl.rules[k])
ReloadsAreFaithful ==
  \A i \in DOMAIN flows : flows[i].orig # 0 => Reloaded(flows[i], flows[flows[i].orig].rules)

(* Ids that were drawn are not above the counter, and are drawn once. *)
DrawnBelow(rules) ==
  \A k \in DOMAIN rules : rules[k].generated => rules[k].id \in 1 .. ruleIdCounter
AllDrawn ==
  /\ \A i \in DOMAIN flows : DrawnBelow(flows[i].rules)
  /\ \A t \in LoadingThreads : DrawnBelow(loading[t].rules)
(* No id was drawn for both lists, or twice for one. *)
Apart(rs, ss) ==
  \A k \in DOMAIN rs, m \in DOMAIN ss :
    rs[k].generated /\ ss[m].generated => rs[k].id # ss[m].id
OnceIn(rs) ==
  \A k, m \in DOMAIN rs :
    rs[k].generated /\ rs[m].generated /\ rs[k].id = rs[m].id => k = m
DrawnOnce ==
  /\ \A i \in DOMAIN flows : OnceIn(flows[i].rules)
  /\ \A t \in LoadingThreads : OnceIn(loading[t].rules)
  /\ \A i, j \in DOMAIN flows : i # j => Apart(flows[i].rules, flows[j].rules)
  /\ \A i \in DOMAIN flows, t \in LoadingThreads : Apart(flows[i].rules, loading[t].rules)
  /\ \A t, u \in LoadingThreads : t # u => Apart(loading[t].rules, loading[u].rules)

(* The inductive invariant of the loaders.  What the property says of      *)
(* finished loads it says of the part of a load that is done; the counter  *)
(* bounds the ids that were drawn.                                         *)
TransferInv ==
  /\ TransferShape /\ LoadsBounded /\ OriginsExist
  /\ ReloadsInProgress /\ ReloadsAreFaithful /\ LoadsWhatItSaved
  /\ AllDrawn /\ DrawnOnce

-----------------------------------------------------------------------------
(* The types of what the parsers and the serializers make. *)
LEMMA ParsedType ==
  ASSUME NEW fm \in TransferFormats, NEW node \in DocNodes, NEW fresh \in Int
  PROVE  Parsed(fm, node, fresh) \in ParsedRules
<1>1. ParsedId(fm, node.id, fresh) \in Int
  BY TransferAssumption DEF ParsedId, DocNodes
<1>2. Milliseconds(fm, node.timeout) \in Int \cup {Missing}
  <2>1. CASE node.timeout = Missing
    BY <2>1 DEF Milliseconds
  <2>2. CASE node.timeout # Missing
    <3>1. node.timeout \in Durations /\ node.timeout.n \in Int
      BY <2>2 DEF DocNodes, Durations
    <3>2. node.timeout.n * 1000 \in Int /\ node.timeout.n * 60000 \in Int
      BY <3>1
    <3>3. fm = "xml" \/ fm = "json"
      BY DEF TransferFormats
    <3>4. IntBound - 1 \in Int
      BY IntAssumption
    <3>5. CASE fm = "xml"
      BY <2>2, <3>5, <3>1, <3>4 DEF Milliseconds
    <3>6. CASE fm = "json"
      BY <2>2, <3>6, <3>1, <3>2 DEF Milliseconds
    <3> QED BY <3>3, <3>5, <3>6
  <2> QED BY <2>1, <2>2
<1>3. IsGenerated(fm, node.id) \in BOOLEAN
  BY DEF IsGenerated
<1>4. (IF node.name = Missing THEN Unnamed ELSE node.name) \in DocNames
  BY TransferAssumption DEF DocNodes
<1>5. node.dep \in DocNames \cup {Missing} /\ node.depth \in Nat
  BY DEF DocNodes
<1>6. (fm = "json" /\ node.depth > 0) \in BOOLEAN
  OBVIOUS
<1> HIDE DEF DocNodes
<1> QED BY <1>1, <1>2, <1>3, <1>4, <1>5, <1>6 DEF Parsed, ParsedRules

(* What serialization makes is a document. *)
LEMMA SavedType ==
  ASSUME NEW fm \in TransferFormats, NEW rs \in Seq(ParsedRules)
  PROVE  /\ Saved(fm, rs) \in Seq(DocNodes) /\ Len(Saved(fm, rs)) = Len(rs)
         /\ \A k \in 1 .. Len(rs) : Saved(fm, rs)[k] =
              [id |-> rs[k].id, name |-> Missing, dep |-> rs[k].dep,
               timeout |-> SavedTimeout(fm, rs[k].timeout), depth |-> rs[k].depth]
<1>1. DOMAIN rs = 1 .. Len(rs) /\ Len(rs) \in Nat
  OBVIOUS
<1>2. ASSUME NEW k \in 1 .. Len(rs)
      PROVE  [id |-> rs[k].id, name |-> Missing, dep |-> rs[k].dep,
              timeout |-> SavedTimeout(fm, rs[k].timeout), depth |-> rs[k].depth] \in DocNodes
  <2>1. rs[k] \in ParsedRules
    BY <1>1
  <2>2. rs[k].id \in Int /\ rs[k].dep \in DocNames \cup {Missing} /\ rs[k].depth \in Nat
        /\ rs[k].timeout \in Int \cup {Missing}
    BY <2>1 DEF ParsedRules
  <2>3. CASE rs[k].timeout = Missing
    BY <2>2, <2>3 DEF SavedTimeout, DocNodes
  <2>4. CASE rs[k].timeout # Missing
    <3>1. CastToInt(rs[k].timeout) \in Int
      BY <2>2, <2>4, TransferAssumption, IntAssumption DEF CastToInt
    <3>2. SavedTimeout(fm, rs[k].timeout) \in Durations
      BY <2>2, <2>4, <3>1, TransferAssumption DEF SavedTimeout, Durations
    <3> QED BY <2>2, <3>2 DEF DocNodes
  <2> QED BY <2>3, <2>4
<1>3. Saved(fm, rs) \in [1 .. Len(rs) -> DocNodes]
  BY <1>1, <1>2 DEF Saved
<1> QED BY <1>1, <1>3, SeqDef DEF Saved

(* A saved rule that is read, with whatever fresh id, is the rule again. *)
LEMMA RoundTrip ==
  ASSUME NEW fm \in TransferFormats, NEW old \in ParsedRules, NEW fresh,
         NEW node,
         node = [id |-> old.id, name |-> Missing, dep |-> old.dep,
                 timeout |-> SavedTimeout(fm, old.timeout), depth |-> old.depth]
  PROVE  /\ SameRule(fm, old, Parsed(fm, node, fresh))
         /\ ~IdThrows(fm, node.id) /\ ~IsGenerated(fm, node.id)
<1>1. old.id \in Int /\ old.id \notin {Missing, Malformed}
  BY TransferAssumption DEF ParsedRules
<1>2. ~IdThrows(fm, node.id) /\ ~IsGenerated(fm, node.id)
  BY <1>1 DEF IdThrows, IsGenerated
<1>3. ParsedId(fm, node.id, fresh) = old.id
  BY <1>1, <1>2 DEF ParsedId
<1>4. ASSUME fm = "json" \/ old.timeout \in {Missing} \cup -IntBound .. IntBound - 1
      PROVE  Milliseconds(fm, node.timeout) = old.timeout
  <2>1. CASE old.timeout = Missing
    BY <2>1 DEF SavedTimeout, Milliseconds
  <2>2. CASE old.timeout # Missing
    <3>1. old.timeout \in Int
      BY <2>2 DEF ParsedRules
    <3> DEFINE c == IF fm = "xml" THEN CastToInt(old.timeout) ELSE old.timeout
    <3>2. node.timeout = [n |-> c, unit |-> "none"]
      BY <2>2 DEF SavedTimeout
    <3>3. c \in Int
      BY <3>1, TransferAssumption, IntAssumption DEF CastToInt
    <3> HIDE DEF c
    <3>4. node.timeout \in Durations /\ node.timeout # Missing
      BY <3>2, <3>3, TransferAssumption DEF Durations
    <3>5. CASE fm = "json"
      <4>1. c = old.timeout
        BY <3>5 DEF c
      <4> QED BY <3>2, <3>4, <3>5, <4>1 DEF Milliseconds
    <3>6. CASE fm = "xml"
      <4>1. old.timeout \in -IntBound .. IntBound - 1
        BY <1>4, <2>2, <3>6
      <4>2. CastToInt(old.timeout) = old.timeout
        <5> DEFINE v == old.timeout + IntBound
        <5>1. v \in Nat /\ v < 2 * IntBound /\ IntBound \in Nat
          BY <4>1, IntAssumption
        <5>2. v % (2 * IntBound) = v
          BY <5>1
        <5> QED BY <5>2, <3>1, TransferAssumption, IntAssumption DEF CastToInt
      <4>3. c = old.timeout
        BY <3>6, <4>2 DEF c
      <4>4. ~(old.timeout >= IntBound)
        BY <4>1, TransferAssumption, IntAssumption
      <4> QED BY <3>2, <3>4, <3>6, <4>3, <4>4 DEF Milliseconds
    <3> QED BY <3>5, <3>6 DEF TransferFormats
  <2> QED BY <2>1, <2>2
<1> QED BY <1>2, <1>3, <1>4 DEF SameRule, Parsed

-----------------------------------------------------------------------------
(* The steps of a load. *)

(* A thread that loads nothing is told from one that loads. *)
LEMMA NotLoadingShape ==
  /\ NotLoading \notin LoadRecords
  /\ NotLoading.todo = <<>> /\ NotLoading.rules = <<>>
  BY DEF NotLoading, LoadRecords, TransferFormats

(* At first nothing was loaded. *)
LEMMA TransferInitInv == TransferInit => TransferInv
<1> SUFFICES ASSUME TransferInit PROVE TransferInv
  OBVIOUS
<1>1. LoadingThreads = {} /\ Len(flows) = 0 /\ Len(refused) = 0
  BY DEF TransferInit, LoadingThreads
<1>2. Loads = 0
  <2>1. Loads = Len(flows) + Len(refused) + Cardinality(LoadingThreads)
    BY DEF Loads, LoadingThreads
  <2> QED BY <1>1, <2>1, FS_EmptySet
<1>3. TransferShape
  BY DEF TransferInit, TransferShape
<1>4. LoadsBounded
  BY <1>2, TransferAssumption DEF LoadsBounded
<1>5. OriginsExist /\ ReloadsInProgress /\ ReloadsAreFaithful
  BY <1>1, <1>3 DEF OriginsExist, ReloadsInProgress, ReloadsAreFaithful, TransferShape
<1>6. LoadsWhatItSaved
  BY <1>1, <1>3 DEF LoadsWhatItSaved, TransferShape
<1>7. AllDrawn /\ DrawnOnce
  BY <1>1, <1>3 DEF AllDrawn, DrawnOnce, TransferShape
<1> QED BY <1>3, <1>4, <1>5, <1>6, <1>7 DEF TransferInv

(* A thread that begins or ends a load is counted or no longer counted. *)
LEMMA LoadingCount ==
  ASSUME TransferShape
  PROVE  /\ Loads = Len(flows) + Len(refused) + Cardinality(LoadingThreads)
         /\ IsFiniteSet(LoadingThreads) /\ Cardinality(LoadingThreads) \in Nat
<1>1. IsFiniteSet(LoadingThreads)
  BY TransferAssumption, FS_Subset DEF LoadingThreads
<1> QED BY <1>1, FS_CardinalityType DEF Loads, LoadingThreads

(* A load begins, of a document or of a workflow that was saved. *)
LEMMA BeginLoadInv ==
  ASSUME TransferInv, NEW t \in Loaders, NEW fm \in TransferFormats, NEW o \in 0 .. Len(flows),
         NEW doc \in Seq(DocNodes), Loads < MaxLoads, BeginLoad(t, fm, o, doc),
         o # 0 => /\ ~SaveThrows(fm, flows[o].rules) /\ doc = Saved(fm, flows[o].rules)
  PROVE  TransferInv'
<1> DEFINE l == [format |-> fm, orig |-> o, todo |-> doc, rules |-> <<>>]
<1>0. /\ TransferShape /\ LoadsBounded /\ OriginsExist
      /\ ReloadsInProgress /\ ReloadsAreFaithful /\ LoadsWhatItSaved
      /\ AllDrawn /\ DrawnOnce
  BY DEF TransferInv
<1>1. /\ loading[t] = NotLoading
      /\ loading' = [loading EXCEPT ![t] = l]
      /\ ruleIdCounter' = ruleIdCounter /\ flows' = flows /\ refused' = refused
  BY DEF BeginLoad
<1>2. l \in LoadRecords /\ l # NotLoading
  <2>1. <<>> \in Seq(ParsedRules)
    OBVIOUS
  <2>2. o \in Nat
    BY <1>0 DEF TransferShape
  <2>3. l \in LoadRecords
    BY <2>1, <2>2 DEF LoadRecords
  <2> QED BY <2>3, NotLoadingShape
<1>3. l.format = fm /\ l.orig = o /\ l.todo = doc /\ l.rules = <<>>
  OBVIOUS
<1> HIDE DEF l
<1>4. TransferShape'
  BY <1>0, <1>1, <1>2 DEF TransferShape
<1>5. /\ LoadingThreads' = LoadingThreads \cup {t} /\ t \notin LoadingThreads
      /\ loading'[t] = l /\ \A u \in LoadingThreads : loading'[u] = loading[u]
  BY <1>0, <1>1, <1>2 DEF TransferShape, LoadingThreads
<1>6. LoadsBounded'
  <2>1. Cardinality(LoadingThreads') = Cardinality(LoadingThreads) + 1
    BY <1>0, <1>5, LoadingCount, FS_AddElement
  <2>2. /\ Loads = Len(flows) + Len(refused) + Cardinality(LoadingThreads)
        /\ Cardinality(LoadingThreads) \in Nat
    BY <1>0, LoadingCount
  <2>3. Loads' = Len(flows) + Len(refused) + Cardinality(LoadingThreads')
    BY <1>1 DEF Loads, LoadingThreads
  <2>4. Len(flows) \in Nat /\ Len(refused) \in Nat
    BY <1>0 DEF TransferShape
  <2>5. Loads' = Loads + 1 /\ Loads \in Nat
    BY <2>1, <2>2, <2>3, <2>4
  <2> QED BY <2>5, TransferAssumption DEF LoadsBounded
<1>7. OriginsExist'
  BY <1>0, <1>1, <1>3, <1>5 DEF OriginsExist
<1>8. ReloadsInProgress'
  <2> SUFFICES ASSUME NEW u \in LoadingThreads', loading'[u].orig # 0
               PROVE  ReloadInProgress(loading'[u], flows[loading'[u].orig].rules)
    BY <1>1 DEF ReloadsInProgress
  <2>1. CASE u # t
    BY <2>1, <1>0, <1>5 DEF ReloadsInProgress
  <2>2. CASE u = t
    <3>1. o # 0 /\ loading'[u] = l
      BY <2>2, <1>3, <1>5
    <3> DEFINE old == flows[o].rules
    <3>2. old \in Seq(ParsedRules)
      <4>1. o \in DOMAIN flows /\ flows \in Seq(FlowRecords)
        BY <3>1, <1>0 DEF TransferShape
      <4>2. flows[o] \in FlowRecords
        BY <4>1
      <4> QED BY <4>2 DEF FlowRecords
    <3> HIDE DEF old
    <3>3. Len(doc) = Len(old) /\ doc = Saved(fm, old) /\ ~SaveThrows(fm, old)
      BY <3>1, <3>2, SavedType DEF old
    <3>4. Len(l.rules) = 0 /\ Len(old) \in Nat
      BY <1>3, <3>2
    <3>5. ReloadInProgress(l, old)
      BY <1>3, <3>3, <3>4 DEF ReloadInProgress
    <3> QED BY <3>1, <3>5, <1>3 DEF old
  <2> QED BY <2>1, <2>2
<1>9. ReloadsAreFaithful' /\ LoadsWhatItSaved'
  BY <1>0, <1>1 DEF ReloadsAreFaithful, Reloaded, SameRule, LoadsWhatItSaved
<1>10. AllDrawn'
  <2>1. \A i \in DOMAIN flows' : DrawnBelow(flows[i].rules)'
    BY <1>0, <1>1 DEF AllDrawn, DrawnBelow
  <2>2. \A u \in LoadingThreads' : DrawnBelow(loading[u].rules)'
    BY <1>0, <1>1, <1>3, <1>5 DEF AllDrawn, DrawnBelow
  <2> QED BY <2>1, <2>2 DEF AllDrawn
<1>11. DrawnOnce'
  <2>1. OnceIn(l.rules) /\ \A rs : Apart(rs, l.rules) /\ Apart(l.rules, rs)
    BY <1>3 DEF OnceIn, Apart
  <2> QED BY <2>1, <1>0, <1>1, <1>5 DEF DrawnOnce, OnceIn, Apart
<1> QED BY <1>4, <1>6, <1>7, <1>8, <1>9, <1>10, <1>11 DEF TransferInv

(* A load that ends leaves the other loads alone. *)
LEMMA EndLoadFrame ==
  ASSUME TransferShape, NEW t \in LoadingThreads,
         loading' = [loading EXCEPT ![t] = NotLoading]
  PROVE  /\ loading' \in [Loaders -> LoadRecords \cup {NotLoading}]
         /\ LoadingThreads' = LoadingThreads \ {t}
         /\ \A u \in LoadingThreads' : loading'[u] = loading[u]
         /\ Cardinality(LoadingThreads') = Cardinality(LoadingThreads) - 1
         /\ loading[t] \in LoadRecords
<1>1. /\ LoadingThreads' = LoadingThreads \ {t}
      /\ \A u \in LoadingThreads' : loading'[u] = loading[u]
      /\ loading[t] \in LoadRecords
  BY DEF LoadingThreads, TransferShape
<1>2. loading' \in [Loaders -> LoadRecords \cup {NotLoading}]
  BY DEF LoadingThreads, TransferShape
<1>3. Cardinality(LoadingThreads') = Cardinality(LoadingThreads) - 1
  BY <1>1, LoadingCount, FS_RemoveElement
<1> QED BY <1>1, <1>2, <1>3

(* A load is complete and its workflow is there. *)
LEMMA FinishLoadInv ==
  ASSUME TransferInv, NEW t \in Loaders, FinishLoad(t)
  PROVE  TransferInv'
<1> DEFINE fl == [format |-> loading[t].format, orig |-> loading[t].orig,
                  rules |-> loading[t].rules]
<1>0. /\ TransferShape /\ LoadsBounded /\ OriginsExist
      /\ ReloadsInProgress /\ ReloadsAreFaithful /\ LoadsWhatItSaved
      /\ AllDrawn /\ DrawnOnce
  BY DEF TransferInv
<1>1. /\ loading[t] # NotLoading /\ loading[t].todo = <<>>
      /\ flows' = Append(flows, fl)
      /\ loading' = [loading EXCEPT ![t] = NotLoading]
      /\ ruleIdCounter' = ruleIdCounter /\ refused' = refused
  BY DEF FinishLoad
<1>2. t \in LoadingThreads
  BY <1>1 DEF LoadingThreads
<1>3. /\ loading' \in [Loaders -> LoadRecords \cup {NotLoading}]
      /\ LoadingThreads' = LoadingThreads \ {t}
      /\ \A u \in LoadingThreads' : loading'[u] = loading[u]
      /\ Cardinality(LoadingThreads') = Cardinality(LoadingThreads) - 1
      /\ loading[t] \in LoadRecords
  BY <1>0, <1>1, <1>2, EndLoadFrame
<1>4. /\ fl \in FlowRecords /\ fl.format = loading[t].format
      /\ fl.orig = loading[t].orig /\ fl.rules = loading[t].rules
  BY <1>3 DEF FlowRecords, LoadRecords
<1> HIDE DEF fl
<1>5. /\ flows' \in Seq(FlowRecords) /\ Len(flows') = Len(flows) + 1
      /\ DOMAIN flows = 1 .. Len(flows) /\ DOMAIN flows' = 1 .. Len(flows) + 1
      /\ Len(flows) \in Nat /\ flows'[Len(flows) + 1] = fl
      /\ \A i \in DOMAIN flows : flows'[i] = flows[i] /\ i # Len(flows) + 1
  BY <1>0, <1>1, <1>4, AppendProperties DEF TransferShape
<1>6. TransferShape'
  BY <1>0, <1>1, <1>3, <1>5 DEF TransferShape
<1>7. LoadsBounded'
  <2>1. /\ Loads = Len(flows) + Len(refused) + Cardinality(LoadingThreads)
        /\ Cardinality(LoadingThreads) \in Nat
    BY <1>0, LoadingCount
  <2>2. Loads' = Len(flows') + Len(refused) + Cardinality(LoadingThreads')
    BY <1>1 DEF Loads, LoadingThreads
  <2>3. Len(flows) \in Nat /\ Len(refused) \in Nat
    BY <1>0 DEF TransferShape
  <2>4. Loads' = Loads
    BY <2>1, <2>2, <2>3, <1>3, <1>5
  <2> QED BY <1>0, <2>4 DEF LoadsBounded
<1>8. fl.orig \in 0 .. Len(flows)
  BY <1>0, <1>2, <1>4 DEF OriginsExist
<1>9. OriginsExist'
  <2>1. \A i \in DOMAIN flows' : flows'[i].orig \in 0 .. i - 1
    <3> SUFFICES ASSUME NEW i \in DOMAIN flows' PROVE flows'[i].orig \in 0 .. i - 1
      OBVIOUS
    <3>1. CASE i \in DOMAIN flows
      BY <3>1, <1>0, <1>5 DEF OriginsExist
    <3>2. CASE i = Len(flows) + 1
      <4>1. Len(flows) + 1 - 1 = Len(flows)
        BY <1>5
      <4> QED BY <3>2, <1>5, <1>8, <4>1
    <3> QED BY <3>1, <3>2, <1>5
  <2>2. \A u \in LoadingThreads' : loading'[u].orig \in 0 .. Len(flows')
    <3> SUFFICES ASSUME NEW u \in LoadingThreads' PROVE loading'[u].orig \in 0 .. Len(flows')
      OBVIOUS
    <3>1. loading'[u].orig \in 0 .. Len(flows)
      BY <1>0, <1>3 DEF OriginsExist
    <3> QED BY <3>1, <1>5
  <2> QED BY <2>1, <2>2 DEF OriginsExist
<1>10. ReloadsInProgress'
  <2> SUFFICES ASSUME NEW u \in LoadingThreads', loading'[u].orig # 0
               PROVE  ReloadInProgress(loading'[u], flows'[loading'[u].orig].rules)
    BY DEF ReloadsInProgress
  <2>1. loading'[u] = loading[u] /\ u \in LoadingThreads
    BY <1>3
  <2>2. loading[u].orig \in DOMAIN flows
    BY <2>1, <1>0, <1>5 DEF OriginsExist
  <2>3. flows'[loading[u].orig] = flows[loading[u].orig]
    BY <1>5, <2>2
  <2> QED BY <2>1, <2>3, <1>0 DEF ReloadsInProgress
<1>11. ReloadsAreFaithful'
  <2> SUFFICES ASSUME NEW i \in DOMAIN flows', flows'[i].orig # 0
               PROVE  Reloaded(flows'[i], flows'[flows'[i].orig].rules)
    BY DEF ReloadsAreFaithful
  <2>1. CASE i \in DOMAIN flows
    <3>1. flows'[i] = flows[i]
      BY <1>5, <2>1
    <3>2. flows[i].orig \in DOMAIN flows
      <4>1. flows[i].orig \in 0 .. i - 1 /\ flows[i].orig # 0
        BY <2>1, <1>0, <3>1 DEF OriginsExist
      <4> QED BY <4>1, <2>1, <1>5
    <3>3. flows'[flows[i].orig] = flows[flows[i].orig]
      BY <1>5, <3>2
    <3> QED BY <2>1, <3>1, <3>3, <1>0 DEF ReloadsAreFaithful
  <2>2. CASE i = Len(flows) + 1
    <3> DEFINE l == loading[t]
    <3>1. flows'[i] = fl /\ l.orig # 0 /\ l.orig \in DOMAIN flows
      BY <2>2, <1>4, <1>5, <1>8
    <3>2. flows'[l.orig] = flows[l.orig]
      BY <1>5, <3>1
    <3> DEFINE old == flows[l.orig].rules
    <3>3. ReloadInProgress(l, old)
      BY <3>1, <1>0, <1>2 DEF ReloadsInProgress
    <3>4. Len(l.todo) = 0 /\ Len(l.rules) \in Nat
      BY <1>1, <1>3 DEF LoadRecords
    <3> HIDE DEF l, old
    <3>5. Len(l.rules) = Len(old) /\ \A k \in 1 .. Len(old) : SameRule(l.format, old[k], l.rules[k])
      BY <3>3, <3>4 DEF ReloadInProgress
    <3>6. Reloaded(fl, old)
      BY <3>5, <1>4 DEF Reloaded, l
    <3> QED BY <3>1, <3>2, <3>6, <1>4 DEF l, old
  <2> QED BY <2>1, <2>2, <1>5
<1>12. LoadsWhatItSaved'
  BY <1>0, <1>1 DEF LoadsWhatItSaved
<1>13. AllDrawn'
  <2>1. \A i \in DOMAIN flows' : DrawnBelow(flows[i].rules)'
    <3> SUFFICES ASSUME NEW i \in DOMAIN flows' PROVE DrawnBelow(flows[i].rules)'
      OBVIOUS
    <3>1. CASE i \in DOMAIN flows
      BY <3>1, <1>0, <1>1, <1>5 DEF AllDrawn, DrawnBelow
    <3>2. CASE i = Len(flows) + 1
      BY <3>2, <1>0, <1>1, <1>2, <1>4, <1>5 DEF AllDrawn, DrawnBelow
    <3> QED BY <3>1, <3>2, <1>5
  <2>2. \A u \in LoadingThreads' : DrawnBelow(loading[u].rules)'
    BY <1>0, <1>1, <1>3 DEF AllDrawn, DrawnBelow
  <2> QED BY <2>1, <2>2 DEF AllDrawn
<1>14. DrawnOnce'
  <2>1. \A i \in DOMAIN flows' :
          (i \in DOMAIN flows /\ flows'[i].rules = flows[i].rules)
            \/ (i = Len(flows) + 1 /\ flows'[i].rules = loading[t].rules)
    BY <1>4, <1>5
  <2>2. \A rs, ss : Apart(rs, ss) => Apart(ss, rs)
    BY DEF Apart
  <2>3. \A u \in LoadingThreads' :
          loading'[u].rules = loading[u].rules /\ u \in LoadingThreads /\ u # t
    BY <1>3
  <2>4. \A i \in DOMAIN flows' : OnceIn(flows'[i].rules)
    BY <2>1, <1>0, <1>2 DEF DrawnOnce
  <2>5. \A u \in LoadingThreads' : OnceIn(loading'[u].rules)
    BY <2>3, <1>0 DEF DrawnOnce
  <2>6. \A i, j \in DOMAIN flows' : i # j => Apart(flows'[i].rules, flows'[j].rules)
    BY <2>1, <2>2, <1>0, <1>2 DEF DrawnOnce
  <2>7. \A i \in DOMAIN flows', u \in LoadingThreads' :
          Apart(flows'[i].rules, loading'[u].rules)
    BY <2>1, <2>2, <2>3, <1>0, <1>2 DEF DrawnOnce
  <2>8. \A u, w \in LoadingThreads' : u # w => Apart(loading'[u].rules, loading'[w].rules)
    BY <2>3, <1>0 DEF DrawnOnce
  <2> QED BY <2>4, <2>5, <2>6, <2>7, <2>8 DEF DrawnOnce
<1> QED BY <1>6, <1>7, <1>9, <1>10, <1>11, <1>12, <1>13, <1>14 DEF TransferInv

(* The rules of a load, with the one just read. *)
LEMMA OneMore ==
  ASSUME NEW a \in Nat, NEW b \in Nat, NEW c \in Nat, b # 0, a + b = c
  PROVE  a + 1 \in 1 .. c /\ (a + 1) + (b - 1) = c
  OBVIOUS

(* A load with rules before it has a node that its parser reads next. *)
LEMMA NextNode ==
  ASSUME TransferShape, NEW t \in Loaders, loading[t].todo # <<>>
  PROVE  /\ t \in LoadingThreads /\ loading[t] \in LoadRecords
         /\ Head(loading[t].todo) \in DocNodes /\ Head(loading[t].todo) = loading[t].todo[1]
         /\ Tail(loading[t].todo) \in Seq(DocNodes)
         /\ Len(loading[t].todo) \in Nat \ {0}
         /\ Len(Tail(loading[t].todo)) = Len(loading[t].todo) - 1
         /\ \A k \in 1 .. Len(loading[t].todo) - 1 :
              Tail(loading[t].todo)[k] = loading[t].todo[k + 1]
<1>1. t \in LoadingThreads
  BY NotLoadingShape DEF LoadingThreads
<1>2. loading[t] \in LoadRecords
  BY <1>1 DEF LoadingThreads, TransferShape
<1> DEFINE q == loading[t].todo
<1>3. q \in Seq(DocNodes) /\ q # <<>>
  BY <1>2 DEF LoadRecords
<1> HIDE DEF q
<1>4. /\ Head(q) \in DocNodes /\ Head(q) = q[1] /\ Tail(q) \in Seq(DocNodes)
      /\ Len(q) \in Nat \ {0} /\ Len(Tail(q)) = Len(q) - 1
      /\ \A k \in 1 .. Len(q) - 1 : Tail(q)[k] = q[k + 1]
  BY <1>3, HeadTailProperties
<1> QED BY <1>1, <1>2, <1>4 DEF q

(* A saved rule is read again whatever the counter is, and never refused. *)
LEMMA NextSavedNode ==
  ASSUME TransferInv, NEW t \in Loaders, loading[t].todo # <<>>, loading[t].orig # 0,
         NEW fresh
  PROVE  LET l == loading[t]
             node == Head(l.todo)
             old == flows[l.orig].rules IN
           /\ SameRule(l.format, old[Len(l.rules) + 1], Parsed(l.format, node, fresh))
           /\ ~IdThrows(l.format, node.id) /\ ~TooDeep(l.format, node.depth)
<1> DEFINE l == loading[t]
           node == Head(l.todo)
           old == flows[l.orig].rules
           k == Len(l.rules) + 1
<1>0. TransferShape /\ OriginsExist /\ ReloadsInProgress
  BY DEF TransferInv
<1>1. /\ t \in LoadingThreads /\ l \in LoadRecords /\ node = l.todo[1]
      /\ Len(l.todo) \in Nat \ {0}
  BY <1>0, NextNode
<1>2. l.orig \in DOMAIN flows /\ flows \in Seq(FlowRecords)
  BY <1>0, <1>1 DEF OriginsExist, TransferShape
<1>3. flows[l.orig] \in FlowRecords
  BY <1>2
<1>4. old \in Seq(ParsedRules)
  BY <1>3 DEF FlowRecords
<1>5. ReloadInProgress(l, old)
  BY <1>0, <1>1 DEF ReloadsInProgress
<1>6. l.format \in TransferFormats /\ Len(l.rules) \in Nat
  BY <1>1 DEF LoadRecords
<1> HIDE DEF l, old, node
<1>7. k \in 1 .. Len(old) /\ Len(old) \in Nat /\ DOMAIN old = 1 .. Len(old)
  <2>1. Len(l.rules) + Len(l.todo) = Len(old)
    BY <1>5 DEF ReloadInProgress
  <2>2. Len(old) \in Nat /\ DOMAIN old = 1 .. Len(old)
    BY <1>4
  <2>3. Len(l.todo) \in Nat /\ Len(l.todo) # 0 /\ Len(l.rules) \in Nat
    BY <1>1, <1>6
  <2> QED BY <2>1, <2>2, <2>3, OneMore
<1>8. node = Saved(l.format, old)[k]
  <2>1. l.todo[1] = Saved(l.format, old)[Len(l.rules) + 1]
    BY <1>1, <1>5 DEF ReloadInProgress
  <2> QED BY <2>1, <1>1
<1>9. node = [id |-> old[k].id, name |-> Missing, dep |-> old[k].dep,
              timeout |-> SavedTimeout(l.format, old[k].timeout), depth |-> old[k].depth]
  BY <1>8, <1>7, <1>4, <1>6, SavedType
<1>10. old[k] \in ParsedRules
  BY <1>4, <1>7
<1>11. SameRule(l.format, old[k], Parsed(l.format, node, fresh)) /\ ~IdThrows(l.format, node.id)
  BY <1>6, <1>9, <1>10, RoundTrip
<1>12. ~TooDeep(l.format, node.depth)
  <2>1. node.depth = old[k].depth
    BY <1>9
  <2> QED BY <2>1, <1>5, <1>7 DEF ReloadInProgress, SaveThrows
<1> QED BY <1>11, <1>12 DEF l, old, node

(* A document that a parser refuses: the load is over, and its ids stay    *)
(* drawn.                                                                  *)
LEMMA RefuseInv ==
  ASSUME TransferInv, NEW t \in Loaders, ParseRule(t),
         \/ TooDeep(loading[t].format, Head(loading[t].todo).depth)
         \/ IdThrows(loading[t].format, Head(loading[t].todo).id)
  PROVE  TransferInv'
<1> DEFINE rf == [format |-> loading[t].format, orig |-> loading[t].orig]
<1>0. /\ TransferShape /\ LoadsBounded /\ OriginsExist
      /\ ReloadsInProgress /\ ReloadsAreFaithful /\ LoadsWhatItSaved
      /\ AllDrawn /\ DrawnOnce
  BY DEF TransferInv
<1>1. /\ loading[t].todo # <<>> /\ refused' = Append(refused, rf)
      /\ loading' = [loading EXCEPT ![t] = NotLoading]
      /\ ruleIdCounter' = ruleIdCounter /\ flows' = flows
  BY DEF ParseRule
<1>2. t \in LoadingThreads
  BY <1>0, <1>1, NextNode
<1>3. /\ loading' \in [Loaders -> LoadRecords \cup {NotLoading}]
      /\ LoadingThreads' = LoadingThreads \ {t}
      /\ \A u \in LoadingThreads' : loading'[u] = loading[u]
      /\ Cardinality(LoadingThreads') = Cardinality(LoadingThreads) - 1
      /\ loading[t] \in LoadRecords
  BY <1>0, <1>1, <1>2, EndLoadFrame
<1>4. rf \in RefusedRecords /\ rf.orig = loading[t].orig
  BY <1>3 DEF RefusedRecords, LoadRecords
<1>5. loading[t].orig = 0
  BY <1>1, NextSavedNode
<1> HIDE DEF rf
<1>6. /\ refused' \in Seq(RefusedRecords) /\ Len(refused') = Len(refused) + 1
      /\ refused'[Len(refused) + 1] = rf /\ Len(refused) \in Nat
      /\ DOMAIN refused = 1 .. Len(refused) /\ DOMAIN refused' = 1 .. Len(refused) + 1
      /\ \A i \in DOMAIN refused : refused'[i] = refused[i]
  BY <1>0, <1>1, <1>4, AppendProperties DEF TransferShape
<1>7. TransferShape'
  BY <1>0, <1>1, <1>3, <1>6 DEF TransferShape
<1>8. LoadsBounded'
  <2>1. /\ Loads = Len(flows) + Len(refused) + Cardinality(LoadingThreads)
        /\ Cardinality(LoadingThreads) \in Nat
    BY <1>0, LoadingCount
  <2>2. Loads' = Len(flows) + Len(refused') + Cardinality(LoadingThreads')
    BY <1>1 DEF Loads, LoadingThreads
  <2>3. Len(flows) \in Nat
    BY <1>0 DEF TransferShape
  <2>4. Loads' = Loads
    BY <2>1, <2>2, <2>3, <1>3, <1>6
  <2> QED BY <1>0, <2>4 DEF LoadsBounded
<1>9. OriginsExist' /\ ReloadsInProgress'
  BY <1>0, <1>1, <1>3 DEF OriginsExist, ReloadsInProgress
<1>10. ReloadsAreFaithful'
  BY <1>0, <1>1 DEF ReloadsAreFaithful
<1>11. LoadsWhatItSaved'
  <2> SUFFICES ASSUME NEW i \in DOMAIN refused' PROVE refused'[i].orig = 0
    BY DEF LoadsWhatItSaved
  <2>1. CASE i \in DOMAIN refused
    BY <2>1, <1>0, <1>6 DEF LoadsWhatItSaved
  <2>2. CASE i = Len(refused) + 1
    BY <2>2, <1>4, <1>5, <1>6
  <2> QED BY <2>1, <2>2, <1>6
<1>12. AllDrawn'
  BY <1>0, <1>1, <1>3 DEF AllDrawn, DrawnBelow
<1>13. DrawnOnce'
  BY <1>0, <1>1, <1>3 DEF DrawnOnce
<1> QED BY <1>7, <1>8, <1>9, <1>10, <1>11, <1>12, <1>13 DEF TransferInv

(* A parser reads one rule, and draws an id from the counter when the      *)
(* document has none.                                                      *)
LEMMA ParseRuleInv ==
  ASSUME TransferInv, NEW t \in Loaders, ParseRule(t),
         ~TooDeep(loading[t].format, Head(loading[t].todo).depth),
         ~IdThrows(loading[t].format, Head(loading[t].todo).id)
  PROVE  TransferInv'
<1> DEFINE l == loading[t]
           node == Head(l.todo)
           n == Len(l.rules)
           new == Parsed(l.format, node, NextId(t))
           c == IF IsGenerated(l.format, node.id) THEN 1 ELSE 0
<1>0. /\ TransferShape /\ LoadsBounded /\ OriginsExist
      /\ ReloadsInProgress /\ ReloadsAreFaithful /\ LoadsWhatItSaved
      /\ AllDrawn /\ DrawnOnce
  BY DEF TransferInv
<1>1. /\ l.todo # <<>>
      /\ loading' = [loading EXCEPT ![t].todo = Tail(l.todo), ![t].rules = Append(l.rules, new)]
      /\ ruleIdCounter' = ruleIdCounter + c
      /\ refused' = refused /\ flows' = flows
  BY DEF ParseRule
<1>2. /\ t \in LoadingThreads /\ l \in LoadRecords
      /\ node \in DocNodes /\ node = l.todo[1] /\ Tail(l.todo) \in Seq(DocNodes)
      /\ Len(l.todo) \in Nat \ {0} /\ Len(Tail(l.todo)) = Len(l.todo) - 1
      /\ \A k \in 1 .. Len(l.todo) - 1 : Tail(l.todo)[k] = l.todo[k + 1]
  BY <1>0, <1>1, NextNode
<1>3. ruleIdCounter \in Nat /\ c \in {0, 1} /\ NextId(t) = ruleIdCounter + 1
  BY <1>0 DEF TransferShape, NextId
<1>4. /\ l.format \in TransferFormats /\ l.orig \in Nat
      /\ l.rules \in Seq(ParsedRules) /\ n \in Nat
  BY <1>2 DEF LoadRecords
<1>5. new \in ParsedRules
  BY <1>2, <1>3, <1>4, ParsedType
<1>6. /\ new.generated = IsGenerated(l.format, node.id)
      /\ new.generated => new.id = ruleIdCounter + 1 /\ c = 1
  BY <1>3 DEF Parsed, ParsedId
<1> DEFINE m == loading'[t]
           rs == Append(l.rules, new)
<1>7. /\ m.format = l.format /\ m.orig = l.orig /\ m.todo = Tail(l.todo) /\ m.rules = rs
      /\ \A u \in Loaders : u # t => loading'[u] = loading[u]
      /\ DOMAIN loading' = Loaders
      /\ m = [format |-> l.format, orig |-> l.orig, todo |-> Tail(l.todo), rules |-> rs]
  <2>1. l = [format |-> l.format, orig |-> l.orig, todo |-> l.todo, rules |-> l.rules]
    BY <1>2 DEF LoadRecords
  <2>2. DOMAIN loading = Loaders
    BY <1>0 DEF TransferShape
  <2> HIDE DEF new, c, rs
  <2>3. loading' = [loading EXCEPT ![t] = [l EXCEPT !.todo = Tail(l.todo), !.rules = rs]]
    BY <1>1 DEF rs
  <2> QED BY <2>1, <2>2, <2>3
<1>8. /\ rs \in Seq(ParsedRules) /\ Len(rs) = n + 1 /\ rs[n + 1] = new
      /\ DOMAIN rs = 1 .. n + 1 /\ DOMAIN l.rules = 1 .. n
      /\ \A k \in 1 .. n : rs[k] = l.rules[k]
  BY <1>4, <1>5, AppendProperties
<1> HIDE DEF l, node, n, new, c, m, rs
<1>9. m \in LoadRecords /\ m # NotLoading
  BY <1>2, <1>4, <1>7, <1>8, NotLoadingShape DEF LoadRecords
<1>10. TransferShape'
  <2>1. loading' \in [Loaders -> LoadRecords \cup {NotLoading}]
    <3>1. \A u \in Loaders : loading'[u] \in LoadRecords \cup {NotLoading}
      BY <1>0, <1>7, <1>9 DEF TransferShape, m
    <3> QED BY <3>1, <1>0, <1>1 DEF TransferShape
  <2>2. ruleIdCounter' \in Nat
    BY <1>1, <1>3
  <2> QED BY <2>1, <2>2, <1>0, <1>1 DEF TransferShape
<1>11. LoadingThreads' = LoadingThreads /\ \A u \in LoadingThreads : u # t => loading'[u] = loading[u]
  <2>1. \A u \in Loaders : (loading'[u] # NotLoading) <=> (loading[u] # NotLoading)
    BY <1>2, <1>7, <1>9 DEF m, LoadingThreads
  <2> QED BY <2>1, <1>7 DEF LoadingThreads
<1>12. LoadsBounded'
  <2>1. Loads' = Len(flows') + Len(refused') + Cardinality(LoadingThreads')
    BY DEF Loads, LoadingThreads
  <2>2. Loads = Len(flows) + Len(refused) + Cardinality(LoadingThreads)
    BY DEF Loads, LoadingThreads
  <2>3. Loads' = Loads
    BY <2>1, <2>2, <1>1, <1>11
  <2> QED BY <2>3, <1>0 DEF LoadsBounded
<1>13. OriginsExist'
  BY <1>0, <1>1, <1>7, <1>11 DEF OriginsExist, l, m
<1>14. ReloadsInProgress'
  <2> SUFFICES ASSUME NEW u \in LoadingThreads, loading'[u].orig # 0
               PROVE  ReloadInProgress(loading'[u], flows[loading'[u].orig].rules)
    BY <1>1, <1>11 DEF ReloadsInProgress
  <2>1. CASE u # t
    BY <2>1, <1>0, <1>11 DEF ReloadsInProgress
  <2>2. CASE u = t
    <3> DEFINE old == flows[l.orig].rules
    <3>1. loading'[u] = m /\ l.orig # 0 /\ m.orig = l.orig
      BY <2>2, <1>7 DEF m
    <3>2. ReloadInProgress(l, old)
      BY <3>1, <1>0, <1>2 DEF ReloadsInProgress, l
    <3>3. SameRule(l.format, old[n + 1], new)
      BY <3>1, <1>1, NextSavedNode DEF l, node, n, new
    <3> HIDE DEF old
    <3>4. Len(m.rules) + Len(m.todo) = Len(old) /\ Len(m.rules) = n + 1
      <4>1. n + Len(l.todo) = Len(old)
        BY <3>2 DEF ReloadInProgress, n
      <4>2. Len(m.rules) = n + 1
        BY <1>7, <1>8
      <4>3. Len(m.todo) = Len(l.todo) - 1 /\ Len(l.todo) \in Nat /\ Len(l.todo) # 0
        BY <1>7, <1>2
      <4>4. Len(old) \in Nat /\ n \in Nat
        BY <4>1, <4>3, <1>4
      <4>5. (n + 1) + (Len(l.todo) - 1) = Len(old)
        BY <4>1, <4>3, <4>4, OneMore
      <4> QED BY <4>2, <4>3, <4>5
    <3>5. \A k \in 1 .. Len(m.rules) : SameRule(m.format, old[k], m.rules[k])
      <4> SUFFICES ASSUME NEW k \in 1 .. n + 1 PROVE SameRule(l.format, old[k], rs[k])
        BY <3>4, <1>7
      <4>1. CASE k = n + 1
        BY <4>1, <3>3, <1>8
      <4>2. CASE k \in 1 .. n
        BY <4>2, <3>2, <1>8 DEF ReloadInProgress, n
      <4> QED BY <4>1, <4>2, <1>4
    <3>6. \A k \in 1 .. Len(m.todo) : m.todo[k] = Saved(m.format, old)[Len(m.rules) + k]
      <4> SUFFICES ASSUME NEW k \in 1 .. Len(l.todo) - 1
                   PROVE  Tail(l.todo)[k] = Saved(l.format, old)[n + 1 + k]
        BY <3>4, <1>7, <1>2
      <4>1. k + 1 \in 1 .. Len(l.todo) /\ n + (k + 1) = n + 1 + k
        BY <1>2, <1>4
      <4>2. l.todo[k + 1] = Saved(l.format, old)[n + (k + 1)]
        BY <4>1, <3>2 DEF ReloadInProgress, n
      <4> QED BY <4>1, <4>2, <1>2
    <3>7. ~SaveThrows(m.format, old)
      BY <3>2, <1>7 DEF ReloadInProgress
    <3>8. ReloadInProgress(m, old)
      BY <3>4, <3>5, <3>6, <3>7 DEF ReloadInProgress
    <3> QED BY <3>1, <3>8 DEF old
  <2> QED BY <2>1, <2>2
<1>15. ReloadsAreFaithful' /\ LoadsWhatItSaved'
  BY <1>0, <1>1 DEF ReloadsAreFaithful, LoadsWhatItSaved
<1>16. \A ss \in Seq(ParsedRules) : DrawnBelow(ss) =>
        /\ \A k \in DOMAIN ss : ss[k].generated => ss[k].id \in 1 .. ruleIdCounter'
        /\ \A k \in DOMAIN ss : ss[k].generated => ss[k].id # ruleIdCounter + 1
  BY <1>1, <1>3 DEF DrawnBelow
<1>17. /\ \A i \in DOMAIN flows : flows[i].rules \in Seq(ParsedRules) /\ DrawnBelow(flows[i].rules)
       /\ \A u \in LoadingThreads : loading[u].rules \in Seq(ParsedRules) /\ DrawnBelow(loading[u].rules)
  <2>1. \A i \in DOMAIN flows : flows[i].rules \in Seq(ParsedRules)
    <3> SUFFICES ASSUME NEW i \in DOMAIN flows PROVE flows[i].rules \in Seq(ParsedRules)
      OBVIOUS
    <3>1. flows[i] \in FlowRecords
      BY <1>0 DEF TransferShape
    <3> QED BY <3>1 DEF FlowRecords
  <2>2. \A u \in LoadingThreads : loading[u].rules \in Seq(ParsedRules)
    <3> SUFFICES ASSUME NEW u \in LoadingThreads PROVE loading[u].rules \in Seq(ParsedRules)
      OBVIOUS
    <3>1. loading[u] \in LoadRecords
      BY <1>0 DEF TransferShape, LoadingThreads
    <3> QED BY <3>1 DEF LoadRecords
  <2> QED BY <2>1, <2>2, <1>0 DEF AllDrawn
<1>18. AllDrawn'
  <2>1. \A i \in DOMAIN flows : \A k \in DOMAIN flows[i].rules :
          flows[i].rules[k].generated => flows[i].rules[k].id \in 1 .. ruleIdCounter'
    BY <1>16, <1>17
  <2>2. \A u \in LoadingThreads : u # t => \A k \in DOMAIN loading[u].rules :
          loading[u].rules[k].generated => loading[u].rules[k].id \in 1 .. ruleIdCounter'
    BY <1>16, <1>17
  <2>3. \A k \in DOMAIN rs : rs[k].generated => rs[k].id \in 1 .. ruleIdCounter'
    <3> SUFFICES ASSUME NEW k \in 1 .. n + 1, rs[k].generated PROVE rs[k].id \in 1 .. ruleIdCounter'
      BY <1>8
    <3>1. CASE k = n + 1
      BY <3>1, <1>1, <1>3, <1>6, <1>8
    <3>2. CASE k \in 1 .. n
      BY <3>2, <1>2, <1>8, <1>16, <1>17 DEF l
    <3> QED BY <3>1, <3>2, <1>4
  <2>4. \A i \in DOMAIN flows' : DrawnBelow(flows[i].rules)'
    BY <2>1, <1>1 DEF DrawnBelow
  <2>5. \A u \in LoadingThreads' : DrawnBelow(loading[u].rules)'
    BY <2>2, <2>3, <1>7, <1>11 DEF DrawnBelow, m
  <2> QED BY <2>4, <2>5 DEF AllDrawn
<1>19. DrawnOnce'
  <2>1. ASSUME NEW ss \in Seq(ParsedRules), DrawnBelow(ss), Apart(ss, l.rules)
        PROVE  Apart(ss, rs) /\ Apart(rs, ss)
    <3>1. ASSUME NEW k \in DOMAIN ss, NEW j \in DOMAIN rs, ss[k].generated, rs[j].generated
          PROVE  ss[k].id # rs[j].id
      <4>1. ss[k].id # ruleIdCounter + 1
        BY <2>1, <3>1, <1>16
      <4>2. CASE j = n + 1
        BY <4>1, <4>2, <3>1, <1>6, <1>8
      <4>3. CASE j \in 1 .. n
        BY <4>3, <2>1, <3>1, <1>8 DEF Apart
      <4> QED BY <4>2, <4>3, <1>4, <1>8
    <3> QED BY <3>1 DEF Apart
  <2>2. OnceIn(rs)
    <3>1. OnceIn(l.rules) /\ DrawnBelow(l.rules) /\ l.rules \in Seq(ParsedRules)
      BY <1>0, <1>2, <1>17 DEF DrawnOnce, l
    <3>2. \A k \in 1 .. n : l.rules[k].generated => l.rules[k].id # ruleIdCounter + 1
      BY <3>1, <1>8, <1>16
    <3> QED BY <3>1, <3>2, <1>4, <1>6, <1>8 DEF OnceIn
  <2>3. \A i \in DOMAIN flows : Apart(flows[i].rules, rs)
    BY <2>1, <1>0, <1>2, <1>17 DEF DrawnOnce, l
  <2>4. \A u \in LoadingThreads : u # t => Apart(loading[u].rules, rs) /\ Apart(rs, loading[u].rules)
    BY <2>1, <1>0, <1>2, <1>17 DEF DrawnOnce, l
  <2>5. \A u \in LoadingThreads' :
          u \in LoadingThreads /\ loading'[u].rules = IF u = t THEN rs ELSE loading[u].rules
    BY <1>7, <1>11 DEF m
  <2>6. (\A i \in DOMAIN flows' : OnceIn(flows'[i].rules))
        /\ (\A i, j \in DOMAIN flows' : i # j => Apart(flows'[i].rules, flows'[j].rules))
    BY <1>0, <1>1 DEF DrawnOnce
  <2>7. \A u \in LoadingThreads' : OnceIn(loading'[u].rules)
    BY <2>2, <2>5, <1>0 DEF DrawnOnce
  <2>8. \A i \in DOMAIN flows', u \in LoadingThreads' : Apart(flows'[i].rules, loading'[u].rules)
    BY ZenonT(30), <2>3, <2>5, <1>0, <1>1 DEF DrawnOnce
  <2>9. \A u, w \in LoadingThreads' : u # w => Apart(loading'[u].rules, loading'[w].rules)
    BY <2>4, <2>5, <1>0 DEF DrawnOnce
  <2> QED BY <2>6, <2>7, <2>8, <2>9 DEF DrawnOnce
<1> QED BY <1>10, <1>12, <1>13, <1>14, <1>15, <1>18, <1>19 DEF TransferInv

(* Every step of any loader keeps the invariant. *)
LEMMA TransferNextInv == TransferInv /\ [TransferNext]_transferVars => TransferInv'
<1> SUFFICES ASSUME TransferInv, [TransferNext]_transferVars PROVE TransferInv'
  OBVIOUS
<1>1. CASE UNCHANGED transferVars
  BY <1>1 DEF transferVars, TransferInv, TransferShape, LoadsBounded, Loads, OriginsExist,
       ReloadsInProgress, ReloadsAreFaithful, LoadsWhatItSaved, AllDrawn, DrawnBelow, DrawnOnce,
       LoadingThreads
<1>2. ASSUME NEW t \in Loaders, NEW fm \in TransferFormats, LoadDocument(t, fm)
      PROVE  TransferInv'
  <2>1. PICK doc \in Documents : BeginLoad(t, fm, 0, doc)
    BY <1>2 DEF LoadDocument
  <2>2. doc \in Seq(DocNodes)
    BY TransferAssumption
  <2>3. 0 \in 0 .. Len(flows) /\ Loads < MaxLoads
    BY <1>2 DEF LoadDocument, TransferInv, TransferShape
  <2> QED BY <2>1, <2>2, <2>3, BeginLoadInv
<1>3. ASSUME NEW t \in Loaders, NEW fm \in TransferFormats, NEW o \in DOMAIN flows,
             LoadSaved(t, fm, o)
      PROVE  TransferInv'
  <2>1. /\ Loads < MaxLoads /\ ~SaveThrows(fm, flows[o].rules)
        /\ BeginLoad(t, fm, o, Saved(fm, flows[o].rules))
    BY <1>3 DEF LoadSaved
  <2>2. flows \in Seq(FlowRecords) /\ o \in 0 .. Len(flows)
    BY DEF TransferInv, TransferShape
  <2>3. flows[o] \in FlowRecords
    BY <2>2
  <2>4. Saved(fm, flows[o].rules) \in Seq(DocNodes)
    BY <2>3, SavedType DEF FlowRecords
  <2> QED BY <2>1, <2>2, <2>4, BeginLoadInv
<1>4. ASSUME NEW t \in Loaders, ParseRule(t) PROVE TransferInv'
  BY <1>4, RefuseInv, ParseRuleInv
<1>5. ASSUME NEW t \in Loaders, FinishLoad(t) PROVE TransferInv'
  BY <1>5, FinishLoadInv
<1> QED BY <1>1, <1>2, <1>3, <1>4, <1>5 DEF TransferNext

(* The invariant says that workflows survive documents, and that no id is drawn twice. *)
LEMMA TransferInvIsFaithful == TransferInv => TransferIsFaithful
<1> SUFFICES ASSUME TransferInv PROVE TransferIsFaithful
  OBVIOUS
<1>0. /\ TransferShape /\ LoadsBounded /\ OriginsExist
      /\ ReloadsAreFaithful /\ LoadsWhatItSaved /\ DrawnOnce
  BY DEF TransferInv
<1>1. \A i \in DOMAIN flows : flows[i] \in FlowRecords /\ i \in Nat
  BY <1>0 DEF TransferShape
<1>2. TransferTypeOK
  <2>1. Len(flows) <= MaxLoads
    <3>1. Len(flows) \in Nat /\ Len(refused) \in Nat
      BY <1>0 DEF TransferShape
    <3> QED BY <3>1, <1>0, LoadingCount, TransferAssumption DEF LoadsBounded
  <2>2. \A i \in DOMAIN flows : flows[i].format \in TransferFormats
    BY <1>1 DEF FlowRecords
  <2>3. \A t \in Loaders : loading[t].format \in TransferFormats \cup {"none"}
    BY <1>0 DEF TransferShape, LoadRecords, NotLoading
  <2> QED BY <2>1, <2>2, <2>3, <1>0 DEF TransferTypeOK, TransferShape, OriginsExist
<1>3. ReloadKeepsAllButNames
  <2> SUFFICES ASSUME NEW i \in DOMAIN flows, flows[i].orig # 0
               PROVE  LET old == flows[flows[i].orig].rules
                          new == flows[i].rules IN
                        /\ Len(new) = Len(old)
                        /\ \A k \in DOMAIN new : SameRule(flows[i].format, old[k], new[k])
    BY DEF ReloadKeepsAllButNames, SameRule
  <2>1. Reloaded(flows[i], flows[flows[i].orig].rules)
    BY <1>0 DEF ReloadsAreFaithful
  <2>2. flows[i].rules \in Seq(ParsedRules)
    BY <1>1 DEF FlowRecords
  <2> QED BY <2>1, <2>2 DEF Reloaded
<1>4. GeneratedOnce
  BY <1>0 DEF GeneratedOnce, DrawnOnce, OnceIn, Apart
<1> QED BY <1>0, <1>2, <1>3, <1>4 DEF TransferIsFaithful

(* A workflow that was saved and loaded again, through either format, has  *)
(* its rules with their ids, dependencies and time limits, and no          *)
(* generated id is given twice, however the loads of several threads       *)
(* interleave on the shared counter (json_loader, xml_loader,              *)
(* ruleIdCounter).                                                         *)
THEOREM FaithfulTransfer == TransferSpec => []TransferIsFaithful
  BY TransferInitInv, TransferNextInv, TransferInvIsFaithful, PTL DEF TransferSpec

-----------------------------------------------------------------------------
(* Validation. *)

(* The rules of the workflow and the verdicts of validate. *)
RuleDefs ==
  [id : UNION {IdChoices[i] : i \in Positions}, name : UNION {NameChoices[i] : i \in Positions},
   dep : DepChoices, children : ChildChoices]
Verdicts == {"none", "ok", "circular", "zero id", "duplicate id", "missing"}
ValidationShape ==
  /\ ruleDefs \in [Positions -> RuleDefs]
  /\ isValidated \subseteq Positions /\ stale \subseteq Positions
  /\ verdict \in Verdicts /\ validated \in BOOLEAN /\ changedSince \in BOOLEAN

(* The search of the validate that set validated_ saw no cycle, and sees     *)
(* none in the rules as they are unless one of them was changed.             *)
SearchSaysOk == \E f \in DependencyChoices : ~CheckCircularDependencies(f)
AcceptedBySearch == validated /\ ~changedSince => SearchSaysOk

(* A verdict stands as long as no rule is changed, and only a workflow all   *)
(* of whose rules have their flag gets it.                                   *)
AcceptedIsValidated ==
  /\ verdict = "ok" => validated
  /\ validated => isValidated = Positions

(* While all flags are set and none is stale, the search per rule has seen   *)
(* the edges there are.                                                      *)
FlagsMeanNoCycle == isValidated = Positions /\ stale = {} => ~HasCycle(EdgesSoFar)

(* A flag that is set vouches for the rule's dependency unless it is stale. *)
FlagsVouch == \A i \in isValidated : MissingDependencies(i) => i \in stale

(* The inductive invariant of validation.  Of the property only the part   *)
(* that speaks of refusals is in it; the search and the flags say what of  *)
(* an acceptance survives edits.                                           *)
ValidationInv ==
  /\ ValidationShape /\ AcceptedBySearch /\ AcceptedIsValidated /\ FlagsVouch /\ FlagsMeanNoCycle
  /\ SoundIsAccepted

(* The rule that another one depends on. *)
DependsOn(i, j) == i \in Positions /\ j \in Positions /\ ruleDefs[j].name = ruleDefs[i].dep

(* Dependencies as pairs of rules. *)
LEMMA DependencyPairs == \A i, j : <<i, j>> \in Dependencies <=> DependsOn(i, j)
  BY DEF Dependencies, DependsOn

(* Rules are numbered from 1. *)
LEMMA PositionsInterval == Positions = 1 .. Len(IdChoices) /\ Len(IdChoices) \in Nat
  BY ValidationAssumption DEF Positions

(* Of some rules there is a first one. *)
LEMMA LeastPosition ==
  ASSUME NEW S \in SUBSET Positions, S # {}
  PROVE  LET p == CHOOSE i \in S : \A j \in S : i <= j IN p \in S /\ \A j \in S : p <= j
<1>1. S \in SUBSET Nat
  BY PositionsInterval
<1>2. PICK m \in S : \A k \in S : ~(<<k, m>> \in OpToRel(<, Nat))
  BY <1>1, NatLessThanWellFounded, WFMin
<1>3. \A k \in S : m <= k
  <2> SUFFICES ASSUME NEW k \in S PROVE m <= k
    OBVIOUS
  <2>1. m \in Nat /\ k \in Nat /\ ~(k < m)
    BY <1>1, <1>2 DEF OpToRel
  <2> QED BY <2>1
<1> QED BY <1>3

(* Of some rules there is a last one: std::map keeps the last of a name. *)
LEMMA LastPosition ==
  ASSUME NEW S \in SUBSET Positions, S # {}
  PROVE  LastOf(S) \in S /\ \A j \in S : j <= LastOf(S)
<1> DEFINE L == Len(IdChoices)
           back == {k \in Nat : L - k \in S}
<1>1. L \in Nat /\ \A i \in S : i \in 1 .. L
  BY PositionsInterval
<1> HIDE DEF L
<1>2. back \in SUBSET Nat /\ back # {}
  <2>1. PICK i \in S : TRUE
    OBVIOUS
  <2>2. L - i \in Nat /\ L - (L - i) = i
    BY <1>1
  <2> QED BY <2>2
<1>3. PICK m \in back : \A k \in back : ~(<<k, m>> \in OpToRel(<, Nat))
  BY <1>2, NatLessThanWellFounded, WFMin
<1>4. \A k \in back : m <= k
  <2> SUFFICES ASSUME NEW k \in back PROVE m <= k
    OBVIOUS
  <2>1. m \in Nat /\ k \in Nat /\ ~(k < m)
    BY <1>2, <1>3 DEF OpToRel
  <2> QED BY <2>1
<1>5. L - m \in S
  OBVIOUS
<1>6. \A j \in S : j <= L - m
  <2> SUFFICES ASSUME NEW j \in S PROVE j <= L - m
    OBVIOUS
  <2>1. L - j \in Nat /\ L - (L - j) = j
    BY <1>1
  <2>2. L - j \in back
    BY <2>1
  <2>3. m <= L - j /\ m \in Nat
    BY <2>2, <1>4
  <2> QED BY <2>3, <1>1
<1> QED BY <1>5, <1>6 DEF LastOf

(* More edges, no fewer cycles. *)
LEMMA CycleMonotone ==
  ASSUME NEW E, NEW F, E \subseteq F, HasCycle(E)
  PROVE  HasCycle(F)
<1>1. PICK S \in (SUBSET {e[1] : e \in E}) \ {{}} : \A x \in S : \E y \in S : <<x, y>> \in E
  BY DEF HasCycle
<1>2. S \in (SUBSET {e[1] : e \in F}) \ {{}}
  BY <1>1
<1> QED BY <1>1, <1>2 DEF HasCycle

(* Before the first validate nothing is claimed. *)
LEMMA ValidationInitInv == ValidationInit => ValidationInv
<1> SUFFICES ASSUME ValidationInit PROVE ValidationInv
  OBVIOUS
<1>1. ruleDefs \in [Positions -> RuleDefs]
  <2> DEFINE IdLists == {f \in [Positions -> UNION {IdChoices[i] : i \in Positions}] :
                       \A i \in Positions : f[i] \in IdChoices[i]}
             NameLists == {f \in [Positions -> UNION {NameChoices[i] : i \in Positions}] :
                         \A i \in Positions : f[i] \in NameChoices[i]}
             made(ids, names, deps, children) ==
               [i \in Positions |-> [id |-> ids[i], name |-> names[i], dep |-> deps[i],
                                    children |-> children[i]]]
  <2>1. PICK ids \in IdLists, names \in NameLists, deps \in [Positions -> DepChoices],
             children \in [Positions -> ChildChoices] : ruleDefs = made(ids, names, deps, children)
    BY Zenon DEF ValidationInit
  <2>2. ids \in [Positions -> UNION {IdChoices[i] : i \in Positions}]
    BY <2>1
  <2>3. names \in [Positions -> UNION {NameChoices[i] : i \in Positions}]
    BY <2>1
  <2> HIDE DEF IdLists, NameLists
  <2> QED BY <2>1, <2>2, <2>3 DEF RuleDefs
<1>2. FlagsMeanNoCycle
  <2> SUFFICES ASSUME Positions = {} PROVE ~HasCycle(EdgesSoFar)
    BY DEF ValidationInit, FlagsMeanNoCycle
  <2>1. EdgesSoFar = {}
    BY DEF EdgesSoFar
  <2> QED BY <2>1 DEF HasCycle
<1> QED BY <1>1, <1>2 DEF ValidationInit, ValidationInv, ValidationShape, Verdicts,
           AcceptedBySearch, AcceptedIsValidated, FlagsVouch, SoundIsAccepted

(* Workflows in which nothing is wrong. *)
SoundEdges == IdEdges(Dependencies) \cup ChildEdges
SoundWorkflow ==
  /\ NamesUnambiguous /\ 0 \notin RuleIdsInUse /\ (\A i \in Positions : ~MissingDependencies(i))
  /\ ~HasCycle(SoundEdges)

(* validate accepts a workflow in which nothing is wrong. *)
LEMMA SoundRules ==
  ASSUME ValidationShape, SoundWorkflow
  PROVE  /\ ~DuplicateIds(FALSE) /\ ~DuplicateIds(TRUE)
         /\ \A i \in Positions : RuleVerdict(i) = "ok"
         /\ \A f \in DependencyChoices : ~CheckCircularDependencies(f)
<1>1. ~DuplicateIds(FALSE) /\ ~DuplicateIds(TRUE)
  BY DEF SoundWorkflow, NamesUnambiguous, DuplicateIds
<1>2. \A i, j : DependsOn(i, j) => <<ruleDefs[i].id, ruleDefs[j].id>> \in SoundEdges
  <2> SUFFICES ASSUME NEW i, NEW j, DependsOn(i, j)
               PROVE  <<ruleDefs[i].id, ruleDefs[j].id>> \in SoundEdges
    OBVIOUS
  <2> DEFINE e == <<i, j>>
  <2>1. e \in Dependencies /\ e[1] = i /\ e[2] = j
    BY DependencyPairs
  <2> HIDE DEF e
  <2> QED BY <2>1 DEF SoundEdges, IdEdges
<1>3. EdgesSoFar \subseteq SoundEdges
  <2> SUFFICES ASSUME NEW x \in EdgesSoFar PROVE x \in SoundEdges
    OBVIOUS
  <2> DEFINE seen(i) == {j \in ByName(ruleDefs[i].dep) : j <= i}
  <2>1. PICK i \in Positions : x \in {<<ruleDefs[i].id, d>> :
              d \in (ruleDefs[i].children \ {0}) \cup
                    IF seen(i) = {} THEN {} ELSE {ruleDefs[LastOf(seen(i))].id}}
    BY DEF EdgesSoFar
  <2>2. PICK d \in (ruleDefs[i].children \ {0}) \cup
                    IF seen(i) = {} THEN {} ELSE {ruleDefs[LastOf(seen(i))].id} :
               x = <<ruleDefs[i].id, d>>
    BY <2>1
  <2>3. CASE d \in ruleDefs[i].children
    <3>1. d \in ruleDefs[i].children \ {0}
      <4>1. CASE d = 0
        <5>1. seen(i) # {} /\ d = ruleDefs[LastOf(seen(i))].id
          BY <2>2, <4>1
        <5>2. LastOf(seen(i)) \in Positions
          BY <5>1, LastPosition DEF ByName, Named
        <5> QED BY <4>1, <5>1, <5>2 DEF SoundWorkflow, RuleIdsInUse
      <4> QED BY <2>3, <4>1
    <3> QED BY <2>2, <3>1 DEF SoundEdges, ChildEdges
  <2>4. CASE d \notin ruleDefs[i].children
    <3>1. seen(i) # {} /\ d = ruleDefs[LastOf(seen(i))].id
      BY <2>2, <2>4
    <3>2. seen(i) \in SUBSET Positions
      BY DEF ByName, Named
    <3>3. LastOf(seen(i)) \in seen(i)
      BY <3>1, <3>2, LastPosition
    <3>4. DependsOn(i, LastOf(seen(i)))
      BY <3>3 DEF ByName, Named, DependsOn
    <3> QED BY <2>2, <3>1, <3>4, <1>2
  <2> QED BY <2>3, <2>4
<1>4. ~HasCycle(EdgesSoFar)
  BY <1>3, CycleMonotone DEF SoundWorkflow
<1>5. \A i \in Positions : RuleVerdict(i) = "ok"
  BY <1>1, <1>4 DEF RuleVerdict, SoundWorkflow
<1>6. ASSUME NEW f \in DependencyChoices PROVE ~CheckCircularDependencies(f)
  <2> DEFINE E == {<<ruleDefs[i].id, ruleDefs[f[i]].id>> : i \in {j \in Positions : Follows(f, j)}}
  <2>1. E \subseteq SoundEdges
    <3> SUFFICES ASSUME NEW i \in Positions, f[i] # 0
                 PROVE  <<ruleDefs[i].id, ruleDefs[f[i]].id>> \in SoundEdges
      BY DEF Follows
    <3>1. DependsOn(i, f[i])
      BY <1>6 DEF DependencyChoices, Named, DependsOn
    <3> QED BY <3>1, <1>2
  <2> QED BY <2>1, CycleMonotone DEF SoundWorkflow, CheckCircularDependencies
<1> QED BY <1>1, <1>5, <1>6

(* What the search says is a matter of the rules alone. *)
LEMMA SearchUnchanged == ruleDefs' = ruleDefs => (SearchSaysOk' <=> SearchSaysOk)
<1> SUFFICES ASSUME ruleDefs' = ruleDefs PROVE SearchSaysOk' <=> SearchSaysOk
  OBVIOUS
<1>1. InMap' = InMap
  BY DEF InMap, WithId
<1>2. DependencyChoices' = DependencyChoices
  BY <1>1 DEF DependencyChoices, Named
<1>3. \A f : CheckCircularDependencies(f)' <=> CheckCircularDependencies(f)
  BY <1>1 DEF CheckCircularDependencies, Follows
<1> QED BY <1>2, <1>3 DEF SearchSaysOk

(* validate of a workflow that was not validated, whichever check stops it.  *)
LEMMA ValidateRulesInv == ASSUME ValidationInv, Validate, ~validated PROVE ValidationInv'
<1> DEFINE failing == {i \in Positions \ isValidated : RuleVerdict(i) # "ok"}
           first == CHOOSE i \in failing : \A j \in failing : i <= j
<1>0. ValidationShape /\ FlagsVouch /\ FlagsMeanNoCycle
  BY DEF ValidationInv
<1>1. ruleDefs' = ruleDefs /\ stale' = stale /\ changedSince' = changedSince
  BY DEF Validate
<1>2. /\ ValidationShape'
      /\ (verdict' = "ok" \/ validated' => verdict' = "ok" /\ validated' /\ SearchSaysOk /\ isValidated' = Positions)
      /\ (\A i \in isValidated' : i \in isValidated \/ RuleVerdict(i) = "ok")
      /\ (isValidated' = Positions => failing = {} \/ isValidated = Positions)
      /\ (DuplicateIds(FALSE) \/ failing # {} \/ verdict' = "ok" \/ \E f \in DependencyChoices : CheckCircularDependencies(f))
  <2>1. \A i : RuleVerdict(i) \in Verdicts
    BY DEF RuleVerdict, Verdicts
  <2>2. CASE DuplicateIds(FALSE)
    <3>1. verdict' = "duplicate id" /\ isValidated' = isValidated /\ validated' = validated
      BY <2>2 DEF Validate, ValidateRules
    <3> QED BY <1>0, <1>1, <2>2, <3>1 DEF ValidationShape, Verdicts
  <2>3. CASE ~DuplicateIds(FALSE) /\ failing # {}
    <3>1. first \in failing /\ \A j \in failing : first <= j
      <4>1. failing \in SUBSET Positions
        OBVIOUS
      <4> HIDE DEF failing
      <4> QED BY <2>3, <4>1, LeastPosition
    <3>2. verdict' = RuleVerdict(first) /\ isValidated' = isValidated \cup 1 .. first - 1 /\ validated' = validated
      BY <2>3 DEF Validate, ValidateRules
    <3> HIDE DEF first
    <3>3. first \in Positions /\ first \notin isValidated /\ RuleVerdict(first) # "ok"
      BY <3>1
    <3>4. \A i \in 1 .. first - 1 : i \in Positions /\ (i \in isValidated \/ RuleVerdict(i) = "ok")
      <4> SUFFICES ASSUME NEW i \in 1 .. first - 1
                   PROVE  i \in Positions /\ (i \in isValidated \/ RuleVerdict(i) = "ok")
        OBVIOUS
      <4>1. i \in Positions /\ ~(first <= i)
        BY <3>3, PositionsInterval
      <4> QED BY <4>1, <3>1
    <3>5. first \notin isValidated'
      BY <3>2, <3>3, PositionsInterval
    <3> HIDE DEF failing
    <3> QED BY <2>1, <2>3, <3>2, <3>3, <3>4, <3>5, <1>0, <1>1 DEF ValidationShape
  <2>4. CASE ~DuplicateIds(FALSE) /\ failing = {}
    <3>1. isValidated' = Positions
      BY <2>4 DEF Validate, ValidateRules
    <3>2. PICK f \in DependencyChoices :
            /\ verdict' = IF CheckCircularDependencies(f) THEN "circular" ELSE "ok"
            /\ validated' = ~CheckCircularDependencies(f)
      BY <2>4 DEF Validate, ValidateRules
    <3>3. CASE CheckCircularDependencies(f)
      BY <2>4, <3>1, <3>2, <3>3, <1>0, <1>1 DEF ValidationShape, Verdicts
    <3>4. CASE ~CheckCircularDependencies(f)
      BY <2>4, <3>1, <3>2, <3>4, <1>0, <1>1 DEF ValidationShape, Verdicts, SearchSaysOk
    <3> QED BY <3>3, <3>4
  <2> QED BY <2>2, <2>3, <2>4
<1>3. \A i : RuleVerdict(i) = "ok" => ~MissingDependencies(i) /\ ~HasCycle(EdgesSoFar)
  BY DEF RuleVerdict
<1>4. FlagsVouch'
  BY <1>0, <1>1, <1>2, <1>3 DEF FlagsVouch, MissingDependencies, Named
<1>5. AcceptedBySearch' /\ AcceptedIsValidated'
  <2>1. SearchSaysOk => SearchSaysOk'
    BY <1>1, SearchUnchanged
  <2> QED BY <2>1, <1>2 DEF AcceptedBySearch, AcceptedIsValidated
<1>6. FlagsMeanNoCycle'
  <2> SUFFICES ASSUME isValidated' = Positions, stale' = {} PROVE ~HasCycle(EdgesSoFar)'
    BY DEF FlagsMeanNoCycle
  <2>1. ~HasCycle(EdgesSoFar)
    <3>1. CASE isValidated = Positions
      BY <3>1, <1>0, <1>1 DEF FlagsMeanNoCycle
    <3>2. CASE isValidated # Positions
      <4>1. failing = {}
        BY <3>2, <1>2
      <4>2. PICK i \in Positions : i \notin isValidated
        BY <3>2, <1>0 DEF ValidationShape
      <4>3. RuleVerdict(i) = "ok"
        BY <4>1, <4>2
      <4> QED BY <4>3, <1>3
    <3> QED BY <3>1, <3>2
  <2>2. EdgesSoFar' = EdgesSoFar
    BY <1>1 DEF EdgesSoFar, ByName, Named
  <2> QED BY <2>1, <2>2
<1>7. SoundIsAccepted'
  <2>1. CASE SoundWorkflow
    <3>1. /\ ~DuplicateIds(FALSE) /\ failing = {}
          /\ \A f \in DependencyChoices : ~CheckCircularDependencies(f)
      BY <2>1, <1>0, SoundRules
    <3>2. verdict' = "ok"
      BY <3>1, <1>2
    <3> QED BY <3>2 DEF SoundIsAccepted
  <2>2. CASE ~SoundWorkflow
    BY <2>2, <1>1 DEF SoundIsAccepted, SoundWorkflow, SoundEdges, IdEdges, ChildEdges, NamesUnambiguous,
       RuleIdsInUse, MissingDependencies, Named, Dependencies
  <2> QED BY <2>1, <2>2
<1> QED BY <1>2, <1>4, <1>5, <1>6, <1>7 DEF ValidationInv

(* validate; of a workflow that was validated it changes nothing.  *)
LEMMA ValidateInv == ASSUME ValidationInv, Validate PROVE ValidationInv'
<1>1. CASE validated
  <2>1. /\ ruleDefs' = ruleDefs /\ stale' = stale /\ changedSince' = changedSince
        /\ verdict' = "ok" /\ isValidated' = isValidated /\ validated' = validated
    BY <1>1 DEF Validate
  <2>2. ValidationShape' /\ FlagsVouch' /\ AcceptedIsValidated'
    BY <2>1, <1>1 DEF ValidationInv, ValidationShape, Verdicts, FlagsVouch, AcceptedIsValidated,
       MissingDependencies, Named
  <2>3. FlagsMeanNoCycle'
    BY <2>1 DEF ValidationInv, FlagsMeanNoCycle, EdgesSoFar, ByName, Named
  <2>4. AcceptedBySearch'
    <3>1. SearchSaysOk => SearchSaysOk'
      BY <2>1, SearchUnchanged
    <3> QED BY <2>1, <3>1 DEF ValidationInv, AcceptedBySearch
  <2>5. SoundIsAccepted'
    BY <2>1 DEF SoundIsAccepted
  <2> QED BY <2>2, <2>3, <2>4, <2>5 DEF ValidationInv
<1>2. CASE ~validated
  BY <1>2, ValidateRulesInv
<1> QED BY <1>1, <1>2

(* An edit of a rule forgets the verdict and makes its flag stale. *)
LEMMA EditInv ==
  ASSUME ValidationInv, NEW i \in Positions,
         (\E d \in DepChoices : EditDependency(i, d)) \/ (\E j \in Positions : CopyRule(i, j))
  PROVE  ValidationInv'
<1>0. ValidationShape /\ FlagsVouch /\ AcceptedIsValidated
  BY DEF ValidationInv
<1>1. verdict' = "none" /\ validated' = validated /\ changedSince' = (changedSince \/ validated)
  BY DEF EditDependency, CopyRule
<1>2. AcceptedBySearch' /\ SoundIsAccepted'
  BY <1>1, <1>0 DEF AcceptedBySearch, SoundIsAccepted, ValidationShape
<1>3. ASSUME NEW d \in DepChoices, EditDependency(i, d)
      PROVE  ValidationShape' /\ FlagsVouch' /\ AcceptedIsValidated' /\ FlagsMeanNoCycle'
  <2>1. /\ ruleDefs' = [ruleDefs EXCEPT ![i].dep = d] /\ isValidated' = isValidated
        /\ stale' = IF i \in isValidated THEN stale \cup {i} ELSE stale
    BY <1>3 DEF EditDependency
  <2>2. ruleDefs' \in [Positions -> RuleDefs]
    BY <2>1, <1>0 DEF ValidationShape, RuleDefs
  <2>3. ValidationShape'
    BY <2>1, <2>2, <1>0, <1>1 DEF ValidationShape, Verdicts
  <2>4. /\ \A k \in Positions : ruleDefs'[k].name = ruleDefs[k].name
        /\ \A k \in Positions : k # i => ruleDefs'[k].dep = ruleDefs[k].dep
    BY <2>1, <1>0 DEF ValidationShape, RuleDefs
  <2>5. \A k \in Positions : k # i => (MissingDependencies(k)' <=> MissingDependencies(k))
    BY <2>4 DEF MissingDependencies, Named
  <2>6. FlagsVouch'
    BY <2>1, <2>5, <1>0 DEF FlagsVouch, ValidationShape
  <2>7. AcceptedIsValidated'
    BY <2>1, <1>0, <1>1 DEF AcceptedIsValidated
  <2>8. FlagsMeanNoCycle'
    <3>1. isValidated' = Positions => stale' # {}
      BY <2>1
    <3> QED BY <3>1 DEF FlagsMeanNoCycle
  <2> QED BY <2>3, <2>6, <2>7, <2>8
<1>4. ASSUME NEW j \in Positions, CopyRule(i, j)
      PROVE  ValidationShape' /\ FlagsVouch' /\ AcceptedIsValidated' /\ FlagsMeanNoCycle'
  <2>1. /\ ruleDefs' = [ruleDefs EXCEPT ![i].dep = ruleDefs[j].dep, ![i].children = ruleDefs[j].children]
        /\ isValidated' = IF j \in isValidated THEN isValidated \cup {i} ELSE isValidated \ {i}
        /\ stale' = IF j \in isValidated THEN stale \cup {i} ELSE stale \ {i}
    BY <1>4 DEF CopyRule
  <2>2. ruleDefs' \in [Positions -> RuleDefs]
    BY <2>1, <1>0 DEF ValidationShape, RuleDefs
  <2>3. ValidationShape'
    BY <2>1, <2>2, <1>0, <1>1 DEF ValidationShape, Verdicts
  <2>4. /\ \A k \in Positions : ruleDefs'[k].name = ruleDefs[k].name
        /\ \A k \in Positions : k # i => ruleDefs'[k].dep = ruleDefs[k].dep
    BY <2>1, <1>0 DEF ValidationShape, RuleDefs
  <2>5. \A k \in Positions : k # i => (MissingDependencies(k)' <=> MissingDependencies(k))
    BY <2>4 DEF MissingDependencies, Named
  <2>6. FlagsVouch'
    BY <2>1, <2>5, <1>0 DEF FlagsVouch, ValidationShape
  <2>7. AcceptedIsValidated'
    BY <2>1, <1>0, <1>1 DEF AcceptedIsValidated
  <2>8. FlagsMeanNoCycle'
    <3>1. isValidated' = Positions => stale' # {}
      BY <2>1
    <3> QED BY <3>1 DEF FlagsMeanNoCycle
  <2> QED BY <2>3, <2>6, <2>7, <2>8
<1> QED BY <1>2, <1>3, <1>4 DEF ValidationInv

(* Every step keeps the invariant. *)
LEMMA ValidationNextInv == ValidationInv /\ [ValidationNext]_validationVars => ValidationInv'
<1> SUFFICES ASSUME ValidationInv, [ValidationNext]_validationVars PROVE ValidationInv'
  OBVIOUS
<1>1. CASE UNCHANGED validationVars
  <2>1. /\ ruleDefs' = ruleDefs /\ isValidated' = isValidated /\ verdict' = verdict
        /\ stale' = stale /\ validated' = validated /\ changedSince' = changedSince
    BY <1>1 DEF validationVars
  <2>2. ValidationShape' /\ FlagsVouch' /\ AcceptedIsValidated'
    BY <2>1 DEF ValidationInv, ValidationShape, FlagsVouch, AcceptedIsValidated,
               MissingDependencies, Named
  <2>3. AcceptedBySearch'
    <3>1. SearchSaysOk => SearchSaysOk'
      BY <2>1, SearchUnchanged
    <3> QED BY <2>1, <3>1 DEF ValidationInv, AcceptedBySearch
  <2>4. SoundIsAccepted'
    BY <2>1 DEF ValidationInv, SoundIsAccepted, IdEdges, ChildEdges, NamesUnambiguous, RuleIdsInUse,
       MissingDependencies, Named, Dependencies
  <2>5. FlagsMeanNoCycle'
    BY <2>1 DEF ValidationInv, FlagsMeanNoCycle, EdgesSoFar, ByName, Named
  <2> QED BY <2>2, <2>3, <2>4, <2>5 DEF ValidationInv
<1>2. CASE Validate
  BY <1>2, ValidateInv
<1>3. ASSUME NEW i \in Positions,
             (\E d \in DepChoices : EditDependency(i, d)) \/ (\E j \in Positions : CopyRule(i, j))
      PROVE  ValidationInv'
  BY <1>3, EditInv
<1> QED BY <1>1, <1>2, <1>3 DEF ValidationNext

-----------------------------------------------------------------------------
(* With distinct names a dependency is one rule, and the search follows it   *)
(* unless the id of that rule is -1.                                         *)
LEMMA SearchIsComplete == ValidationInv => AcceptedIsAcyclic
<1> DEFINE D == {e \in Dependencies : ruleDefs[e[2]].id # -1}
<1> SUFFICES ASSUME ValidationInv, verdict = "ok", ~changedSince, NamesUnambiguous, HasCycle(D)
             PROVE  FALSE
  BY DEF AcceptedIsAcyclic
<1>1. PICK f \in DependencyChoices : ~CheckCircularDependencies(f)
  BY DEF ValidationInv, AcceptedBySearch, AcceptedIsValidated, SearchSaysOk
<1>2. PICK S \in (SUBSET {e[1] : e \in D}) \ {{}} : \A x \in S : \E y \in S : <<x, y>> \in D
  BY DEF HasCycle
<1> DEFINE E == {<<ruleDefs[i].id, ruleDefs[f[i]].id>> : i \in {j \in Positions : Follows(f, j)}}
           T == {ruleDefs[x].id : x \in S}
<1>3. ASSUME NEW x \in S PROVE  \E y \in S : <<ruleDefs[x].id, ruleDefs[y].id>> \in E
  <2>1. PICK y \in S : <<x, y>> \in Dependencies /\ ruleDefs[y].id # -1
    BY <1>2, <1>3
  <2>2. DependsOn(x, y)
    BY <2>1, DependencyPairs
  <2>3. ASSUME NEW z \in Positions PROVE z \in InMap
    <3>1. WithId(ruleDefs[z].id) = {z}
      BY DEF WithId, NamesUnambiguous
    <3>2. LastOf({z}) = z
      BY LastPosition
    <3> QED BY <3>1, <3>2 DEF InMap
  <2>4. y \in Named(ruleDefs[x].dep) \cap InMap
    BY <2>2, <2>3 DEF DependsOn, Named
  <2>5. f[x] \in Named(ruleDefs[x].dep)
    BY <2>2, <2>4, <1>1 DEF DependsOn, DependencyChoices
  <2>6. f[x] = y
    BY <2>4, <2>5 DEF NamesUnambiguous, Named
  <2>7. x \in Positions /\ y # 0
    BY <2>2, PositionsInterval DEF DependsOn
  <2>8. Follows(f, x)
    BY <2>1, <2>3, <2>6, <2>7 DEF Follows
  <2> QED BY <2>6, <2>7, <2>8
<1>4. ASSUME NEW a \in T PROVE \E b \in T : <<a, b>> \in E
  <2>1. PICK x \in S : a = ruleDefs[x].id
    BY <1>4
  <2>2. PICK y \in S : <<ruleDefs[x].id, ruleDefs[y].id>> \in E
    BY <1>3
  <2> HIDE DEF E
  <2> QED BY <2>1, <2>2
<1>5. T \in (SUBSET {e[1] : e \in E}) \ {{}}
  <2>1. \A a \in T : a \in {e[1] : e \in E}
    <3> SUFFICES ASSUME NEW a \in T PROVE \E e \in E : a = e[1]
      OBVIOUS
    <3>1. PICK b \in T : <<a, b>> \in E
      BY <1>4
    <3> HIDE DEF E, T
    <3> QED BY <3>1
  <2>2. T # {}
    BY <1>2
  <2> QED BY <2>1, <2>2
<1>6. HasCycle(E)
  <2> HIDE DEF E, T
  <2> QED BY <1>4, <1>5 DEF HasCycle
<1> QED BY <1>1, <1>6 DEF CheckCircularDependencies

(* The edges to children and earlier rules are those of the search per rule. *)
LEMMA NoChildCycle == ValidationInv => AcceptedHasNoChildCycle
<1> DEFINE earlier(e) == e[2] <= e[1] /\ ruleDefs[e[1]].dep # NoName
           D == {e \in Dependencies : earlier(e)}
<1> SUFFICES ASSUME ValidationInv, verdict = "ok", stale = {}, NamesUnambiguous,
                    HasCycle(ChildEdges \cup IdEdges(D))
             PROVE  FALSE
  BY DEF AcceptedHasNoChildCycle
<1>1. ~HasCycle(EdgesSoFar)
  BY DEF ValidationInv, FlagsMeanNoCycle, AcceptedIsValidated
<1> DEFINE seen(i) == {j \in ByName(ruleDefs[i].dep) : j <= i}
           next(i) == (ruleDefs[i].children \ {0}) \cup
                      IF seen(i) = {} THEN {} ELSE {ruleDefs[LastOf(seen(i))].id}
<1>2. ASSUME NEW i \in Positions, NEW d \in next(i)
      PROVE  <<ruleDefs[i].id, d>> \in EdgesSoFar
  <2>1. EdgesSoFar = UNION {{<<ruleDefs[k].id, c>> : c \in next(k)} : k \in Positions}
    BY DEF EdgesSoFar
  <2> HIDE DEF next
  <2> QED BY <1>2, <2>1
<1>3. ChildEdges \subseteq EdgesSoFar
  <2> SUFFICES ASSUME NEW i \in Positions, NEW d \in ruleDefs[i].children \ {0}
               PROVE  <<ruleDefs[i].id, d>> \in EdgesSoFar
    BY DEF ChildEdges
  <2>1. d \in next(i)
    OBVIOUS
  <2> QED BY <1>2, <2>1
<1>4. IdEdges(D) \subseteq EdgesSoFar
  <2> SUFFICES ASSUME NEW e \in D PROVE <<ruleDefs[e[1]].id, ruleDefs[e[2]].id>> \in EdgesSoFar
    BY DEF IdEdges
  <2>1. e \in Positions \X Positions /\ ruleDefs[e[2]].name = ruleDefs[e[1]].dep /\ earlier(e)
    BY DEF Dependencies
  <2>2. PICK i \in Positions, j \in Positions : e[1] = i /\ e[2] = j
    BY <2>1
  <2>3. seen(i) = {j}
    BY <2>1, <2>2 DEF ByName, Named, NamesUnambiguous
  <2>4. LastOf({j}) = j
    BY LastPosition
  <2>5. ruleDefs[j].id \in next(i)
    BY <2>3, <2>4
  <2> QED BY <2>2, <2>5, <1>2
<1>5. HasCycle(EdgesSoFar)
  <2>1. ChildEdges \cup IdEdges(D) \subseteq EdgesSoFar
    BY <1>3, <1>4
  <2> HIDE DEF D
  <2> QED BY <2>1, CycleMonotone
<1> QED BY <1>1, <1>5

(* A flag that vouches for a dependency is what an acceptance rests on. *)
LEMMA NoneIsMissing == ValidationInv => AcceptedHasItsDependencies
BY DEF ValidationInv, AcceptedIsValidated, FlagsVouch, AcceptedHasItsDependencies

-----------------------------------------------------------------------------
(* The walk from rule i: each step goes from an id to the id of the rule it  *)
(* depends on.                                                               *)
WalkStart(i) == IdOf(ruleDefs[i].dep)
IsWalk(w, i, n) ==
  w = [k \in 0 .. n |-> IF k = 0 THEN WalkStart(i) ELSE Successor(w[k - 1])]

(* There is a walk of any length. *)
LEMMA WalkExists ==
  ASSUME NEW i, NEW n \in Nat
  PROVE  \E w : IsWalk(w, i, n)
<1> DEFINE bad == {k \in Nat : ~\E w : IsWalk(w, i, k)}
<1> SUFFICES ASSUME bad # {} PROVE FALSE
  OBVIOUS
<1>1. PICK m \in bad : \A k \in bad : ~(<<k, m>> \in OpToRel(<, Nat))
  BY NatLessThanWellFounded, WFMin
<1>2. m # 0
  <2>1. IsWalk([k \in 0 .. 0 |-> WalkStart(i)], i, 0)
    BY DEF IsWalk
  <2> QED BY <2>1
<1>3. m \in Nat /\ m - 1 \in Nat /\ m - 1 < m
  BY <1>2
<1>4. m - 1 \notin bad
  BY <1>1, <1>3 DEF OpToRel
<1>5. PICK v : IsWalk(v, i, m - 1)
  BY <1>3, <1>4
<1> DEFINE w == [k \in 0 .. m |-> IF k = m THEN Successor(v[m - 1]) ELSE v[k]]
<1>6. \A k \in 0 .. m - 1 : v[k] = IF k = 0 THEN WalkStart(i) ELSE Successor(v[k - 1])
  BY <1>5 DEF IsWalk
<1>7. \A k \in 0 .. m : w[k] = IF k = 0 THEN WalkStart(i) ELSE Successor(w[k - 1])
  <2> SUFFICES ASSUME NEW k \in 0 .. m
               PROVE  w[k] = IF k = 0 THEN WalkStart(i) ELSE Successor(w[k - 1])
    OBVIOUS
  <2>1. CASE k = m
    <3>1. m - 1 \in 0 .. m /\ m - 1 # m
      BY <1>3
    <3> QED BY <2>1, <3>1, <1>2
  <2>2. CASE k # m /\ k # 0
    <3>1. k \in 0 .. m - 1 /\ k - 1 \in 0 .. m /\ k - 1 # m
      BY <2>2, <1>3
    <3> QED BY <2>2, <3>1, <1>6
  <2>3. CASE k = 0
    <3>1. 0 \in 0 .. m - 1
      BY <1>3
    <3> QED BY <2>3, <3>1, <1>2, <1>6
  <2> QED BY <2>1, <2>2, <2>3
<1>8. IsWalk(w, i, m)
  <2>1. w = [k \in 0 .. m |-> w[k]]
    OBVIOUS
  <2> HIDE DEF w
  <2> QED BY <2>1, <1>7 DEF IsWalk
<1> QED BY <1>1, <1>8

(* What the recursive definition of Walk gives. *)
LEMMA WalkUnfolds ==
  ASSUME NEW i
  PROVE  /\ DOMAIN Walk(i) = 0 .. Len(IdChoices) + 1
         /\ Walk(i)[0] = WalkStart(i)
         /\ \A k \in 0 .. Len(IdChoices) : Walk(i)[k + 1] = Successor(Walk(i)[k])
<1> DEFINE n == Len(IdChoices) + 1
<1>1. n \in Nat
  BY PositionsInterval
<1>2. Walk(i) = CHOOSE w : w = [k \in 0 .. n |-> IF k = 0 THEN WalkStart(i) ELSE Successor(w[k - 1])]
  BY DEF Walk, WalkStart
<1>3. IsWalk(Walk(i), i, n)
  BY <1>1, <1>2, WalkExists DEF IsWalk
<1>4. \A k \in 0 .. n : Walk(i)[k] = IF k = 0 THEN WalkStart(i) ELSE Successor(Walk(i)[k - 1])
  BY <1>3 DEF IsWalk
<1>5. DOMAIN Walk(i) = 0 .. n
  BY <1>3 DEF IsWalk
<1>6. Walk(i)[0] = WalkStart(i)
  BY <1>1, <1>4
<1>7. ASSUME NEW k \in 0 .. Len(IdChoices) PROVE Walk(i)[k + 1] = Successor(Walk(i)[k])
  <2>1. k + 1 \in 0 .. n /\ k + 1 # 0 /\ k + 1 - 1 = k
    BY <1>1, PositionsInterval
  <2> QED BY <2>1, <1>4
<1> QED BY <1>5, <1>6, <1>7

(* The dependencies a walk follows: the empty name finds no rule. *)
LeadsTo(i, j) == DependsOn(i, j) /\ ruleDefs[i].dep # NoName

(* With distinct names and ids, a step of the walk is the dependency. *)
LEMMA StepOfWalk ==
  ASSUME ValidationShape, NamesUnambiguous, 0 \notin RuleIdsInUse, NEW x \in Positions
  PROVE  /\ Successor(ruleDefs[x].id) = WalkStart(x)
         /\ \A y : LeadsTo(x, y) => WalkStart(x) = ruleDefs[y].id
         /\ WalkStart(x) # 0 => \E y \in Positions : LeadsTo(x, y) /\ WalkStart(x) = ruleDefs[y].id
         /\ ruleDefs[x].id # 0
<1>1. ruleDefs[x].id # 0
  BY DEF RuleIdsInUse
<1>2. WithId(ruleDefs[x].id) = {x}
  BY DEF WithId, NamesUnambiguous
<1>3. LastOf({x}) = x
  BY LastPosition
<1>4. Successor(ruleDefs[x].id) = WalkStart(x)
  BY <1>1, <1>2, <1>3 DEF Successor, WalkStart
<1>5. ASSUME NEW y, LeadsTo(x, y) PROVE WalkStart(x) = ruleDefs[y].id
  <2>1. ByName(ruleDefs[x].dep) = {y} /\ y \in Positions
    BY <1>5 DEF LeadsTo, DependsOn, ByName, Named, NamesUnambiguous
  <2>2. LastOf({y}) = y
    BY <2>1, LastPosition
  <2> QED BY <2>1, <2>2 DEF WalkStart, IdOf
<1>6. ASSUME WalkStart(x) # 0 PROVE \E y \in Positions : LeadsTo(x, y) /\ WalkStart(x) = ruleDefs[y].id
  <2>1. ByName(ruleDefs[x].dep) # {}
    BY <1>6 DEF WalkStart, IdOf
  <2>2. PICK y \in ByName(ruleDefs[x].dep) : TRUE
    BY <2>1
  <2>3. LeadsTo(x, y) /\ y \in Positions
    BY <2>2 DEF ByName, Named, LeadsTo, DependsOn
  <2> QED BY <2>3, <1>5
<1> QED BY <1>1, <1>4, <1>5, <1>6

(* From a rule in a set that no dependency leaves, the walk never ends and  *)
(* so meets a rule twice.                                                   *)
LEMMA ClosedSetIsFound ==
  ASSUME ValidationShape, NamesUnambiguous, 0 \notin RuleIdsInUse, NEW i \in Positions,
         NEW S \in SUBSET Positions, i \in S, \A x \in S : \E y \in S : LeadsTo(x, y)
  PROVE  HasCircularDependency(i)
<1> DEFINE w == Walk(i)
           n == Len(IdChoices)
           inS(k) == \E x \in S : w[k] = ruleDefs[x].id
           bad == {k \in 0 .. n + 1 : ~inS(k)}
<1>0. /\ n \in Nat /\ Positions = 1 .. n /\ DOMAIN w = 0 .. n + 1
      /\ w[0] = WalkStart(i) /\ \A k \in 0 .. n : w[k + 1] = Successor(w[k])
  BY PositionsInterval, WalkUnfolds
<1> HIDE DEF w, n
<1>1. inS(0)
  <2>1. PICK y \in S : LeadsTo(i, y)
    OBVIOUS
  <2> QED BY <2>1, <1>0, StepOfWalk
<1>2. ASSUME NEW k \in 0 .. n, inS(k) PROVE inS(k + 1)
  <2>1. PICK x \in S : w[k] = ruleDefs[x].id
    BY <1>2
  <2>2. PICK y \in S : LeadsTo(x, y)
    OBVIOUS
  <2>3. Successor(ruleDefs[x].id) = ruleDefs[y].id
    BY <2>2, StepOfWalk
  <2> QED BY <2>1, <2>3, <1>0
<1>3. bad = {}
  <2> SUFFICES ASSUME bad # {} PROVE FALSE
    OBVIOUS
  <2>1. bad \in SUBSET Nat
    BY <1>0
  <2>2. PICK m \in bad : \A k \in bad : ~(<<k, m>> \in OpToRel(<, Nat))
    BY <2>1, NatLessThanWellFounded, WFMin
  <2>3. m # 0 /\ m \in 0 .. n + 1 /\ ~inS(m)
    BY <1>1, <2>2
  <2>4. m - 1 \in 0 .. n /\ m - 1 \in Nat /\ m \in Nat /\ m - 1 < m /\ m - 1 + 1 = m
    <3>1. n \in Nat /\ m \in 0 .. n + 1 /\ m # 0
      BY <1>0, <2>3
    <3> HIDE DEF bad
    <3> QED BY <3>1
  <2>5. m - 1 \notin bad
    BY <2>2, <2>4 DEF OpToRel
  <2>6. inS(m - 1)
    BY <2>4, <2>5, <1>0
  <2> QED BY <2>3, <2>4, <2>6, <1>2
<1>4. \A k \in 0 .. n + 1 : inS(k)
  BY <1>3
<1> DEFINE g == [k \in 0 .. n + 1 |-> CHOOSE x \in S : w[k] = ruleDefs[x].id]
<1>5. \A k \in 0 .. n + 1 : g[k] \in S /\ w[k] = ruleDefs[g[k]].id
  BY <1>4
<1>6. g \in [0 .. n + 1 -> Positions]
  BY <1>5
<1> HIDE DEF g, bad
<1>7. PICK a \in 0 .. n + 1, b \in 0 .. n + 1 : a # b /\ g[a] = g[b]
  <2>1. IsFiniteSet(0 .. n + 1) /\ Cardinality(0 .. n + 1) = n + 2
    <3>1. 0 \in Int /\ n + 1 \in Int /\ ~(0 > n + 1) /\ n + 1 - 0 + 1 = n + 2
      BY <1>0
    <3> QED BY <3>1, FS_Interval
  <2>2. IsFiniteSet(Positions) /\ Cardinality(Positions) = n
    <3>1. 1 \in Int /\ n \in Int /\ (1 > n => n = 0) /\ n - 1 + 1 = n
      BY <1>0
    <3> QED BY <3>1, <1>0, FS_Interval
  <2>3. Cardinality(Positions) < Cardinality(0 .. n + 1)
    BY <1>0, <2>1, <2>2
  <2> QED BY ZenonT(30), <1>6, <2>1, <2>2, <2>3, FS_PigeonHole
<1>8. \A k \in 0 .. n + 1 : w[k] # 0
  BY <1>5, StepOfWalk
<1>9. ASSUME NEW k \in 0 .. n + 1, NEW m \in 0 .. k - 1, w[m] = w[k]
      PROVE  HasCircularDependency(i)
  <2>1. \A j \in 0 .. k : w[j] # 0
    <3>1. n \in Nat
      BY <1>0
    <3>2. \A j \in 0 .. k : j \in 0 .. n + 1
      BY <3>1
    <3> QED BY <3>2, <1>8
  <2> QED BY <2>1, <1>9, <1>0 DEF HasCircularDependency, w
<1>10. w[a] = w[b] /\ (a \in 0 .. b - 1 \/ b \in 0 .. a - 1)
  <2>1. n \in Nat
    BY <1>0
  <2>2. a \in Nat /\ b \in Nat /\ a # b
    BY <2>1, <1>7
  <2>3. a \in 0 .. b - 1 \/ b \in 0 .. a - 1
    BY <2>2
  <2>4. w[a] = w[b]
    BY <1>5, <1>7
  <2> QED BY <2>3, <2>4
<1> QED BY <1>9, <1>10

(* A walk that comes back stays among the rules it has seen. *)
LEMMA FoundIsClosedSet ==
  ASSUME ValidationShape, NamesUnambiguous, 0 \notin RuleIdsInUse, NEW i \in Positions,
         HasCircularDependency(i)
  PROVE  \E S \in SUBSET Positions : i \in S /\ \A x \in S : \E y \in S : LeadsTo(x, y)
<1> DEFINE w == Walk(i)
           n == Len(IdChoices)
<1>0. /\ n \in Nat /\ DOMAIN w = 0 .. n + 1
      /\ w[0] = WalkStart(i) /\ \A k \in 0 .. n : w[k + 1] = Successor(w[k])
  BY PositionsInterval, WalkUnfolds
<1>1. PICK q \in DOMAIN w : /\ \A m \in 0 .. q : w[m] # 0
                            /\ w[q] = ruleDefs[i].id \/ \E m \in 0 .. q - 1 : w[m] = w[q]
  BY DEF HasCircularDependency
<1> HIDE DEF w, n
<1> DEFINE S == {x \in Positions : x = i \/ \E k \in 0 .. q : w[k] = ruleDefs[x].id}
<1>2. q \in 0 .. n + 1 /\ q \in Nat
  BY <1>0, <1>1
<1>3. ASSUME NEW x \in Positions, NEW k \in 0 .. q, w[k] = WalkStart(x)
      PROVE  \E y \in S : LeadsTo(x, y)
  <2>1. w[k] # 0
    BY <1>1
  <2>2. PICK y \in Positions : LeadsTo(x, y) /\ WalkStart(x) = ruleDefs[y].id
    BY <1>3, <2>1, StepOfWalk
  <2>3. y \in S
    BY <1>3, <2>2
  <2> QED BY <2>2, <2>3
<1>4. ASSUME NEW x \in Positions, NEW k \in 0 .. q - 1, w[k] = ruleDefs[x].id
      PROVE  \E y \in S : LeadsTo(x, y)
  <2>1. k \in 0 .. n /\ k + 1 \in 0 .. q
    BY <1>0, <1>2
  <2>2. w[k + 1] = Successor(ruleDefs[x].id)
    BY <1>4, <2>1, <1>0
  <2>3. w[k + 1] = WalkStart(x)
    BY <2>2, StepOfWalk
  <2> QED BY <2>1, <2>3, <1>3
<1>5. ASSUME NEW x \in S PROVE \E y \in S : LeadsTo(x, y)
  <2>1. CASE x = i
    <3>1. 0 \in 0 .. q
      BY <1>2
    <3> QED BY <2>1, <3>1, <1>0, <1>3
  <2>2. CASE x # i
    <3>1. PICK k \in 0 .. q : w[k] = ruleDefs[x].id
      BY <1>5, <2>2
    <3>2. CASE k # q
      <4>1. k \in 0 .. q - 1
        BY <3>2, <1>2
      <4> QED BY <3>1, <4>1, <1>4
    <3>3. CASE k = q
      <4>1. w[q] # ruleDefs[i].id
        BY <2>2, <3>1, <3>3 DEF NamesUnambiguous
      <4>2. PICK m \in 0 .. q - 1 : w[m] = w[q]
        BY <1>1, <4>1
      <4> QED BY <3>1, <3>3, <4>2, <1>4
    <3> QED BY <3>2, <3>3
  <2> QED BY <2>1, <2>2
<1>6. S \in SUBSET Positions /\ i \in S
  OBVIOUS
<1> HIDE DEF S
<1> QED BY <1>5, <1>6

(* So the walk finds a cycle from a rule exactly when there is one on its  *)
(* way.                                                                    *)
LEMMA WalkIsExact == ValidationShape => WalkFindsCycles
<1> SUFFICES ASSUME ValidationShape, NamesUnambiguous, 0 \notin RuleIdsInUse, NEW i \in Positions
             PROVE  HasCircularDependency(i) <=>
                      \E S \in SUBSET Positions :
                        i \in S /\ \A x \in S : ruleDefs[x].dep # NoName /\ \E y \in S : <<x, y>> \in Dependencies
  BY DEF WalkFindsCycles
<1>1. ASSUME HasCircularDependency(i)
      PROVE  \E S \in SUBSET Positions :
               i \in S /\ \A x \in S : ruleDefs[x].dep # NoName /\ \E y \in S : <<x, y>> \in Dependencies
  <2>1. PICK S \in SUBSET Positions : i \in S /\ \A x \in S : \E y \in S : LeadsTo(x, y)
    BY <1>1, FoundIsClosedSet
  <2>2. \A x \in S : ruleDefs[x].dep # NoName /\ \E y \in S : <<x, y>> \in Dependencies
    BY <2>1, DependencyPairs DEF LeadsTo
  <2> QED BY <2>1, <2>2
<1>2. ASSUME NEW S \in SUBSET Positions, i \in S,
             \A x \in S : ruleDefs[x].dep # NoName /\ \E y \in S : <<x, y>> \in Dependencies
      PROVE  HasCircularDependency(i)
  <2>1. \A x \in S : \E y \in S : LeadsTo(x, y)
    BY <1>2, DependencyPairs DEF LeadsTo
  <2> QED BY <2>1, <1>2, ClosedSetIsFound
<1> QED BY <1>1, <1>2

(* validate accepts no workflow with a cycle of dependencies, or of        *)
(* children and dependencies on earlier rules, and none with a missing     *)
(* dependency, as far as its flags and the id -1 let it look, and refuses  *)
(* none in which nothing is wrong; the walk of hasCircularDependency finds *)
(* the cycles and only them (workflow.cpp, rule.cpp).                      *)
THEOREM ExactValidation == ValidationSpec => []ValidationIsExact
<1>1. ValidationInv => ValidationIsExact
  BY SearchIsComplete, NoChildCycle, NoneIsMissing, WalkIsExact DEF ValidationInv, ValidationIsExact
<1> QED BY <1>1, ValidationInitInv, ValidationNextInv, PTL DEF ValidationSpec

-----------------------------------------------------------------------------
(* All stores side by side. *)

(* Whatever store a behaviour is about, the invariants of all four hold. *)
StoresInv == AnswersInv /\ DbInv /\ TransferInv /\ ValidationInv

(* They hold at first. *)
LEMMA StoresInitInv == StoresInit => StoresInv
BY AnswersInitInv, DbInitInv, TransferInitInv, ValidationInitInv DEF StoresInit, StoresInv

(* A step of one store is a step of its own specification, and none of the   *)
(* others.                                                                   *)
LEMMA StoresStep ==
  ASSUME [StoresNext]_storeVars
  PROVE  /\ [Next]_vars /\ [DbNext]_dbVars /\ [TransferNext]_transferVars
         /\ [ValidationNext]_validationVars
BY DEF StoresNext, File1, Db1, Transfer1, Validation1, Rest, storeVars

(* Every step keeps all four. *)
LEMMA StoresNextInv == StoresInv /\ [StoresNext]_storeVars => StoresInv'
<1> SUFFICES ASSUME StoresInv, [StoresNext]_storeVars PROVE StoresInv'
  OBVIOUS
<1>1. /\ [Next]_vars /\ [DbNext]_dbVars /\ [TransferNext]_transferVars
      /\ [ValidationNext]_validationVars
  BY StoresStep
<1> QED BY <1>1, AnswersNextInv, DbNextInv, TransferNextInv, ValidationNextInv DEF StoresInv

(* A store answers with what it was last told: files by their memory, and    *)
(* the database by its tables, for every size of all of them (save, remove   *)
(* and findById of the JSON, XML and SOCI repositories).                     *)
THEOREM StoresAnswer == StoresSpec => []StoresAnswerTruly
<1>1. StoresInv => StoresAnswerTruly
  <2>1. AnswersInv => AnswersAreCurrent
    BY DEF AnswersInv, MemoryAnswers, Answers, AnswersAreCurrent
  <2> QED BY <2>1, DbInvImplies DEF StoresInv, StoresAnswerTruly
<1> QED BY <1>1, StoresInitInv, StoresNextInv, PTL DEF StoresSpec

=============================================================================
