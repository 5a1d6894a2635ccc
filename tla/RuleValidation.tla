--------------------------- MODULE RuleValidation ---------------------------
(***************************************************************************)
(* Workflow::validate, Rule::validate and the walks along dependencies.    *)
(* The rules are a sequence; dependencies are by name, children by id.     *)
(* Both kinds of validation remember their success, per workflow and per   *)
(* rule, and nothing resets that when a rule is changed.                        *)
(***************************************************************************)
EXTENDS Integers, Sequences, FiniteSets

CONSTANTS
  IdChoices,       \* IdChoices[i]: ids the i-th rule may have
  NameChoices,     \* NameChoices[i]: its names
  DepChoices,      \* what a rule may depend on, NoDependency included
  ChildChoices,    \* sets of ids of child rules
  NoDependency,
  NoName,          \* the empty name: maps from names to rules leave it out
  MaxEdits         \* bound: changes of a dependency

ASSUME ValidationAssumption ==
  /\ DOMAIN IdChoices = 1 .. Len(IdChoices) /\ Len(IdChoices) \in Nat
  /\ DOMAIN IdChoices = DOMAIN NameChoices /\ NoDependency \in DepChoices /\ MaxEdits \in Nat

VARIABLES
  ruleDefs,     \* the rules: [id, name, dep, children]
  isValidated,  \* rules whose flag is set
  validated,    \* validated_ of the workflow
  verdict,      \* how the last validate ended
  stale,        \* rules changed while their flag was set
  changedSince, \* some rule was changed after validated_ was set
  edits

validationVars == <<ruleDefs, isValidated, validated, verdict, stale, changedSince, edits>>

Positions == DOMAIN IdChoices

ValidationInit ==
  /\ \E ids \in {f \in [Positions -> UNION {IdChoices[i] : i \in Positions}] :
                   \A i \in Positions : f[i] \in IdChoices[i]},
        names \in {f \in [Positions -> UNION {NameChoices[i] : i \in Positions}] :
                     \A i \in Positions : f[i] \in NameChoices[i]},
        deps \in [Positions -> DepChoices], children \in [Positions -> ChildChoices] :
       ruleDefs = [i \in Positions |-> [id |-> ids[i], name |-> names[i], dep |-> deps[i],
                                       children |-> children[i]]]
  /\ isValidated = {} /\ validated = FALSE /\ verdict = "none" /\ stale = {} /\ changedSince = FALSE
  /\ edits = 0

Named(n) == {i \in Positions : ruleDefs[i].name = n}
WithId(d) == {i \in Positions : ruleDefs[i].id = d}
LastOf(S) == CHOOSE i \in S : \A j \in S : j <= i
(* Rules a map from names finds, and those a map from ids holds: of several   *)
(* with one id the last.                                                      *)
ByName(n) == IF n = NoName THEN {} ELSE Named(n)
InMap == {i \in Positions : i = LastOf(WithId(ruleDefs[i].id))}
RuleIdsInUse == {ruleDefs[i].id : i \in Positions}

(* A depth-first search from every node meets a grey node iff some set of    *)
(* nodes has no way out of it.                                               *)
HasCycle(E) ==
  LET V == {e[1] : e \in E} IN
    \E S \in (SUBSET V) \ {{}} : \A x \in S : \E y \in S : <<x, y>> \in E

(* The edges of Rule::validate: to the last rule of that name read so far,   *)
(* itself included, and to the children that have an id.                     *)
EdgesSoFar ==
  UNION {LET seen == {j \in ByName(ruleDefs[i].dep) : j <= i} IN
           {<<ruleDefs[i].id, d>> :
              d \in (ruleDefs[i].children \ {0}) \cup
                    IF seen = {} THEN {} ELSE {ruleDefs[LastOf(seen)].id}} : i \in Positions}

DuplicateIds(zeroToo) ==
  \E i, j \in Positions : i # j /\ ruleDefs[i].id = ruleDefs[j].id
                            /\ (zeroToo \/ ruleDefs[i].id # 0)
MissingDependencies(i) == ruleDefs[i].dep # NoDependency /\ Named(ruleDefs[i].dep) = {}

(* checkCircularDependencies: the dependency is the first rule of the name   *)
(* in the order of a hash map from ids, so with two of them either.          *)
DependencyChoices ==
  {f \in [Positions -> Positions \cup {0}] :
     \A i \in Positions : LET found == Named(ruleDefs[i].dep) \cap InMap IN
                           IF found = {} THEN f[i] = 0 ELSE f[i] \in found}

(* It is followed unless its id is -1, which stands for not found. *)
Follows(f, i) == i \in InMap /\ f[i] # 0 /\ ruleDefs[f[i]].id # -1

(* A bug: only dependencies on earlier rules are followed. *)
CheckCircularBackward(f) ==
  HasCycle({<<ruleDefs[i].id, ruleDefs[f[i]].id>> :
              i \in {j \in Positions : Follows(f, j) /\ f[j] <= j}})

CheckCircularDependencies(f) ==
  HasCycle({<<ruleDefs[i].id, ruleDefs[f[i]].id>> : i \in {j \in Positions : Follows(f, j)}})

(* What Rule::validate makes of rule i while its flag is not set. *)
RuleVerdict(i) ==
  IF HasCycle(EdgesSoFar) THEN "circular"
  ELSE IF 0 \in RuleIdsInUse THEN "zero id"
  ELSE IF DuplicateIds(TRUE) THEN "duplicate id"
  ELSE IF MissingDependencies(i) THEN "missing" ELSE "ok"

(* Workflow::validate: a validated workflow is not looked at again; else     *)
(* the rules before the first that throws keep their flag.                   *)
ValidateRules ==
  LET failing == {i \in Positions \ isValidated : RuleVerdict(i) # "ok"}
      first == CHOOSE i \in failing : \A j \in failing : i <= j IN
    CASE DuplicateIds(FALSE) -> verdict' = "duplicate id" /\ UNCHANGED <<isValidated, validated>>
      [] ~DuplicateIds(FALSE) /\ failing # {} ->
           /\ verdict' = RuleVerdict(first) /\ UNCHANGED validated
           /\ isValidated' = isValidated \cup 1 .. first - 1
      [] OTHER ->
           /\ isValidated' = Positions
           /\ \E f \in DependencyChoices :
                /\ verdict' = IF CheckCircularDependencies(f) THEN "circular" ELSE "ok"
                /\ validated' = ~CheckCircularDependencies(f)
Validate ==
  /\ \/ validated /\ verdict' = "ok" /\ UNCHANGED <<isValidated, validated>>
     \/ ~validated /\ ValidateRules
  /\ UNCHANGED <<ruleDefs, stale, changedSince, edits>>

(* A rule is given another dependency; its fields are public. *)
EditDependency(i, d) ==
  /\ edits < MaxEdits /\ edits' = edits + 1 /\ d # ruleDefs[i].dep
  /\ ruleDefs' = [ruleDefs EXCEPT ![i].dep = d]
  /\ stale' = IF i \in isValidated THEN stale \cup {i} ELSE stale
  /\ changedSince' = (changedSince \/ validated) /\ verdict' = "none"
  /\ UNCHANGED <<isValidated, validated>>

(* Rule's copy constructor and assignment, the flag included: a copy of rule *)
(* j takes the place of rule i, under the id and the name of i.              *)
CopyRule(i, j) ==
  /\ edits < MaxEdits /\ edits' = edits + 1 /\ i # j
  /\ ruleDefs' = [ruleDefs EXCEPT ![i].dep = ruleDefs[j].dep, ![i].children = ruleDefs[j].children]
  /\ isValidated' = IF j \in isValidated THEN isValidated \cup {i} ELSE isValidated \ {i}
  /\ stale' = IF j \in isValidated THEN stale \cup {i} ELSE stale \ {i}
  /\ changedSince' = (changedSince \/ validated) /\ verdict' = "none"
  /\ UNCHANGED validated

ValidationNext ==
  \/ Validate
  \/ \E i \in Positions : \/ \E d \in DepChoices : EditDependency(i, d)
                          \/ \E j \in Positions : CopyRule(i, j)

ValidationSpec == ValidationInit /\ [][ValidationNext]_validationVars

-----------------------------------------------------------------------------
(* hasCircularDependency and getDependencyChain follow names; of rules with  *)
(* one name, or one id, the last counts; the empty name finds none, and id 0 *)
(* ends the walk.                                                            *)
IdOf(n) == IF ByName(n) = {} THEN 0 ELSE ruleDefs[LastOf(ByName(n))].id
Successor(d) ==
  IF d = 0 \/ WithId(d) = {} THEN 0 ELSE IdOf(ruleDefs[LastOf(WithId(d))].dep)
Walk(i) ==
  LET w[n \in 0 .. Len(IdChoices) + 1] ==
        IF n = 0 THEN IdOf(ruleDefs[i].dep) ELSE Successor(w[n - 1])
  IN w
HasCircularDependency(i) ==
  LET w == Walk(i) IN
    \E n \in DOMAIN w :
      /\ \A m \in 0 .. n : w[m] # 0
      /\ w[n] = ruleDefs[i].id \/ \E m \in 0 .. n - 1 : w[m] = w[n]

NamesUnambiguous ==
  \A i, j \in Positions : i # j => ruleDefs[i].name # ruleDefs[j].name /\ ruleDefs[i].id # ruleDefs[j].id
Dependencies ==
  {e \in Positions \X Positions : ruleDefs[e[2]].name = ruleDefs[e[1]].dep}
IdEdges(D) == {<<ruleDefs[e[1]].id, ruleDefs[e[2]].id>> : e \in D}
ChildEdges == UNION {{<<ruleDefs[i].id, c>> : c \in ruleDefs[i].children \ {0}} : i \in Positions}

(* A workflow that validates has no cycle of dependencies, whatever order    *)
(* its rules have and whichever of them were validated before: the search    *)
(* per rule sees dependencies on earlier rules only, and is skipped for rules *)
(* whose flag is set, but the one per workflow sees those on later ones too.  *)
(* It does not see dependencies on a rule with the id -1, and validate does   *)
(* not search again when a rule was changed after it had succeeded.                *)
AcceptedIsAcyclic ==
  verdict = "ok" /\ ~changedSince /\ NamesUnambiguous =>
    ~HasCycle({e \in Dependencies : ruleDefs[e[2]].id # -1})

(* Nor has it a cycle of children and dependencies on earlier rules, as the   *)
(* search per rule would have met it, provided no rule was changed while its  *)
(* flag was set: that the others' flags skip the search does not matter.      *)
AcceptedHasNoChildCycle ==
  verdict = "ok" /\ stale = {} /\ NamesUnambiguous =>
    ~HasCycle(ChildEdges \cup
              IdEdges({e \in Dependencies : e[2] <= e[1] /\ ruleDefs[e[1]].dep # NoName}))

(* A dependency that names no rule is found, unless the rule was changed      *)
(* after an earlier attempt had validated it.                                 *)
AcceptedHasItsDependencies ==
  verdict = "ok" => \A i \in Positions : MissingDependencies(i) => i \in stale

(* Nothing sound is refused: with distinct ids and names, existing            *)
(* dependencies and no cycle, children included, validate succeeds.           *)
SoundIsAccepted ==
  NamesUnambiguous /\ 0 \notin RuleIdsInUse /\ (\A i \in Positions : ~MissingDependencies(i))
    /\ ~HasCycle(IdEdges(Dependencies) \cup ChildEdges)
    => verdict \in {"none", "ok"}

(* hasCircularDependency is true of the rules from which a cycle can be       *)
(* reached, not only of those on it, and ends on every workflow.              *)
WalkFindsCycles ==
  NamesUnambiguous /\ 0 \notin RuleIdsInUse => \A i \in Positions :
    HasCircularDependency(i) <=>
      \E S \in SUBSET Positions :
        i \in S /\ \A x \in S : ruleDefs[x].dep # NoName /\ \E y \in S : <<x, y>> \in Dependencies

(* validate accepts the workflows whose dependencies exist and form no cycle *)
(* (within the exceptions the parts name), and the walks find the same.      *)
ValidationIsExact ==
  /\ AcceptedIsAcyclic /\ AcceptedHasNoChildCycle /\ AcceptedHasItsDependencies
  /\ SoundIsAccepted /\ WalkFindsCycles

(* What the comment in Rule::validate has in mind: one graph of dependencies  *)
(* and children, and no cycle in it.  False of a cycle that takes a child and *)
(* a dependency on a later rule.                                              *)
AllCyclesAreRefused ==
  verdict = "ok" /\ stale = {} /\ NamesUnambiguous /\ -1 \notin RuleIdsInUse =>
    ~HasCycle(IdEdges(Dependencies) \cup ChildEdges)
=============================================================================
