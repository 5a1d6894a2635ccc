--------------------------- MODULE RuleCompilation ---------------------------
(***************************************************************************)
(* The compiled references of rules: Rule::compile, lookupCompilation,     *)
(* getExpressionRef and getActionRef against the registries of several     *)
(* LuaEngines.  A reference is an index into the registry of one engine.   *)
(* resetState() empties the registry and restarts the numbering, so that a *)
(* number kept from before soon names another rule's chunk: each record    *)
(* carries the generation of the engine and the source it was made for.    *)
(*                                                                         *)
(* An engine is used by one thread at a time; the threads meet at the      *)
(* compileMutex_ of a rule, which is held while frame[r] is set.  Sources  *)
(* are compared where the code compares their fingerprints.                *)
(***************************************************************************)
EXTENDS Integers, Sequences

CONSTANTS
  Rules,
  Engines,
  Sources,         \* values of the public fields expression and action
  Children,        \* Children[r]: childRules
  WithExpression,  \* the rules whose expression is not blank
  WithAction,      \* the rules whose action is not empty
  None,            \* an absent record, frame, caller, use or chunk
  MaxGeneration,   \* bound on resetState() calls per engine
  MaxRefs,         \* bound on the registry at which no new use begins
  Edited           \* bound: the rules whose source is changed

Kinds == {"expression", "action"}
With(k) == IF k = "expression" THEN WithExpression ELSE WithAction

(* A chunk of the Lua state, as compileExpression and compileAction store it. *)
Chunk(r, k, s) == [rule |-> r, kind |-> k, source |-> s]
Chunks == [rule : Rules, kind : Kinds, source : Sources]

(* Rule::EngineCompilation; the reference 0 is an empty optional. *)
Records == [expression : Nat, action : Nat, generation : Nat, source : Sources]

(* A compile() in progress: the record it builds and where it is. *)
Frames == [engine : Engines, parent : Rules \cup {None}, step : Kinds \cup {"children"},
           todo : SUBSET Rules, building : Records]

Uses == [rule : Rules, kind : Kinds, step : {"ensure", "lookup"}]

ASSUME ConstantsAssumption ==
  /\ Children \in [Rules -> SUBSET Rules]
  /\ WithExpression \in SUBSET Rules
  /\ WithAction \in SUBSET Rules
  /\ MaxGeneration \in Nat
  /\ MaxRefs \in Nat
  /\ Edited \in SUBSET Rules
ASSUME NoneAssumption == None \notin Rules \cup Chunks \cup Records \cup Frames \cup Uses

VARIABLES
  source,      \* source[r]: the current Lua source of r
  generation,  \* generation[e]: LuaEngine::generation_
  registry,    \* registry[e]: refToBackendId_; nextRefId_ is its length plus 1
  record,      \* record[r][e]: engineCompilations_
  frame,       \* frame[r]: the compile() of r that holds its compileMutex_
  use          \* use[e]: the get...Ref() call running on e

vars == <<source, generation, registry, record, frame, use>>

TypeOK ==
  /\ source \in [Rules -> Sources]
  /\ generation \in [Engines -> Nat]
  /\ registry \in [Engines -> Seq(Chunks \cup {None})]
  /\ record \in [Rules -> [Engines -> Records \cup {None}]]
  /\ frame \in [Rules -> Frames \cup {None}]
  /\ use \in [Engines -> Uses \cup {None}]

Init ==
  /\ source \in [Rules -> Sources]
  /\ generation = [e \in Engines |-> 0]
  /\ registry = [e \in Engines |-> << >>]
  /\ record = [r \in Rules |-> [e \in Engines |-> None]]
  /\ frame = [r \in Rules |-> None]
  /\ use = [e \in Engines |-> None]

(***************************************************************************)
(* Lookup.                                                                 *)
(***************************************************************************)

(* lookupCompilation finds a record of r for e that it accepts. *)
Lookup(r, e) ==
  /\ record[r][e] # None
  /\ record[r][e].generation = generation[e]
  /\ record[r][e].source = source[r]

FramesOn(e) == {r \in Rules : frame[r] # None /\ frame[r].engine = e}
Idle(e) == use[e] = None /\ FramesOn(e) = {}

(* The record of a compile() that starts: the generation and the source of *)
(* this moment, and no references.                                         *)
Opened(r, e) ==
  [expression |-> 0, action |-> 0, generation |-> generation[e], source |-> source[r]]

NewFrame(r, e, p) ==
  [engine |-> e, parent |-> p, step |-> "expression", todo |-> Children[r],
   building |-> Opened(r, e)]

(* The frame of r moved on to step s, with todo and record b. *)
Moved(r, s, todo, b) ==
  [engine |-> frame[r].engine, parent |-> frame[r].parent, step |-> s,
   todo |-> todo, building |-> b]

(* Record b with its reference of kind k. *)
Filled(b, k, ref) ==
  [expression |-> IF k = "expression" THEN ref ELSE b.expression,
   action |-> IF k = "action" THEN ref ELSE b.action,
   generation |-> b.generation, source |-> b.source]

(* Rule::compile called by Workflow::compile; with an accepted record it   *)
(* returns at once.                                                        *)
BeginCompile(e, r) ==
  /\ Idle(e)
  /\ Len(registry[e]) <= MaxRefs
  /\ ~Lookup(r, e)
  /\ frame[r] = None
  /\ frame' = [frame EXCEPT ![r] = NewFrame(r, e, None)]
  /\ UNCHANGED <<source, generation, registry, record, use>>

(* What follows the compilation of kind k. *)
After(k) == IF k = "expression" THEN "action" ELSE "children"

(* An empty expression or action is passed over. *)
SkipEmpty(r) ==
  /\ frame[r] # None
  /\ frame[r].step \in Kinds
  /\ r \notin With(frame[r].step)
  /\ frame' = [frame EXCEPT ![r] =
                  Moved(r, After(frame[r].step), frame[r].todo, frame[r].building)]
  /\ UNCHANGED <<source, generation, registry, record, use>>

(* The memory check of compileExpression and compileAction calls           *)
(* resetState() first when reset holds.                                    *)
Registry(e, reset) == IF reset THEN << >> ELSE registry[e]
ResetIf(e, reset) ==
  /\ reset => generation[e] < MaxGeneration
  /\ generation' = [generation EXCEPT ![e] = IF reset THEN @ + 1 ELSE @]

CompileChunk(r, reset) ==
  /\ frame[r] # None
  /\ frame[r].step \in Kinds
  /\ r \in With(frame[r].step)
  /\ LET e == frame[r].engine
         k == frame[r].step
         refs == Append(Registry(e, reset), Chunk(r, k, source[r]))
     IN /\ ResetIf(e, reset)
        /\ registry' = [registry EXCEPT ![e] = refs]
        /\ frame' = [frame EXCEPT ![r] = Moved(r, After(k), frame[r].todo,
                                             Filled(frame[r].building, k, Len(refs)))]
  /\ UNCHANGED <<source, record, use>>

(* A bug: the exception leaves the parent's compile() where it was. *)
CompileFailsInChildOnly(r, reset) ==
  /\ frame[r] # None
  /\ frame[r].step \in Kinds
  /\ r \in With(frame[r].step)
  /\ LET e == frame[r].engine
     IN /\ ResetIf(e, reset)
        /\ \E refs \in {Registry(e, reset), Append(Registry(e, reset), None)} :
             registry' = [registry EXCEPT ![e] = refs]
  /\ frame' = [frame EXCEPT ![r] = None]
  /\ UNCHANGED <<source, record, use>>

(* RuleCompilationException: the source is refused before a reference is   *)
(* taken, or by Lua after that, and leaves every compile() on the engine.  *)
CompileFails(r, reset) ==
  /\ frame[r] # None
  /\ frame[r].step \in Kinds
  /\ r \in With(frame[r].step)
  /\ LET e == frame[r].engine
     IN /\ ResetIf(e, reset)
        /\ \E refs \in {Registry(e, reset), Append(Registry(e, reset), None)} :
             registry' = [registry EXCEPT ![e] = refs]
        /\ frame' = [q \in Rules |-> IF q \in FramesOn(e) THEN None ELSE frame[q]]
        /\ use' = [use EXCEPT ![e] = None]
  /\ UNCHANGED <<source, record>>

(* The compile() of r is not inside that of a child. *)
OnTop(r) == frame[r] # None /\ \A q \in Rules : frame[q] # None => frame[q].parent # r

(* child->compile(engine) for the next child. *)
ChildIsCompiled(r, c) ==
  /\ OnTop(r)
  /\ frame[r].step = "children"
  /\ c \in frame[r].todo
  /\ Lookup(c, frame[r].engine)
  /\ frame' = [frame EXCEPT ![r] =
                  Moved(r, "children", frame[r].todo \ {c}, frame[r].building)]
  /\ UNCHANGED <<source, generation, registry, record, use>>

CompileChild(r, c) ==
  /\ OnTop(r)
  /\ frame[r].step = "children"
  /\ c \in frame[r].todo
  /\ ~Lookup(c, frame[r].engine)
  /\ frame[c] = None
  /\ frame' = [frame EXCEPT ![c] = NewFrame(c, frame[r].engine, r)]
  /\ UNCHANGED <<source, generation, registry, record, use>>

(* ensureCompiledFor has returned. *)
LookupStep(e) == [rule |-> use[e].rule, kind |-> use[e].kind, step |-> "lookup"]

(* A bug: the generation is read when the record is stored. *)
ClosedLate(r) == [frame[r].building EXCEPT !.generation = generation[frame[r].engine]]

(* The record that is stored is the one that was opened. *)
Closed(r) == frame[r].building

FinishCompile(r) ==
  /\ frame[r] # None
  /\ frame[r].step = "children"
  /\ frame[r].todo = {}
  /\ LET e == frame[r].engine
         p == frame[r].parent
     IN /\ record' = [record EXCEPT ![r][e] = Closed(r)]
        /\ frame' = [q \in Rules |->
             CASE q = r -> None
               [] q = p -> Moved(q, "children", frame[q].todo \ {r}, frame[q].building)
               [] OTHER -> frame[q]]
        /\ use' = [use EXCEPT ![e] = IF p = None /\ @ # None THEN LookupStep(e) ELSE @]
  /\ UNCHANGED <<source, generation, registry>>

(***************************************************************************)
(* getExpressionRef and getActionRef: ensureCompiledFor, then a lookup.    *)
(***************************************************************************)
BeginUse(e, r, k) ==
  /\ Idle(e)
  /\ Len(registry[e]) <= MaxRefs
  /\ r \in With(k)
  /\ use' = [use EXCEPT ![e] = [rule |-> r, kind |-> k, step |-> "ensure"]]
  /\ UNCHANGED <<source, generation, registry, record, frame>>

IsCompiled(e) ==
  /\ use[e] # None
  /\ use[e].step = "ensure"
  /\ FramesOn(e) = {}
  /\ Lookup(use[e].rule, e)
  /\ use' = [use EXCEPT ![e] = LookupStep(e)]
  /\ UNCHANGED <<source, generation, registry, record, frame>>

EnsureCompiled(e) ==
  /\ use[e] # None
  /\ use[e].step = "ensure"
  /\ FramesOn(e) = {}
  /\ ~Lookup(use[e].rule, e)
  /\ frame[use[e].rule] = None
  /\ frame' = [frame EXCEPT ![use[e].rule] = NewFrame(use[e].rule, e, None)]
  /\ UNCHANGED <<source, generation, registry, record, use>>

(* The reference is looked up, used, or found to be -1. *)
EndUse(e) ==
  /\ use[e] # None
  /\ use[e].step = "lookup"
  /\ use' = [use EXCEPT ![e] = None]
  /\ UNCHANGED <<source, generation, registry, record, frame>>

(***************************************************************************)
(* The owner of an engine or of the rules.                                 *)
(***************************************************************************)
ResetState(e) ==
  /\ Idle(e)
  /\ ResetIf(e, TRUE)
  /\ registry' = [registry EXCEPT ![e] = << >>]
  /\ UNCHANGED <<source, record, frame, use>>

(* expression and action are public; nobody may be using them. *)
Edit(r, s) ==
  /\ r \in Edited
  /\ \A e \in Engines : Idle(e)
  /\ s # source[r]
  /\ source' = [source EXCEPT ![r] = s]
  /\ UNCHANGED <<generation, registry, record, frame, use>>

CompileStep(r) ==
  \/ SkipEmpty(r)
  \/ \E reset \in BOOLEAN : CompileChunk(r, reset) \/ CompileFails(r, reset)
  \/ \E c \in Rules : ChildIsCompiled(r, c) \/ CompileChild(r, c)
  \/ FinishCompile(r)

UseStep(e) == IsCompiled(e) \/ EnsureCompiled(e) \/ EndUse(e)

Next ==
  \/ \E r \in Rules : CompileStep(r) \/ \E s \in Sources : Edit(r, s)
  \/ \E e \in Engines :
       \/ UseStep(e) \/ ResetState(e)
       \/ \E r \in Rules : BeginCompile(e, r) \/ \E k \in Kinds : BeginUse(e, r, k)

Spec == Init /\ [][Next]_vars

(* A thread that is inside compile() or get...Ref() keeps running. *)
Fairness ==
  /\ \A r \in Rules : WF_vars(CompileStep(r))
  /\ \A e \in Engines : WF_vars(UseStep(e))

FairSpec == Spec /\ Fairness

(***************************************************************************)
(* Properties                                                              *)
(***************************************************************************)
Ref(rec, k) == IF k = "expression" THEN rec.expression ELSE rec.action

(* A reference that lookupCompilation hands out names the rule's own chunk, *)
(* of the right kind and of the current source, in the registry of that     *)
(* engine, however many resets and compilations came between.               *)
LookupIsSound ==
  \A r \in Rules, e \in Engines, k \in Kinds :
    Lookup(r, e) =>
      IF r \in With(k)
      THEN /\ Ref(record[r][e], k) \in DOMAIN registry[e]
           /\ registry[e][Ref(record[r][e], k)] = Chunk(r, k, source[r])
      ELSE Ref(record[r][e], k) = 0

(* Engines compiling rules with shared children never wait for each other  *)
(* for good: a compile() and a use end, with an answer or an exception,    *)
(* unless another thread enters compile() again and again (std::mutex is   *)
(* not fair).                                                              *)
EveryUseEnds ==
  \A e \in Engines :
    \/ []<>Idle(e)
    \/ \E d \in Engines \ {e} : []<>(FramesOn(d) = {}) /\ []<>(FramesOn(d) # {})

(* "return true; // No expression = pass" (rule.cpp:728): the reference is *)
(* -1 only for a rule without an expression, so after ensureCompiledFor    *)
(* the lookup succeeds.                                                    *)
PassesOnlyWithoutExpression ==
  \A e \in Engines :
    use[e] # None /\ use[e].step = "lookup" => Lookup(use[e].rule, e)
=============================================================================
