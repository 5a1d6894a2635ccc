------------------------------ MODULE LuaProofs ------------------------------
(***************************************************************************)
(* What a Lua state does for its users, for any rules, engines, states and *)
(* bounds: the references of rules, the registry of a state and the        *)
(* bytecode files, runs and their deadlines, the sandbox, the types of an  *)
(* application and the C interface.                                        *)
(***************************************************************************)
EXTENDS MCLua, SequenceTheorems, FiniteSetTheorems, WellFoundedInduction, TLAPS

(***************************************************************************)
(* The references of rules.  A record that lookupCompilation accepts names *)
(* the rule's own chunks.  The invariant speaks of the records that the    *)
(* lookup refuses as well, and of those still being built: one whose       *)
(* generation is the engine's has references into the engine's registry,   *)
(* and none is ahead of the engine.                                        *)
(***************************************************************************)

(* Reference ref of engine e is what compiling kind k of r's source s gives. *)
Slot(ref, r, k, s, e) ==
  IF r \in With(k)
  THEN ref \in DOMAIN registry[e] /\ registry[e][ref] = Chunk(r, k, s)
  ELSE ref = 0

RecordOK(rec, r, e) ==
  /\ rec.generation <= generation[e]
  /\ rec.generation = generation[e] =>
       /\ Slot(rec.expression, r, "expression", rec.source, e)
       /\ Slot(rec.action, r, "action", rec.source, e)

FrameOK(f, r) ==
  /\ f.building.source = source[r]
  /\ f.building.generation <= generation[f.engine]
  /\ f.step = "expression" => f.building.expression = 0
  /\ f.step # "children" => f.building.action = 0
  /\ f.building.generation = generation[f.engine] =>
       /\ f.step # "expression" =>
            Slot(f.building.expression, r, "expression", f.building.source, f.engine)
       /\ f.step = "children" =>
            Slot(f.building.action, r, "action", f.building.source, f.engine)

RecordsOK == \A r \in Rules, e \in Engines : record[r][e] # None => RecordOK(record[r][e], r, e)
FramesOK == \A r \in Rules : frame[r] # None => FrameOK(frame[r], r)

(* The frame of a child lies on top of the frame of its parent. *)
ParentsOK ==
  \A r, p \in Rules : frame[r] # None /\ frame[r].parent = p =>
    /\ frame[p] # None
    /\ frame[p].engine = frame[r].engine
    /\ frame[p].step = "children"
    /\ r \in frame[p].todo

IInv == TypeOK /\ RecordsOK /\ FramesOK /\ ParentsOK

(* What a None-free use of the optional types needs. *)
LEMMA Fields ==
  ASSUME TypeOK
  PROVE  /\ \A r \in Rules : frame[r] # None => frame[r] \in Frames
         /\ \A r \in Rules, e \in Engines : record[r][e] # None => record[r][e] \in Records
         /\ \A e \in Engines : use[e] # None => use[e] \in Uses
BY DEF TypeOK

(* Appending to a registry keeps what its references name. *)
LEMMA AppendKeeps ==
  ASSUME NEW S, NEW s \in Seq(S), NEW x \in S, NEW i \in DOMAIN s
  PROVE  i \in DOMAIN Append(s, x) /\ Append(s, x)[i] = s[i]
OBVIOUS

(* A registry that only grows, or that is emptied by a reset of its engine, *)
(* keeps every record and every frame right.                                *)
LEMMA RegistryStep ==
  ASSUME IInv, NEW e \in Engines, NEW reset \in BOOLEAN, NEW x \in Chunks \cup {None},
         ResetIf(e, reset), source' = source,
         \/ registry' = [registry EXCEPT ![e] = Registry(e, reset)]
         \/ registry' = [registry EXCEPT ![e] = Append(Registry(e, reset), x)]
  PROVE  /\ generation' \in [Engines -> Nat]
         /\ registry' \in [Engines -> Seq(Chunks \cup {None})]
         /\ \A r \in Rules, d \in Engines, rec \in Records :
              RecordOK(rec, r, d) => RecordOK(rec, r, d)'
         /\ \A r \in Rules, f \in Frames : FrameOK(f, r) => FrameOK(f, r)'
<1> USE DEF IInv, TypeOK, ResetIf, Registry
<1>1. /\ generation' \in [Engines -> Nat]
      /\ registry' \in [Engines -> Seq(Chunks \cup {None})]
      /\ \A d \in Engines : generation[d] \in Nat /\ registry[d] \in Seq(Chunks \cup {None})
  <2>1. Registry(e, reset) \in Seq(Chunks \cup {None}) BY DEF Registry
  <2>2. Append(Registry(e, reset), x) \in Seq(Chunks \cup {None}) BY <2>1
  <2>3. registry' \in [Engines -> Seq(Chunks \cup {None})]
    <3> HIDE DEF Registry
    <3> QED BY <2>1, <2>2
  <2> QED BY <2>3
<1>2. \A d \in Engines : generation'[d] # generation[d] => generation'[d] > generation[d]
  OBVIOUS
<1>3. ASSUME NEW d \in Engines, generation'[d] = generation[d], NEW i \in DOMAIN registry[d]
      PROVE  i \in DOMAIN registry'[d] /\ registry'[d][i] = registry[d][i]
  <2>1. CASE d # e BY <2>1
  <2>2. CASE d = e
    <3>1. ~reset BY <1>3, <2>2
    <3>2. CASE registry' = [registry EXCEPT ![e] = Registry(e, reset)]
      BY <3>1, <3>2, <2>2
    <3>3. CASE registry' = [registry EXCEPT ![e] = Append(Registry(e, reset), x)]
      BY <3>1, <3>3, <2>2, <1>1, <1>3, AppendKeeps
    <3> QED BY <3>2, <3>3
  <2> QED BY <2>1, <2>2
<1>4. ASSUME NEW d \in Engines, generation'[d] = generation[d],
             NEW r \in Rules, NEW k \in Kinds, NEW s, NEW ref, Slot(ref, r, k, s, d)
      PROVE  Slot(ref, r, k, s, d)'
  BY <1>3, <1>4 DEF Slot, With, Chunk
<1>5. ASSUME NEW r \in Rules, NEW d \in Engines, NEW rec \in Records, RecordOK(rec, r, d)
      PROVE  RecordOK(rec, r, d)'
  <2>1. rec.generation <= generation'[d]
    BY <1>1, <1>2, <1>5 DEF RecordOK, Records
  <2>2. rec.generation = generation'[d] => rec.generation = generation[d]
    BY <1>1, <1>2, <1>5 DEF RecordOK, Records
  <2> QED BY <2>1, <2>2, <1>4, <1>5 DEF RecordOK, Kinds
<1>6. ASSUME NEW r \in Rules, NEW f \in Frames, FrameOK(f, r)
      PROVE  FrameOK(f, r)'
  <2>1. f.engine \in Engines /\ f.building \in Records BY DEF Frames
  <2>2. f.building.generation <= generation'[f.engine]
    BY <1>1, <1>2, <1>6, <2>1 DEF FrameOK, Records
  <2>3. f.building.generation = generation'[f.engine] =>
          f.building.generation = generation[f.engine]
    BY <1>1, <1>2, <1>6, <2>1 DEF FrameOK, Records
  <2> QED BY <2>1, <2>2, <2>3, <1>4, <1>6 DEF FrameOK, Kinds
<1> QED BY <1>1, <1>5, <1>6

(* Nothing is compiled at first, and the invariant holds. *)
LEMMA InitInv == Init => IInv
BY NoneAssumption DEF Init, IInv, TypeOK, RecordsOK, FramesOK, ParentsOK

(* A compile() that starts. *)
LEMMA NewFrameOK ==
  ASSUME IInv, NEW r \in Rules, NEW e \in Engines, NEW p \in Rules \cup {None},
         frame[r] = None,
         p # None => /\ frame[p] # None /\ frame[p].engine = e
                     /\ frame[p].step = "children" /\ r \in frame[p].todo,
         frame' = [frame EXCEPT ![r] = NewFrame(r, e, p)],
         UNCHANGED <<source, generation, registry, record, use>>
  PROVE  IInv'
<1>1. generation[e] \in Nat /\ source[r] \in Sources BY DEF IInv, TypeOK
<1>2. Opened(r, e) \in Records BY <1>1 DEF Opened, Records
<1>3. Children[r] \in SUBSET Rules BY ConstantsAssumption
<1>4. NewFrame(r, e, p) \in Frames BY <1>2, <1>3 DEF NewFrame, Frames, Kinds
<1>5. TypeOK' BY <1>4 DEF IInv, TypeOK
<1>6. FrameOK(NewFrame(r, e, p), r) BY <1>1 DEF FrameOK, NewFrame, Opened
<1>7. FramesOK'
  BY <1>6 DEF IInv, TypeOK, FramesOK, FrameOK, Slot
<1>8. RecordsOK' BY DEF IInv, RecordsOK, RecordOK, Slot
<1>9. ParentsOK'
  <2>1. \A q \in Rules : frame'[q] = IF q = r THEN NewFrame(r, e, p) ELSE frame[q]
    BY DEF IInv, TypeOK
  <2>2. NewFrame(r, e, p).parent = p /\ NewFrame(r, e, p).engine = e BY DEF NewFrame
  <2>3. NewFrame(r, e, p) # None BY <1>4, NoneAssumption
  <2> QED BY <2>1, <2>2, <2>3, NoneAssumption DEF IInv, ParentsOK
<1> QED BY <1>5, <1>7, <1>8, <1>9 DEF IInv

(* compileExpression and compileAction keep the invariant, with or without a reset. *)
LEMMA CompileChunkInv ==
  ASSUME IInv, NEW r \in Rules, NEW reset \in BOOLEAN, CompileChunk(r, reset)
  PROVE  IInv'
<1>1. PICK old \in Frames : old = frame[r] BY Fields DEF IInv, CompileChunk
<1>2. PICK e \in Engines : e = old.engine BY DEF Frames
<1>3. PICK k \in Kinds : k = old.step BY <1>1 DEF CompileChunk
<1>4. PICK c \in Chunks : c = Chunk(r, k, source[r])
  BY DEF IInv, TypeOK, Chunks, Chunk
<1>5. PICK base \in Seq(Chunks \cup {None}) : base = Registry(e, reset)
  <2>1. registry[e] \in Seq(Chunks \cup {None}) BY DEF IInv, TypeOK
  <2>2. Registry(e, reset) \in Seq(Chunks \cup {None}) BY <2>1 DEF Registry
  <2> QED BY <2>2
<1>6. PICK ref \in Nat \ {0} : ref = Len(Append(base, c)) BY <1>4, <1>5
<1>7. PICK new : new = [engine |-> e, parent |-> old.parent, step |-> After(k),
                        todo |-> old.todo, building |-> Filled(old.building, k, ref)]
  OBVIOUS
<1>8. /\ ResetIf(e, reset) /\ registry' = [registry EXCEPT ![e] = Append(base, c)]
      /\ frame' = [frame EXCEPT ![r] = new]
      /\ source' = source /\ record' = record /\ use' = use
      /\ r \in With(k)
  BY <1>1, <1>2, <1>3, <1>4, <1>5, <1>6, <1>7 DEF CompileChunk, Moved
<1>9. old.building \in Records /\ old.parent \in Rules \cup {None} /\ old.todo \in SUBSET Rules
  BY DEF Frames
<1>10. new \in Frames
  BY <1>7, <1>9 DEF Frames, Filled, Records, After, Kinds
<1>11. /\ generation' \in [Engines -> Nat]
       /\ registry' \in [Engines -> Seq(Chunks \cup {None})]
       /\ \A q \in Rules, d \in Engines, rec \in Records :
            RecordOK(rec, q, d) => RecordOK(rec, q, d)'
       /\ \A q \in Rules, g \in Frames : FrameOK(g, q) => FrameOK(g, q)'
  BY <1>5, <1>8, RegistryStep
<1>12. TypeOK' BY <1>8, <1>10, <1>11 DEF IInv, TypeOK
<1>13. RecordsOK' BY <1>8, <1>11, Fields DEF IInv, RecordsOK
<1>14. FrameOK(old, r) BY <1>1 DEF IInv, FramesOK, CompileChunk
<1>15. FrameOK(old, r)' BY <1>11, <1>14
<1>16. Slot(ref, r, k, source[r], e)'
  <2>1. ref \in DOMAIN Append(base, c) /\ Append(base, c)[ref] = c BY <1>5, <1>6
  <2>2. registry'[e] = Append(base, c) BY <1>8 DEF IInv, TypeOK
  <2> QED BY <1>4, <1>8, <2>1, <2>2 DEF Slot, Chunk
<1>17. FrameOK(new, r)'
  <2>1. CASE k = "expression"
    <3>1. /\ new.building.expression = ref /\ new.building.action = old.building.action
          /\ new.building.generation = old.building.generation
          /\ new.building.source = old.building.source
          /\ new.engine = e /\ new.step = "action"
      BY <1>7, <2>1 DEF Filled, After
    <3>2. old.building.action = 0 /\ old.building.source = source'[r]
          /\ old.building.generation <= generation'[e] /\ source'[r] = source[r]
      BY <1>2, <1>3, <1>8, <1>15, <2>1 DEF FrameOK
    <3> QED BY <3>1, <3>2, <1>16, <2>1 DEF FrameOK
  <2>2. CASE k = "action"
    <3>1. /\ new.building.action = ref /\ new.building.expression = old.building.expression
          /\ new.building.generation = old.building.generation
          /\ new.building.source = old.building.source
          /\ new.engine = e /\ new.step = "children"
      BY <1>7, <2>2 DEF Filled, After
    <3>2. old.building.source = source'[r] /\ source'[r] = source[r]
          /\ old.building.generation <= generation'[e]
      BY <1>2, <1>8, <1>15 DEF FrameOK
    <3>3. old.building.generation = generation'[e] =>
            Slot(old.building.expression, r, "expression", old.building.source, e)'
      BY <1>2, <1>3, <1>15, <2>2 DEF FrameOK
    <3> QED BY <3>1, <3>2, <3>3, <1>16, <2>2 DEF FrameOK
  <2> QED BY <2>1, <2>2 DEF Kinds
<1>18. FramesOK'
  <2>1. \A q \in Rules : frame'[q] = IF q = r THEN new ELSE frame[q]
    BY <1>8 DEF IInv, TypeOK
  <2>2. \A q \in Rules : q # r /\ frame[q] # None => frame[q] \in Frames /\ FrameOK(frame[q], q)
    BY Fields DEF IInv, FramesOK
  <2> SUFFICES ASSUME NEW q \in Rules, frame'[q] # None PROVE FrameOK(frame[q], q)'
    BY DEF FramesOK
  <2>3. CASE q = r BY <1>17, <2>1, <2>3 DEF FrameOK, Slot
  <2>4. CASE q # r
    <3>1. PICK g \in Frames : g = frame[q] BY <2>1, <2>2, <2>4
    <3>2. FrameOK(g, q)' BY <1>11, <2>1, <2>2, <2>4, <3>1
    <3>3. g = frame'[q] BY <2>1, <2>4, <3>1
    <3> QED BY <3>2, <3>3 DEF FrameOK, Slot
  <2> QED BY <2>3, <2>4
<1>19. ParentsOK'
  <2>1. \A q \in Rules : frame'[q] = IF q = r THEN new ELSE frame[q]
    BY <1>8 DEF IInv, TypeOK
  <2>2. new.parent = old.parent /\ new.engine = old.engine BY <1>2, <1>7
  <2>3. \A q \in Rules : frame[q] # None => frame[q].parent # r
    BY <1>1, <1>3 DEF IInv, ParentsOK, Kinds
  <2>4. old # None BY NoneAssumption
  <2> QED BY <1>1, <2>1, <2>2, <2>3, <2>4 DEF IInv, ParentsOK
<1> QED BY <1>12, <1>13, <1>18, <1>19 DEF IInv

(* A RuleCompilationException keeps the invariant: all frames on the engine are gone. *)
LEMMA CompileFailsInv ==
  ASSUME IInv, NEW r \in Rules, NEW reset \in BOOLEAN, CompileFails(r, reset)
  PROVE  IInv'
<1>1. PICK e \in Engines : e = frame[r].engine
  BY Fields DEF IInv, CompileFails, Frames
<1>2. /\ ResetIf(e, reset) /\ source' = source /\ record' = record
      /\ \/ registry' = [registry EXCEPT ![e] = Registry(e, reset)]
         \/ registry' = [registry EXCEPT ![e] = Append(Registry(e, reset), None)]
      /\ frame' = [q \in Rules |-> IF q \in FramesOn(e) THEN None ELSE frame[q]]
      /\ use' = [use EXCEPT ![e] = None]
  BY <1>1 DEF CompileFails
<1>3. /\ generation' \in [Engines -> Nat]
      /\ registry' \in [Engines -> Seq(Chunks \cup {None})]
      /\ \A q \in Rules, d \in Engines, rec \in Records :
           RecordOK(rec, q, d) => RecordOK(rec, q, d)'
      /\ \A q \in Rules, g \in Frames : FrameOK(g, q) => FrameOK(g, q)'
  BY <1>2, RegistryStep
<1>4. TypeOK' BY <1>2, <1>3 DEF IInv, TypeOK
<1>5. RecordsOK' BY <1>2, <1>3, Fields DEF IInv, RecordsOK
<1>6. FramesOK'
  <2> SUFFICES ASSUME NEW q \in Rules, frame'[q] # None PROVE FrameOK(frame[q], q)'
    BY DEF FramesOK
  <2>1. frame'[q] = frame[q] BY <1>2
  <2>2. PICK g \in Frames : g = frame[q] BY <2>1, Fields DEF IInv
  <2>3. FrameOK(g, q)' BY <1>3, <2>1, <2>2 DEF IInv, FramesOK
  <2> QED BY <2>1, <2>2, <2>3 DEF FrameOK, Slot
<1>7. ParentsOK' BY <1>2 DEF IInv, ParentsOK, FramesOn
<1> QED BY <1>4, <1>5, <1>6, <1>7 DEF IInv

(* resetState() keeps the invariant: all records of the engine become stale. *)
LEMMA ResetStateInv ==
  ASSUME IInv, NEW e \in Engines, ResetState(e)
  PROVE  IInv'
<1>1. /\ ResetIf(e, TRUE) /\ UNCHANGED <<source, record, frame, use>>
      /\ registry' = [registry EXCEPT ![e] = Registry(e, TRUE)]
  BY DEF ResetState, Registry
<1>2. /\ generation' \in [Engines -> Nat]
      /\ registry' \in [Engines -> Seq(Chunks \cup {None})]
      /\ \A q \in Rules, d \in Engines, rec \in Records :
           RecordOK(rec, q, d) => RecordOK(rec, q, d)'
      /\ \A q \in Rules, g \in Frames : FrameOK(g, q) => FrameOK(g, q)'
  BY <1>1, RegistryStep
<1>3. TypeOK' BY <1>1, <1>2 DEF IInv, TypeOK
<1>4. RecordsOK' BY <1>1, <1>2, Fields DEF IInv, RecordsOK
<1>5. FramesOK' BY <1>1, <1>2, Fields DEF IInv, FramesOK
<1>6. ParentsOK' BY <1>1 DEF IInv, ParentsOK
<1> QED BY <1>3, <1>4, <1>5, <1>6 DEF IInv

(* The frame of q moves on without a change of its record. *)
LEMMA MovedOK ==
  ASSUME IInv, NEW q \in Rules, frame[q] # None, NEW s \in Kinds \cup {"children"},
         NEW todo \in SUBSET Rules, UNCHANGED <<source, generation, registry>>,
         \/ s = frame[q].step
         \/ /\ frame[q].step \in Kinds /\ q \notin With(frame[q].step)
            /\ s = After(frame[q].step)
  PROVE  /\ Moved(q, s, todo, frame[q].building) \in Frames
         /\ FrameOK(Moved(q, s, todo, frame[q].building), q)
<1>1. frame[q] \in Frames BY Fields DEF IInv
<1>2. FrameOK(frame[q], q) BY DEF IInv, FramesOK
<1> DEFINE m == Moved(q, s, todo, frame[q].building)
<1>3. m \in Frames BY <1>1 DEF Moved, Frames
<1>4. m.engine = frame[q].engine /\ m.building = frame[q].building /\ m.step = s
  BY DEF Moved
<1> HIDE DEF m
<1>5. FrameOK(m, q)
  <2>1. CASE s = frame[q].step BY <1>2, <1>4, <2>1 DEF FrameOK
  <2>2. CASE frame[q].step = "expression" /\ q \notin With("expression") /\ s = "action"
    BY <1>2, <1>4, <2>2 DEF FrameOK, Slot
  <2>3. CASE frame[q].step = "action" /\ q \notin With("action") /\ s = "children"
    BY <1>2, <1>4, <2>3 DEF FrameOK, Slot
  <2> QED BY <2>1, <2>2, <2>3 DEF Kinds, After
<1> QED BY <1>3, <1>5 DEF m

(* Steps that change frames only by moving them on, or by removing them. *)
LEMMA FrameStep ==
  ASSUME IInv, UNCHANGED <<source, generation, registry>>,
         frame' \in [Rules -> Frames \cup {None}],
         \A q \in Rules : \/ frame'[q] \in {None, frame[q]}
                         \/ FrameOK(frame'[q], q)
  PROVE  FramesOK'
<1> SUFFICES ASSUME NEW q \in Rules, frame'[q] # None PROVE FrameOK(frame[q], q)'
  BY DEF FramesOK
<1>1. FrameOK(frame'[q], q) BY DEF IInv, FramesOK
<1> QED BY <1>1 DEF FrameOK, Slot

(* An empty expression or action leaves its reference empty. *)
LEMMA SkipEmptyInv ==
  ASSUME IInv, NEW r \in Rules, SkipEmpty(r)
  PROVE  IInv'
<1> DEFINE m == Moved(r, After(frame[r].step), frame[r].todo, frame[r].building)
<1>1. frame[r] \in Frames BY Fields DEF IInv, SkipEmpty
<1>2. After(frame[r].step) \in Kinds \cup {"children"} /\ frame[r].todo \in SUBSET Rules
  BY <1>1 DEF Frames, After, Kinds
<1>3. UNCHANGED <<source, generation, registry, record, use>>
      /\ frame' = [frame EXCEPT ![r] = m] /\ frame[r] # None
      /\ frame[r].step \in Kinds /\ r \notin With(frame[r].step)
  BY DEF SkipEmpty
<1>4. m \in Frames /\ FrameOK(m, r) BY <1>2, <1>3, MovedOK
<1> HIDE DEF m
<1>5. TypeOK' BY <1>3, <1>4 DEF IInv, TypeOK
<1>6. FramesOK'
  <2>1. \A q \in Rules : frame'[q] = IF q = r THEN m ELSE frame[q]
    BY <1>3 DEF IInv, TypeOK
  <2>2. frame' \in [Rules -> Frames \cup {None}] BY <1>5 DEF TypeOK
  <2> QED BY <1>3, <1>4, <2>1, <2>2, FrameStep
<1>7. RecordsOK' BY <1>3 DEF IInv, RecordsOK, RecordOK, Slot
<1>8. ParentsOK'
  <2>1. \A q \in Rules : frame'[q] = IF q = r THEN m ELSE frame[q]
    BY <1>3 DEF IInv, TypeOK
  <2>2. m.parent = frame[r].parent /\ m.engine = frame[r].engine BY DEF m, Moved
  <2>3. \A q \in Rules : frame[q] # None => frame[q].parent # r
    BY <1>3 DEF IInv, ParentsOK, Kinds
  <2>4. m # None BY <1>4, NoneAssumption
  <2> QED BY <1>3, <2>1, <2>2, <2>3, <2>4 DEF IInv, ParentsOK
<1> QED BY <1>5, <1>6, <1>7, <1>8 DEF IInv

(* A child that is compiled already changes only what the parent has left to do. *)
LEMMA ChildIsCompiledInv ==
  ASSUME IInv, NEW r \in Rules, NEW c \in Rules, ChildIsCompiled(r, c)
  PROVE  IInv'
<1> DEFINE m == Moved(r, "children", frame[r].todo \ {c}, frame[r].building)
<1>1. frame[r] \in Frames BY Fields DEF IInv, ChildIsCompiled, OnTop
<1>2. frame[r].todo \ {c} \in SUBSET Rules BY <1>1 DEF Frames
<1>3. UNCHANGED <<source, generation, registry, record, use>>
      /\ frame' = [frame EXCEPT ![r] = m] /\ frame[r] # None
      /\ frame[r].step = "children"
  BY DEF ChildIsCompiled, OnTop
<1>4. m \in Frames /\ FrameOK(m, r) BY <1>2, <1>3, MovedOK
<1> HIDE DEF m
<1>5. TypeOK' BY <1>3, <1>4 DEF IInv, TypeOK
<1>6. FramesOK'
  <2>1. \A q \in Rules : frame'[q] = IF q = r THEN m ELSE frame[q]
    BY <1>3 DEF IInv, TypeOK
  <2>2. frame' \in [Rules -> Frames \cup {None}] BY <1>5 DEF TypeOK
  <2> QED BY <1>3, <1>4, <2>1, <2>2, FrameStep
<1>7. RecordsOK' BY <1>3 DEF IInv, RecordsOK, RecordOK, Slot
<1>8. ParentsOK'
  <2>1. \A q \in Rules : frame'[q] = IF q = r THEN m ELSE frame[q]
    BY <1>3 DEF IInv, TypeOK
  <2>2. m.parent = frame[r].parent /\ m.engine = frame[r].engine BY DEF m, Moved
  <2>3. \A q \in Rules : frame[q] # None => frame[q].parent # r
    BY DEF ChildIsCompiled, OnTop
  <2>4. m # None BY <1>4, NoneAssumption
  <2> QED BY <1>3, <2>1, <2>2, <2>3, <2>4 DEF IInv, ParentsOK
<1> QED BY <1>5, <1>6, <1>7, <1>8 DEF IInv

(* The record is stored; the parent, if there is one, has a child less. *)
LEMMA FinishCompileInv ==
  ASSUME IInv, NEW r \in Rules, FinishCompile(r)
  PROVE  IInv'
<1>1. PICK f \in Frames : f = frame[r] BY Fields DEF IInv, FinishCompile
<1>2. PICK e \in Engines : e = f.engine BY DEF Frames
<1>3. PICK p : p = f.parent OBVIOUS
<1>4. PICK rec \in Records : rec = f.building BY DEF Frames
<1>5. /\ f # None /\ f.step = "children"
      /\ record' = [record EXCEPT ![r][e] = rec]
      /\ frame' = [q \in Rules |->
           CASE q = r -> None
             [] q = p -> Moved(q, "children", frame[q].todo \ {r}, frame[q].building)
             [] OTHER -> frame[q]]
      /\ use' = [use EXCEPT ![e] = IF p = None /\ @ # None THEN LookupStep(e) ELSE @]
      /\ UNCHANGED <<source, generation, registry>>
  BY <1>1, <1>2, <1>3, <1>4 DEF FinishCompile, Closed
<1>0. p # r
  BY <1>1, <1>3 DEF IInv, ParentsOK, FinishCompile
<1>6. RecordOK(rec, r, e)
  BY <1>1, <1>2, <1>4, <1>5 DEF IInv, FramesOK, FrameOK, RecordOK
<1>7. record' \in [Rules -> [Engines -> Records \cup {None}]]
  BY <1>5 DEF IInv, TypeOK
<1>8. use' \in [Engines -> Uses \cup {None}]
  <2>1. use[e] # None => LookupStep(e) \in Uses
    BY Fields DEF IInv, LookupStep, Uses
  <2> HIDE DEF LookupStep
  <2> QED BY <1>5, <2>1 DEF IInv, TypeOK
<1>9. RecordsOK'
  <2>1. \A q \in Rules, d \in Engines :
          record'[q][d] = IF q = r /\ d = e THEN rec ELSE record[q][d]
    BY <1>5 DEF IInv, TypeOK
  <2> SUFFICES ASSUME NEW q \in Rules, NEW d \in Engines, record'[q][d] # None
               PROVE  RecordOK(record[q][d], q, d)'
    BY DEF RecordsOK
  <2>2. RecordOK(record'[q][d], q, d) BY <1>6, <2>1 DEF IInv, RecordsOK
  <2> QED BY <1>5, <2>2 DEF RecordOK, Slot
<1>10. ASSUME NEW q \in Rules
       PROVE  /\ frame'[q] \in Frames \cup {None}
              /\ frame'[q] \in {None, frame[q]} \/ FrameOK(frame'[q], q)
  <2>1. CASE q = r BY <1>0, <1>5, <2>1
  <2>2. CASE q # r /\ q = p
    <3>1. frame'[q] = Moved(q, "children", frame[q].todo \ {r}, frame[q].building)
      BY <1>5, <2>2
    <3>2. frame[q] # None /\ frame[q].step = "children"
      BY <1>1, <1>3, <1>5, <2>2 DEF IInv, ParentsOK
    <3>3. frame[q].todo \ {r} \in SUBSET Rules BY <3>2, Fields DEF IInv, Frames
    <3> QED BY <1>5, <3>1, <3>2, <3>3, MovedOK
  <2>3. CASE q # r /\ q # p BY <1>5, <2>3 DEF IInv, TypeOK
  <2> QED BY <2>1, <2>2, <2>3
<1>11. frame' \in [Rules -> Frames \cup {None}] BY <1>5, <1>10
<1>12. FramesOK' BY <1>5, <1>10, <1>11, FrameStep
<1>13. TypeOK' BY <1>5, <1>7, <1>8, <1>11 DEF IInv, TypeOK
<1>14. ParentsOK'
  <2> SUFFICES ASSUME NEW q \in Rules, NEW o \in Rules, frame'[q] # None, frame'[q].parent = o
               PROVE  /\ frame'[o] # None /\ frame'[o].engine = frame'[q].engine
                      /\ frame'[o].step = "children" /\ q \in frame'[o].todo
    BY DEF ParentsOK
  <2>1. q # r /\ frame[q] # None /\ frame[q].parent = o /\ frame'[q].engine = frame[q].engine
    <3>1. q # r BY <1>0, <1>5
    <3>2. CASE q = p
      <4>1. frame'[q] = Moved(q, "children", frame[q].todo \ {r}, frame[q].building)
        BY <1>5, <3>1, <3>2
      <4>2. frame[q] # None BY <1>1, <1>3, <1>5, <3>2 DEF IInv, ParentsOK
      <4> QED BY <3>1, <4>1, <4>2 DEF Moved
    <3>3. CASE q # p BY <1>5, <3>1, <3>3
    <3> QED BY <3>2, <3>3
  <2>2. /\ frame[o] # None /\ frame[o].engine = frame[q].engine
        /\ frame[o].step = "children" /\ q \in frame[o].todo
    BY <2>1 DEF IInv, ParentsOK
  <2>3. o # r BY <2>2, <1>1 DEF FinishCompile
  <2>4. CASE o = p
    <3>1. frame'[o] = Moved(o, "children", frame[o].todo \ {r}, frame[o].building)
      BY <1>5, <2>3, <2>4
    <3>0. frame[o].todo \ {r} \in SUBSET Rules BY <2>2, Fields DEF IInv, Frames
    <3>2. frame'[o] \in Frames BY <3>0, <3>1, <2>2, <1>5, MovedOK
    <3>3. frame'[o] # None BY <3>2, NoneAssumption
    <3> QED BY <3>1, <3>3, <2>1, <2>2 DEF Moved
  <2>5. CASE o # p BY <1>5, <2>1, <2>2, <2>3, <2>5
  <2> QED BY <2>4, <2>5
<1> QED BY <1>9, <1>12, <1>13, <1>14 DEF IInv

(***************************************************************************)
(* The rest of the steps, and the theorems.                                *)
(***************************************************************************)
LEMMA NextInv == IInv /\ [Next]_vars => IInv'
<1> SUFFICES ASSUME IInv, [Next]_vars PROVE IInv'
  OBVIOUS
<1>1. ASSUME NEW r \in Rules, CompileStep(r) PROVE IInv'
  <2>1. ASSUME NEW c \in Rules, CompileChild(r, c) PROVE IInv'
    <3>1. frame[r].engine \in Engines BY <2>1, Fields DEF IInv, CompileChild, OnTop, Frames
    <3> QED BY <2>1, <3>1, NewFrameOK DEF CompileChild, OnTop
  <2> QED
    BY <1>1, <2>1, SkipEmptyInv, CompileChunkInv, CompileFailsInv, ChildIsCompiledInv,
       FinishCompileInv DEF CompileStep
<1>2. ASSUME NEW r \in Rules, NEW s \in Sources, Edit(r, s) PROVE IInv'
  <2>1. \A q \in Rules : frame[q] = None
    BY <1>2, Fields DEF IInv, Edit, Idle, FramesOn, Frames
  <2>2. TypeOK' BY <1>2 DEF IInv, TypeOK, Edit
  <2>3. FramesOK' /\ ParentsOK' BY <1>2, <2>1 DEF Edit, FramesOK, ParentsOK
  <2>4. RecordsOK' BY <1>2 DEF IInv, Edit, RecordsOK, RecordOK, Slot
  <2> QED BY <2>2, <2>3, <2>4 DEF IInv
<1>3. ASSUME NEW e \in Engines, NEW r \in Rules, BeginCompile(e, r) PROVE IInv'
  BY <1>3, NewFrameOK DEF BeginCompile
<1>4. ASSUME NEW e \in Engines, EnsureCompiled(e) PROVE IInv'
  <2>1. use[e].rule \in Rules BY <1>4, Fields DEF IInv, EnsureCompiled, Uses
  <2> QED BY <1>4, <2>1, NewFrameOK DEF EnsureCompiled
<1>5. ASSUME UNCHANGED <<source, generation, registry, record, frame>>,
             use' \in [Engines -> Uses \cup {None}]
      PROVE  IInv'
  BY <1>5 DEF IInv, TypeOK, RecordsOK, FramesOK, ParentsOK, RecordOK, FrameOK, Slot
<1>6. ASSUME NEW e \in Engines, NEW r \in Rules, NEW k \in Kinds, BeginUse(e, r, k)
      PROVE  IInv'
  <2>1. [rule |-> r, kind |-> k, step |-> "ensure"] \in Uses BY DEF Uses
  <2> QED BY <1>5, <1>6, <2>1 DEF BeginUse, IInv, TypeOK
<1>7. ASSUME NEW e \in Engines, IsCompiled(e) PROVE IInv'
  <2>1. LookupStep(e) \in Uses BY <1>7, Fields DEF IInv, IsCompiled, LookupStep, Uses
  <2> QED BY <1>5, <1>7, <2>1 DEF IsCompiled, IInv, TypeOK
<1>8. ASSUME NEW e \in Engines, EndUse(e) PROVE IInv'
  BY <1>5, <1>8 DEF EndUse, IInv, TypeOK
<1>9. CASE UNCHANGED vars
  BY <1>5, <1>9 DEF vars, IInv, TypeOK
<1> QED
  BY <1>1, <1>2, <1>3, <1>4, <1>6, <1>7, <1>8, <1>9, ResetStateInv DEF Next, UseStep

(* The invariant holds in every reachable state. *)
LEMMA Invariance == Spec => []IInv
BY InitInv, NextInv, PTL DEF Spec

(* The variables of rules and engines keep their types. *)
THEOREM TypeCorrect == Spec => []TypeOK
<1>1. IInv => TypeOK BY DEF IInv
<1> QED BY Invariance, <1>1, PTL

(* lookupCompilation never hands out a reference to another rule's chunk or *)
(* to an older source of this one, whatever resetState() was called between *)
(* any two steps, also in the middle of compile().                          *)
THEOREM LookupSound == Spec => []LookupIsSound
<1>1. IInv => LookupIsSound
  BY DEF IInv, RecordsOK, RecordOK, Slot, LookupIsSound, Lookup, Ref, Kinds
<1> QED BY Invariance, <1>1, PTL

(***************************************************************************)
(* The registry of a Lua state                                             *)
(***************************************************************************)

Mine(v) == v \in held /\ v.state = luaState

SlotTypes ==
  /\ luaState \in 1 .. MaxStates /\ nextRefId \in 1 .. MaxEngineRefs + 1
  /\ slots \in SUBSET (Nat \ {0}) /\ IsFiniteSet(slots)
  /\ engineRefs \subseteq 1 .. nextRefId - 1 /\ compiled \in [engineRefs -> slots]
  /\ DOMAIN coroutines \subseteq slots
  /\ DOMAIN handles \subseteq engineRefs /\ handles \in [DOMAIN handles -> DOMAIN coroutines]
  /\ held \subseteq [state : 1 .. luaState, slot : Nat \ {0}] /\ dead = 1 .. luaState - 1

(* No slot has two owners, none is without. *)
SlotsOwned ==
  /\ \A s \in slots : \/ \E r \in engineRefs : compiled[r] = s
                      \/ s \in DOMAIN coroutines
                      \/ \E v \in held : Mine(v) /\ v.slot = s
  /\ \A v \in held : Mine(v) => v.slot \in slots \ DOMAIN coroutines
  /\ \A r \in engineRefs : /\ compiled[r] \notin DOMAIN coroutines
                           /\ \A v \in held : Mine(v) => v.slot # compiled[r]
                           /\ \A q \in engineRefs : compiled[q] = compiled[r] => q = r
  /\ \A t \in DOMAIN coroutines : \E r \in DOMAIN handles : handles[r] = t
  /\ \A q, r \in DOMAIN handles : handles[q] = handles[r] => q = r

SlotInv == SlotTypes /\ SlotsOwned

(* handlerIds_ numbers the handlers, and the closures have the same numbers. *)
BindInv ==
  /\ handlers \in Seq(Handlers) /\ closures = handlerIds
  /\ DOMAIN callbacks \subseteq CallbackNames /\ callbacks \in [DOMAIN callbacks -> Handlers]
  /\ handlerIds \in [DOMAIN boundAs -> DOMAIN handlers]
  /\ \A n \in DOMAIN boundAs : handlers[handlerIds[n]] = boundAs[n]
  /\ \A m, n \in DOMAIN boundAs : handlerIds[m] = handlerIds[n] => m = n
  /\ \A i \in DOMAIN handlers : \E n \in DOMAIN boundAs : handlerIds[n] = i

RegistryInv == SlotInv /\ BindInv

(* luaL_ref finds a slot that is free. *)
LEMMA FreeSlotIsFree ==
  ASSUME NEW used \in SUBSET (Nat \ {0}), IsFiniteSet(used)
  PROVE  FreeSlot(used) \in Nat \ {0} /\ FreeSlot(used) \notin used
<1> DEFINE n == Cardinality(used)
           free == 1 .. (n + 1) \ used
<1>1. n \in Nat
  BY FS_CardinalityType
<1>2. IsFiniteSet(1 .. (n + 1)) /\ Cardinality(1 .. (n + 1)) = n + 1
  <2>1. 1 \in Int /\ n + 1 \in Int /\ ~(1 > n + 1) /\ (n + 1) - 1 + 1 = n + 1
    BY <1>1
  <2> HIDE DEF n
  <2> QED BY <2>1, FS_Interval
<1>3. free # {}
  <2> SUFFICES ASSUME 1 .. (n + 1) \subseteq used PROVE FALSE
    OBVIOUS
  <2>1. 1 .. (n + 1) \in SUBSET used
    OBVIOUS
  <2>2. Cardinality(1 .. (n + 1)) <= Cardinality(used)
    <3> HIDE DEF n
    <3> QED BY <2>1, FS_Subset
  <2>3. n + 1 <= n
    BY <1>2, <2>2
  <2> QED BY <1>1, <2>3
<1>4. free \subseteq Nat \ {0}
  BY <1>1
<1> HIDE DEF n, free
<1>5. PICK x \in free : \A y \in free : ~(<<y, x>> \in OpToRel(<, Nat))
  BY <1>3, <1>4, NatLessThanWellFounded, WFMin
<1>6. \A y \in free : x <= y
  <2> TAKE y \in free
  <2>1. x \in Nat /\ y \in Nat
    BY <1>4
  <2>2. ~(y < x)
    BY <1>5, <2>1 DEF OpToRel
  <2> QED BY <2>1, <2>2
<1>7. FreeSlot(used) \in free
  BY <1>6 DEF FreeSlot, Min, free, n
<1> QED BY <1>4, <1>7 DEF free

LEMMA RegistryInvInit == RegistryInit => RegistryInv
<1> SUFFICES ASSUME RegistryInit PROVE RegistryInv
  OBVIOUS
<1> USE RegistryAssumption DEF RegistryInit
<1>1. DOMAIN NoEntries = {} /\ NoEntries \in [{} -> {}]
  BY DEF NoEntries
<1>2. SlotTypes
  <2>1. IsFiniteSet({}) /\ 1 .. (1 - 1) = {}
    BY FS_EmptySet
  <2> QED BY <1>1, <2>1 DEF SlotTypes
<1>3. SlotsOwned
  BY <1>1 DEF SlotsOwned, Mine
<1>4. BindInv
  <2>1. handlers = <<>> /\ DOMAIN handlers = {} /\ handlers \in Seq(Handlers)
    OBVIOUS
  <2> QED BY <1>1, <2>1 DEF BindInv
<1> QED BY <1>2, <1>3, <1>4 DEF RegistryInv, SlotInv

(* Of the slots a step only takes a free one for the chunk of a reference. *)
LEMMA ChunkStored ==
  ASSUME SlotInv, nextRefId <= MaxEngineRefs
  PROVE  /\ nextRefId \notin engineRefs /\ FreeSlot(slots) \in Nat \ {0}
         /\ FreeSlot(slots) \notin slots
         /\ WithChunk(nextRefId) =
              [slots |-> slots \cup {FreeSlot(slots)},
               compiled |-> MapInsert(compiled, nextRefId, FreeSlot(slots))]
<1>1. nextRefId \in Nat /\ engineRefs \subseteq 1 .. nextRefId - 1 /\ DOMAIN compiled = engineRefs
      /\ slots \in SUBSET (Nat \ {0}) /\ IsFiniteSet(slots)
  BY RegistryAssumption DEF SlotInv, SlotTypes
<1>2. nextRefId \notin engineRefs
  BY <1>1
<1>3. FreeSlot(slots) \in Nat \ {0} /\ FreeSlot(slots) \notin slots
  BY <1>1, FreeSlotIsFree
<1>4. nextRefId \notin DOMAIN compiled
  BY <1>1, <1>2
<1>5. (slots \cup {FreeSlot(slots)}) \ {} = slots \cup {FreeSlot(slots)}
  OBVIOUS
<1> QED BY <1>2, <1>3, <1>4, <1>5 DEF WithChunk

LEMMA CompileKeeps ==
  ASSUME SlotInv, NEW loads \in BOOLEAN, CompileRef(loads)
  PROVE  SlotInv'
<1> USE RegistryAssumption
<1>0. SlotTypes /\ SlotsOwned /\ nextRefId <= MaxEngineRefs /\ nextRefId' = nextRefId + 1
      /\ UNCHANGED <<luaState, coroutines, handles, held, dead>>
  BY DEF SlotInv, CompileRef
<1>1. engineRefs \subseteq 1 .. nextRefId' - 1 /\ nextRefId' \in 1 .. MaxEngineRefs + 1
      /\ nextRefId \in 1 .. nextRefId' - 1
  BY <1>0 DEF SlotTypes
<1>2. CASE loads
  <2> DEFINE s == FreeSlot(slots)
  <2>1. nextRefId \notin engineRefs /\ s \in Nat \ {0} /\ s \notin slots
        /\ slots' = slots \cup {s} /\ compiled' = MapInsert(compiled, nextRefId, s)
        /\ engineRefs' = engineRefs \cup {nextRefId}
    BY <1>0, <1>2, ChunkStored DEF CompileRef
  <2> HIDE DEF s
  <2>2. IsFiniteSet(slots')
    BY <1>0, <2>1, FS_AddElement DEF SlotTypes
  <2>3. compiled \in [engineRefs -> slots]
    BY <1>0 DEF SlotTypes
  <2>4. compiled' \in [engineRefs' -> slots'] /\ compiled'[nextRefId] = s
        /\ \A r \in engineRefs : compiled'[r] = compiled[r] /\ compiled'[r] # s
    BY <2>1, <2>3 DEF MapInsert
  <2>5. SlotTypes'
    BY <1>0, <1>1, <2>1, <2>2, <2>4 DEF SlotTypes
  <2>6. \A v \in held : Mine(v)' <=> Mine(v)
    BY <1>0 DEF Mine
  <2>7. SlotsOwned'
    <3>1. \A r \in engineRefs' : r = nextRefId \/ r \in engineRefs
      BY <2>1
    <3>2. \A t \in DOMAIN coroutines : t # s
      BY <1>0, <2>1 DEF SlotTypes
    <3>3. \A v \in held : Mine(v) => v.slot # s
      BY <1>0, <2>1 DEF SlotsOwned
    <3>4. \A x \in slots' : \/ \E r \in engineRefs' : compiled'[r] = x
                            \/ x \in DOMAIN coroutines'
                            \/ \E v \in held' : Mine(v)' /\ v.slot = x
      BY <1>0, <2>1, <2>4, <2>6 DEF SlotsOwned
    <3>5. \A v \in held' : Mine(v)' => v.slot \in slots' \ DOMAIN coroutines'
      BY <1>0, <2>1, <2>6 DEF SlotsOwned
    <3>6. \A r \in engineRefs' : /\ compiled'[r] \notin DOMAIN coroutines'
                                 /\ \A v \in held' : Mine(v)' => v.slot # compiled'[r]
                                 /\ \A q \in engineRefs' : compiled'[q] = compiled'[r] => q = r
      BY <1>0, <2>4, <2>6, <3>1, <3>2, <3>3 DEF SlotsOwned
    <3> QED BY <1>0, <3>4, <3>5, <3>6 DEF SlotsOwned
  <2> QED BY <2>5, <2>7 DEF SlotInv
<1>3. CASE ~loads
  <2>1. UNCHANGED <<slots, compiled, engineRefs>>
    BY <1>3 DEF CompileRef
  <2>2. SlotTypes'
    BY <1>0, <1>1, <2>1 DEF SlotTypes
  <2> QED BY <1>0, <2>1, <2>2 DEF SlotInv, SlotsOwned, Mine
<1> QED BY <1>2, <1>3

LEMMA CoroutineKeeps ==
  ASSUME SlotInv, CompileCoroutine
  PROVE  SlotInv'
<1> USE RegistryAssumption
<1> DEFINE s == FreeSlot(slots)
           t == FreeSlot(slots \cup {s})
<1>0. SlotTypes /\ SlotsOwned /\ nextRefId <= MaxEngineRefs /\ nextRefId' = nextRefId + 1
      /\ UNCHANGED <<luaState, held, dead>> /\ engineRefs' = engineRefs \cup {nextRefId}
  BY DEF SlotInv, CompileCoroutine
<1>1. engineRefs \subseteq 1 .. nextRefId' - 1 /\ nextRefId' \in 1 .. MaxEngineRefs + 1
      /\ nextRefId \in 1 .. nextRefId' - 1
  BY <1>0 DEF SlotTypes
<1>2. nextRefId \notin engineRefs /\ s \in Nat \ {0} /\ s \notin slots
      /\ WithChunk(nextRefId) = [slots |-> slots \cup {s}, compiled |-> MapInsert(compiled, nextRefId, s)]
  BY <1>0, ChunkStored
<1>3. slots' = (slots \cup {s}) \cup {t} /\ compiled' = MapInsert(compiled, nextRefId, s)
      /\ coroutines' = MapInsert(coroutines, t, "ready")
      /\ handles' = MapInsert(handles, nextRefId, t)
  <2>1. CreateCoroutine([slots |-> slots \cup {s}, compiled |-> MapInsert(compiled, nextRefId, s)])
    BY <1>2 DEF CompileCoroutine
  <2> QED BY <2>1 DEF CreateCoroutine
<1> HIDE DEF s
<1>4. IsFiniteSet(slots \cup {s}) /\ slots \cup {s} \in SUBSET (Nat \ {0})
  BY <1>0, <1>2, FS_AddElement DEF SlotTypes
<1>5. t \in Nat \ {0} /\ t \notin slots \cup {s}
  BY <1>4, FreeSlotIsFree
<1> HIDE DEF t
<1>6. IsFiniteSet(slots') /\ slots' \in SUBSET (Nat \ {0})
  BY <1>3, <1>4, <1>5, FS_AddElement
<1>7. compiled \in [engineRefs -> slots] /\ handles \in [DOMAIN handles -> DOMAIN coroutines]
      /\ DOMAIN handles \subseteq engineRefs /\ DOMAIN coroutines \subseteq slots
  BY <1>0 DEF SlotTypes
<1>8. compiled' \in [engineRefs' -> slots'] /\ compiled'[nextRefId] = s
      /\ \A r \in engineRefs : compiled'[r] = compiled[r] /\ compiled'[r] \in slots
  BY <1>0, <1>2, <1>3, <1>7 DEF MapInsert
<1>9. DOMAIN coroutines' = DOMAIN coroutines \cup {t}
  BY <1>3 DEF MapInsert
<1>10. DOMAIN handles' = DOMAIN handles \cup {nextRefId} /\ handles'[nextRefId] = t
       /\ \A r \in DOMAIN handles : handles'[r] = handles[r] /\ handles'[r] \in DOMAIN coroutines
  BY <1>2, <1>3, <1>7 DEF MapInsert
<1>11. handles' \in [DOMAIN handles' -> DOMAIN coroutines']
  <2>1. handles' = [r \in DOMAIN handles' |-> handles'[r]]
    BY <1>3 DEF MapInsert
  <2> QED BY <1>9, <1>10, <2>1
<1>12. SlotTypes'
  <2>1. DOMAIN coroutines' \subseteq slots' /\ DOMAIN handles' \subseteq engineRefs'
    BY <1>0, <1>3, <1>7, <1>9, <1>10
  <2> QED BY <1>0, <1>1, <1>6, <1>8, <1>11, <2>1 DEF SlotTypes
<1>13. \A v \in held : Mine(v)' <=> Mine(v)
  BY <1>0 DEF Mine
<1>14. \A v \in held : Mine(v) => v.slot \in slots /\ v.slot \notin DOMAIN coroutines /\ v.slot # s /\ v.slot # t
  BY <1>0, <1>2, <1>5 DEF SlotsOwned
<1>15. SlotsOwned'
  <2>1. \A r \in engineRefs' : r = nextRefId \/ r \in engineRefs
    BY <1>0
  <2>4. \A x \in slots' : \/ \E r \in engineRefs' : compiled'[r] = x
                          \/ x \in DOMAIN coroutines'
                          \/ \E v \in held' : Mine(v)' /\ v.slot = x
    BY <1>0, <1>3, <1>8, <1>9, <1>13 DEF SlotsOwned
  <2>5. \A v \in held' : Mine(v)' => v.slot \in slots' \ DOMAIN coroutines'
    BY <1>0, <1>3, <1>9, <1>13, <1>14
  <2>6. \A r \in engineRefs' : /\ compiled'[r] \notin DOMAIN coroutines'
                               /\ \A v \in held' : Mine(v)' => v.slot # compiled'[r]
                               /\ \A q \in engineRefs' : compiled'[q] = compiled'[r] => q = r
    <3>1. \A r \in engineRefs : compiled[r] \in slots
      BY <1>7
    <3>2. \A r \in engineRefs : compiled'[r] # s /\ compiled'[r] # t
      BY <1>2, <1>5, <1>8
    <3>3. s \notin DOMAIN coroutines'
      BY <1>2, <1>5, <1>7, <1>9
    <3> QED BY <1>0, <1>8, <1>9, <1>13, <1>14, <2>1, <3>2, <3>3 DEF SlotsOwned
  <2>7. \A x \in DOMAIN coroutines' : \E r \in DOMAIN handles' : handles'[r] = x
    BY <1>0, <1>9, <1>10 DEF SlotsOwned
  <2>8. \A q, r \in DOMAIN handles' : handles'[q] = handles'[r] => q = r
    <3>1. \A r \in DOMAIN handles : handles'[r] # t
      BY <1>5, <1>7, <1>10
    <3> QED BY <1>0, <1>10, <3>1 DEF SlotsOwned
  <2> QED BY <2>4, <2>5, <2>6, <2>7, <2>8 DEF SlotsOwned
<1> QED BY <1>12, <1>15 DEF SlotInv

LEMMA ReleaseKeeps ==
  ASSUME SlotInv, NEW r, ReleaseRef(r)
  PROVE  SlotInv'
<1> DEFINE gone == {compiled[r]} \cup ThreadOf(r)
<1>0. SlotTypes /\ SlotsOwned /\ r \in engineRefs
      /\ UNCHANGED <<luaState, nextRefId, held, dead>>
      /\ slots' = slots \ gone /\ engineRefs' = engineRefs \ {r}
      /\ compiled' = MapErase(compiled, {r}) /\ coroutines' = MapErase(coroutines, ThreadOf(r))
      /\ handles' = MapErase(handles, {r})
  BY DEF SlotInv, ReleaseRef, RemoveCompiled, CloseCoroutine
<1>1. compiled \in [engineRefs -> slots] /\ handles \in [DOMAIN handles -> DOMAIN coroutines]
      /\ DOMAIN handles \subseteq engineRefs /\ DOMAIN coroutines \subseteq slots
  BY <1>0 DEF SlotTypes
<1>2. DOMAIN compiled' = engineRefs' /\ \A q \in engineRefs' : compiled'[q] = compiled[q]
  BY <1>0, <1>1 DEF MapErase
<1>3. DOMAIN coroutines' = DOMAIN coroutines \ ThreadOf(r)
  BY <1>0 DEF MapErase
<1>4. DOMAIN handles' = DOMAIN handles \ {r} /\ \A q \in DOMAIN handles' : handles'[q] = handles[q]
  BY <1>0 DEF MapErase
<1>5. ThreadOf(r) \subseteq DOMAIN coroutines /\ \A q \in engineRefs : compiled[q] \notin ThreadOf(r)
  BY <1>0, <1>1 DEF ThreadOf, SlotsOwned
<1>6. \A q \in engineRefs' : compiled[q] \in slots' /\ compiled[q] # compiled[r]
  BY <1>0, <1>1, <1>5 DEF SlotsOwned
<1>7. \A q \in DOMAIN handles' : handles[q] \in DOMAIN coroutines'
  BY <1>0, <1>1, <1>3, <1>4 DEF ThreadOf, SlotsOwned
<1>8. \A v \in held : Mine(v)' <=> Mine(v)
  BY <1>0 DEF Mine
<1>9. \A v \in held : Mine(v) => v.slot \in slots'
  BY <1>0, <1>5 DEF SlotsOwned
<1>10. SlotTypes'
  <2>1. IsFiniteSet(slots')
    <3>1. slots' \in SUBSET slots /\ IsFiniteSet(slots)
      BY <1>0 DEF SlotTypes
    <3> QED BY <3>1, FS_Subset
  <2>2. compiled' \in [engineRefs' -> slots']
    <3>1. compiled' = [q \in engineRefs' |-> compiled[q]]
      BY <1>0, <1>1 DEF MapErase
    <3> QED BY <1>6, <3>1
  <2>3. handles' \in [DOMAIN handles' -> DOMAIN coroutines']
    <3>1. handles' = [q \in DOMAIN handles' |-> handles[q]]
      BY <1>0, <1>4 DEF MapErase
    <3> QED BY <1>7, <3>1
  <2>4. DOMAIN coroutines' \subseteq slots'
    BY <1>0, <1>1, <1>3 DEF SlotsOwned
  <2>5. DOMAIN handles' \subseteq engineRefs'
    BY <1>0, <1>1, <1>4
  <2> QED BY <1>0, <2>1, <2>2, <2>3, <2>4, <2>5 DEF SlotTypes
<1>11. SlotsOwned'
  <2>1. ASSUME NEW x \in slots'
        PROVE  \/ \E q \in engineRefs' : compiled'[q] = x
               \/ x \in DOMAIN coroutines'
               \/ \E v \in held' : Mine(v)' /\ v.slot = x
    <3>1. x \in slots /\ x # compiled[r] /\ x \notin ThreadOf(r)
      BY <1>0
    <3>2. \/ \E q \in engineRefs : compiled[q] = x
          \/ x \in DOMAIN coroutines
          \/ \E v \in held : Mine(v) /\ v.slot = x
      BY <1>0, <3>1 DEF SlotsOwned
    <3> QED BY <1>0, <1>2, <1>3, <1>8, <3>1, <3>2
  <2>2. \A v \in held' : Mine(v)' => v.slot \in slots' \ DOMAIN coroutines'
    BY <1>0, <1>3, <1>8, <1>9 DEF SlotsOwned
  <2>3. \A q \in engineRefs' : /\ compiled'[q] \notin DOMAIN coroutines'
                               /\ \A v \in held' : Mine(v)' => v.slot # compiled'[q]
                               /\ \A p \in engineRefs' : compiled'[p] = compiled'[q] => p = q
    BY <1>0, <1>2, <1>3, <1>8, ZenonT(30) DEF SlotsOwned
  <2>4. \A t \in DOMAIN coroutines' : \E q \in DOMAIN handles' : handles'[q] = t
    <3> TAKE t \in DOMAIN coroutines'
    <3>1. PICK q \in DOMAIN handles : handles[q] = t
      BY <1>0, <1>3 DEF SlotsOwned
    <3>2. q # r
      BY <1>3, <3>1 DEF ThreadOf
    <3> QED BY <1>4, <3>1, <3>2
  <2>5. \A q, p \in DOMAIN handles' : handles'[q] = handles'[p] => q = p
    BY <1>0, <1>4 DEF SlotsOwned
  <2> QED BY <2>1, <2>2, <2>3, <2>4, <2>5 DEF SlotsOwned
<1> QED BY <1>10, <1>11 DEF SlotInv

LEMMA MakeValueKeeps ==
  ASSUME SlotInv, MakeValue
  PROVE  SlotInv'
<1> DEFINE s == FreeSlot(slots)
           new == [state |-> luaState, slot |-> s]
<1>0. SlotTypes /\ SlotsOwned /\ held' = held \cup {new} /\ slots' = slots \cup {s}
      /\ UNCHANGED <<luaState, dead, compiled, coroutines, engineRefs, handles, nextRefId>>
  BY DEF SlotInv, MakeValue, chunkVars
<1>1. s \in Nat \ {0} /\ s \notin slots
  BY <1>0, FreeSlotIsFree DEF SlotTypes
<1> HIDE DEF s
<1>2. new.state = luaState /\ new.slot = s /\ new \in [state : 1 .. luaState, slot : Nat \ {0}]
  BY <1>0, <1>1 DEF SlotTypes
<1> HIDE DEF new
<1>3. IsFiniteSet(slots')
  BY <1>0, FS_AddElement DEF SlotTypes
<1>4. SlotTypes'
  <2>1. compiled \in [engineRefs -> slots'] /\ DOMAIN coroutines \subseteq slots'
        /\ slots' \in SUBSET (Nat \ {0})
    BY <1>0, <1>1 DEF SlotTypes
  <2> QED BY <1>0, <1>2, <1>3, <2>1 DEF SlotTypes
<1>5. new \in held' /\ new.state = luaState' /\ \A v \in held : Mine(v)' <=> Mine(v)
  BY <1>0, <1>2 DEF Mine
<1>6. \A v \in held' : v = new \/ v \in held
  BY <1>0
<1>7. s \notin DOMAIN coroutines /\ \A r \in engineRefs : compiled[r] # s
  BY <1>0, <1>1 DEF SlotTypes
<1>8. SlotsOwned'
  <2>1. \A x \in slots' : \/ \E r \in engineRefs' : compiled'[r] = x
                          \/ x \in DOMAIN coroutines'
                          \/ \E v \in held' : Mine(v)' /\ v.slot = x
    <3> TAKE x \in slots'
    <3>1. CASE x = s
      BY <1>2, <1>5, <3>1 DEF Mine
    <3>2. CASE x \in slots
      BY <1>0, <1>5, <3>2 DEF SlotsOwned
    <3> QED BY <1>0, <3>1, <3>2
  <2>2. \A v \in held' : Mine(v)' => v.slot \in slots' \ DOMAIN coroutines'
    BY <1>0, <1>2, <1>5, <1>6, <1>7 DEF SlotsOwned
  <2>3. \A r \in engineRefs' : /\ compiled'[r] \notin DOMAIN coroutines'
                               /\ \A v \in held' : Mine(v)' => v.slot # compiled'[r]
                               /\ \A q \in engineRefs' : compiled'[q] = compiled'[r] => q = r
    BY <1>0, <1>2, <1>5, <1>6, <1>7 DEF SlotsOwned
  <2> QED BY <1>0, <2>1, <2>2, <2>3 DEF SlotsOwned
<1> QED BY <1>4, <1>8 DEF SlotInv

LEMMA DestroyValueKeeps ==
  ASSUME SlotInv, NEW v \in held, DestroyValue(v)
  PROVE  SlotInv'
<1> USE RegistryAssumption
<1>0. SlotTypes /\ SlotsOwned /\ held' = held \ {v}
      /\ UNCHANGED <<luaState, dead, compiled, coroutines, engineRefs, handles, nextRefId>>
      /\ slots' = IF Valid(v) THEN slots \ {v.slot} ELSE slots
  BY DEF SlotInv, DestroyValue, chunkVars
<1>1. luaState \in Nat /\ \A u \in held : u.state \in 1 .. luaState /\ u.slot \in Nat \ {0}
      /\ u = [state |-> u.state, slot |-> u.slot]
  BY <1>0 DEF SlotTypes
<1>2. Valid(v) <=> v.state = luaState
  BY <1>0, <1>1 DEF Valid, SlotTypes
<1>3. \A u \in held : Mine(u)' <=> Mine(u) /\ u # v
  BY <1>0 DEF Mine
<1>4. \A u \in held : Mine(u) /\ Mine(v) /\ u.slot = v.slot => u = v
  <2> SUFFICES ASSUME NEW u \in held, Mine(u), Mine(v), u.slot = v.slot PROVE u = v
    OBVIOUS
  <2>1. u.state = v.state
    BY DEF Mine
  <2>2. u = [state |-> u.state, slot |-> u.slot] /\ v = [state |-> v.state, slot |-> v.slot]
    BY <1>1
  <2> QED BY <2>1, <2>2
<1>5. CASE v.state = luaState
  <2>1. slots' = slots \ {v.slot} /\ Mine(v)
    BY <1>0, <1>2, <1>5 DEF Mine
  <2>2. (\A r \in engineRefs : compiled[r] # v.slot) /\ v.slot \notin DOMAIN coroutines
    BY <1>0, <2>1 DEF SlotsOwned
  <2>3. SlotTypes'
    <3>1. slots' \in SUBSET slots
      BY <2>1
    <3>2. IsFiniteSet(slots')
      BY <1>0, <3>1, FS_Subset DEF SlotTypes
    <3>3. compiled \in [engineRefs -> slots'] /\ DOMAIN coroutines \subseteq slots'
      BY <1>0, <2>1, <2>2 DEF SlotTypes
    <3> QED BY <1>0, <3>1, <3>2, <3>3 DEF SlotTypes
  <2>4. SlotsOwned'
    <3>1. \A x \in slots' : \/ \E r \in engineRefs' : compiled'[r] = x
                            \/ x \in DOMAIN coroutines'
                            \/ \E u \in held' : Mine(u)' /\ u.slot = x
      <4> TAKE x \in slots'
      <4>1. x \in slots /\ x # v.slot
        BY <2>1
      <4>2. \/ \E r \in engineRefs : compiled[r] = x
            \/ x \in DOMAIN coroutines
            \/ \E u \in held : Mine(u) /\ u.slot = x
        BY <1>0, <4>1 DEF SlotsOwned
      <4> QED BY <1>0, <1>3, <4>1, <4>2
    <3>2. \A u \in held' : Mine(u)' => u.slot \in slots' \ DOMAIN coroutines'
      BY <1>0, <1>3, <1>4, <2>1 DEF SlotsOwned
    <3>3. \A u \in held' : u \in held /\ (Mine(u)' <=> Mine(u))
      BY <1>0, <1>3
    <3> QED BY <1>0, <3>1, <3>2, <3>3 DEF SlotsOwned
  <2> QED BY <2>3, <2>4 DEF SlotInv
<1>6. CASE v.state # luaState
  <2>1. slots' = slots
    BY <1>0, <1>2, <1>6
  <2>2. \A u \in held : Mine(u) => Mine(u)' /\ u \in held'
    BY <1>0, <1>3, <1>6 DEF Mine
  <2>3. \A u \in held' : u \in held /\ (Mine(u)' <=> Mine(u))
    BY <1>0, <1>3
  <2>4. SlotTypes'
    BY <1>0, <2>1 DEF SlotTypes
  <2>5. \A x \in slots' : \/ \E r \in engineRefs' : compiled'[r] = x
                          \/ x \in DOMAIN coroutines'
                          \/ \E u \in held' : Mine(u)' /\ u.slot = x
    BY <1>0, <2>1, <2>2 DEF SlotsOwned
  <2> QED BY <1>0, <2>1, <2>3, <2>4, <2>5 DEF SlotInv, SlotsOwned
<1> QED BY <1>5, <1>6

LEMMA ResetKeeps ==
  ASSUME SlotInv, ResetRegistry
  PROVE  SlotInv'
<1> USE RegistryAssumption
<1>0. SlotTypes /\ luaState < MaxStates /\ luaState' = luaState + 1 /\ held' = held
      /\ dead' = dead \cup {luaState} /\ engineRefs' = {} /\ handles' = NoEntries
      /\ nextRefId' = 1 /\ compiled' = NoEntries /\ coroutines' = NoEntries /\ slots' = {}
  BY DEF SlotInv, ResetRegistry
<1>1. DOMAIN NoEntries = {} /\ NoEntries \in [{} -> {}] /\ IsFiniteSet({})
  BY FS_EmptySet DEF NoEntries
<1>2. luaState \in Nat /\ luaState' \in 1 .. MaxStates /\ 1 .. luaState \subseteq 1 .. luaState'
      /\ luaState' - 1 = luaState
  BY <1>0 DEF SlotTypes
<1>3. dead' = 1 .. luaState' - 1
  <2>1. dead = 1 .. luaState - 1 /\ luaState \in 1 .. MaxStates
    BY <1>0 DEF SlotTypes
  <2> QED BY <1>0, <1>2, <2>1
<1>4. \A v \in held : v.state \in 1 .. luaState /\ v \in [state : 1 .. luaState', slot : Nat \ {0}]
  <2> TAKE v \in held
  <2>1. v \in [state : 1 .. luaState, slot : Nat \ {0}]
    BY <1>0 DEF SlotTypes
  <2> QED BY <1>2, <2>1
<1>5. SlotTypes'
  BY <1>0, <1>1, <1>2, <1>3, <1>4 DEF SlotTypes
<1>6. \A v \in held' : ~Mine(v)'
  BY <1>0, <1>2, <1>4 DEF Mine
<1>7. SlotsOwned'
  BY <1>0, <1>1, <1>6 DEF SlotsOwned
<1> QED BY <1>5, <1>7 DEF SlotInv

LEMMA BindKeeps ==
  ASSUME BindInv, NEW name \in CallbackNames, BindActions(name)
  PROVE  BindInv'
<1> DEFINE h == callbacks[name]
<1>0. name \in DOMAIN callbacks /\ BindOne(name, h) /\ boundAs' = MapInsert(boundAs, name, h)
      /\ callbacks' = callbacks
  BY DEF BindActions
<1>1. /\ handlers \in Seq(Handlers) /\ closures = handlerIds
      /\ DOMAIN callbacks \subseteq CallbackNames /\ callbacks \in [DOMAIN callbacks -> Handlers]
      /\ handlerIds \in [DOMAIN boundAs -> DOMAIN handlers]
      /\ \A n \in DOMAIN boundAs : handlers[handlerIds[n]] = boundAs[n]
      /\ \A m, n \in DOMAIN boundAs : handlerIds[m] = handlerIds[n] => m = n
      /\ \A i \in DOMAIN handlers : \E n \in DOMAIN boundAs : handlerIds[n] = i
      /\ DOMAIN handlers = 1 .. Len(handlers) /\ Len(handlers) \in Nat
  BY DEF BindInv
<1>2. h \in Handlers
  BY <1>0, <1>1
<1> HIDE DEF h
<1>3. DOMAIN boundAs' = DOMAIN boundAs \cup {name} /\ boundAs'[name] = h
      /\ \A n \in DOMAIN boundAs : n # name => boundAs'[n] = boundAs[n]
  BY <1>0 DEF MapInsert
<1>4. CASE name \in DOMAIN handlerIds
  <2> DEFINE i == handlerIds[name]
  <2>1. handlers' = [handlers EXCEPT ![i] = h] /\ handlerIds' = handlerIds
        /\ closures' = MapInsert(closures, name, i)
    BY <1>0, <1>4 DEF BindOne
  <2>2. i \in 1 .. Len(handlers) /\ name \in DOMAIN boundAs
    BY <1>1, <1>4
  <2>3. closures' = handlerIds'
    BY <1>1, <1>4, <2>1 DEF MapInsert
  <2> HIDE DEF i
  <2>4. handlers' \in Seq(Handlers) /\ DOMAIN handlers' = DOMAIN handlers /\ handlers'[i] = h
        /\ \A j \in DOMAIN handlers : j # i => handlers'[j] = handlers[j]
    BY <1>1, <1>2, <2>1, <2>2
  <2>5. DOMAIN boundAs' = DOMAIN boundAs
    BY <1>3, <2>2
  <2>6. \A n \in DOMAIN boundAs : handlers'[handlerIds[n]] = boundAs'[n]
    <3> TAKE n \in DOMAIN boundAs
    <3>1. CASE n = name
      BY <1>3, <2>4, <3>1 DEF i
    <3>2. CASE n # name
      <4>1. handlerIds[n] # i /\ handlerIds[n] \in DOMAIN handlers
        BY <1>1, <2>2, <3>2 DEF i
      <4> QED BY <1>1, <1>3, <2>4, <3>2, <4>1
    <3> QED BY <3>1, <3>2
  <2> QED BY <1>0, <1>1, <2>1, <2>3, <2>4, <2>5, <2>6 DEF BindInv
<1>5. CASE name \notin DOMAIN handlerIds
  <2> DEFINE i == Len(handlers) + 1
  <2>1. handlers' = Append(handlers, h) /\ handlerIds' = MapInsert(handlerIds, name, i)
        /\ closures' = MapInsert(closures, name, i) /\ name \notin DOMAIN boundAs
    BY <1>0, <1>1, <1>5 DEF BindOne
  <2>2. handlers' \in Seq(Handlers) /\ Len(handlers') = i /\ DOMAIN handlers' = 1 .. i
        /\ handlers'[i] = h /\ \A j \in 1 .. Len(handlers) : handlers'[j] = handlers[j]
    BY <1>1, <1>2, <2>1
  <2>3. DOMAIN handlers \subseteq DOMAIN handlers' /\ i \in DOMAIN handlers' /\ i \notin DOMAIN handlers
        /\ DOMAIN handlers' = DOMAIN handlers \cup {i}
    BY <1>1, <2>2
  <2> HIDE DEF i
  <2>4. DOMAIN handlerIds' = DOMAIN boundAs' /\ handlerIds'[name] = i
        /\ \A n \in DOMAIN boundAs : handlerIds'[n] = handlerIds[n]
    BY <1>1, <1>3, <2>1 DEF MapInsert
  <2>5. handlerIds' \in [DOMAIN boundAs' -> DOMAIN handlers']
    <3>1. handlerIds' = [n \in DOMAIN boundAs' |-> handlerIds'[n]]
      BY <2>1, <2>4 DEF MapInsert
    <3> QED BY <1>1, <1>3, <2>3, <2>4, <3>1
  <2>6. \A n \in DOMAIN boundAs' : handlers'[handlerIds'[n]] = boundAs'[n]
    BY <1>1, <1>3, <2>1, <2>2, <2>4
  <2>7. \A m, n \in DOMAIN boundAs' : handlerIds'[m] = handlerIds'[n] => m = n
    BY <1>1, <1>3, <2>3, <2>4
  <2>8. \A j \in DOMAIN handlers' : \E n \in DOMAIN boundAs' : handlerIds'[n] = j
    BY <1>1, <1>3, <2>3, <2>4
  <2>9. closures' = handlerIds'
    BY <1>1, <2>1
  <2> QED BY <1>0, <1>1, <2>2, <2>5, <2>6, <2>7, <2>8, <2>9 DEF BindInv
<1> QED BY <1>4, <1>5

LEMMA RegistryInvStep == RegistryInv /\ [RegistryNext]_registryVars => RegistryInv'
<1> SUFFICES ASSUME RegistryInv, [RegistryNext]_registryVars PROVE RegistryInv'
  OBVIOUS
<1>0. SlotInv /\ BindInv
  BY DEF RegistryInv
(* The tables of the callbacks and those of the slots change apart. *)
<1>1. ASSUME UNCHANGED <<luaState, slots, held, dead, chunkVars>> PROVE SlotInv'
  <2>1. UNCHANGED <<luaState, slots, held, dead, compiled, coroutines, engineRefs, handles, nextRefId>>
    BY <1>1 DEF chunkVars
  <2> QED BY <1>0, <2>1 DEF SlotInv, SlotTypes, SlotsOwned, Mine
<1>2. ASSUME UNCHANGED actionVars PROVE BindInv'
  <2>1. UNCHANGED <<handlers, handlerIds, closures, callbacks, boundAs>>
    BY <1>2 DEF actionVars
  <2> QED BY <1>0, <2>1 DEF BindInv
<1>3. ASSUME NEW name \in CallbackNames, NEW h \in Handlers, callbacks' = MapInsert(callbacks, name, h),
             UNCHANGED <<luaState, slots, held, dead, handlers, handlerIds, closures, boundAs, chunkVars>>
      PROVE  RegistryInv'
  <2>1. DOMAIN callbacks' \subseteq CallbackNames /\ callbacks' \in [DOMAIN callbacks' -> Handlers]
    BY <1>0, <1>3 DEF BindInv, MapInsert
  <2>2. BindInv'
    BY <1>0, <1>3, <2>1 DEF BindInv
  <2> QED BY <1>1, <1>3, <2>2 DEF RegistryInv
<1>4. ASSUME NEW name \in CallbackNames, NEW h \in Handlers, RegisterAction(name, h)
      PROVE  RegistryInv'
  BY <1>3, <1>4 DEF RegisterAction
<1>5. ASSUME NEW name \in CallbackNames, DiscoverCallbacks(name) PROVE RegistryInv'
  <2>1. CASE name \in DOMAIN callbacks
    <3>1. UNCHANGED registryVars
      BY <1>5, <2>1 DEF DiscoverCallbacks, registryVars, chunkVars
    <3> QED BY <1>1, <1>2, <3>1 DEF registryVars, RegistryInv, actionVars, chunkVars
  <2>2. CASE name \notin DOMAIN callbacks
    BY <1>3, <1>5, <2>2, RegistryAssumption DEF DiscoverCallbacks
  <2> QED BY <2>1, <2>2
<1>6. ASSUME NEW name \in CallbackNames, BindActions(name) PROVE RegistryInv'
  BY <1>0, <1>1, <1>6, BindKeeps DEF BindActions, RegistryInv
<1>7. ASSUME NEW loads \in BOOLEAN, CompileRef(loads) PROVE RegistryInv'
  BY <1>0, <1>2, <1>7, CompileKeeps DEF CompileRef, RegistryInv
<1>8. CASE CompileCoroutine
  BY <1>0, <1>2, <1>8, CoroutineKeeps DEF CompileCoroutine, RegistryInv
<1>9. ASSUME NEW r, Resume(r) PROVE RegistryInv'
  <2>1. DOMAIN coroutines' = DOMAIN coroutines
    BY <1>9 DEF Resume
  <2>2. UNCHANGED <<luaState, slots, compiled, engineRefs, handles, nextRefId, held, dead>>
        /\ UNCHANGED actionVars
    BY <1>9 DEF Resume
  <2>3. SlotInv'
    BY <1>0, <2>1, <2>2 DEF SlotInv, SlotTypes, SlotsOwned, Mine
  <2> QED BY <1>2, <2>2, <2>3 DEF RegistryInv
<1>10. ASSUME NEW r, ReleaseRef(r) PROVE RegistryInv'
  BY <1>0, <1>2, <1>10, ReleaseKeeps DEF ReleaseRef, RegistryInv
<1>11. CASE MakeValue
  BY <1>0, <1>2, <1>11, MakeValueKeeps DEF MakeValue, RegistryInv
<1>12. ASSUME NEW v \in held, DestroyValue(v) PROVE RegistryInv'
  BY <1>0, <1>2, <1>12, DestroyValueKeeps DEF DestroyValue, RegistryInv
<1>13. CASE ResetRegistry
  <2>1. SlotInv'
    BY <1>0, <1>13, ResetKeeps
  <2>2. handlers' = <<>> /\ handlerIds' = NoEntries /\ closures' = NoEntries
        /\ boundAs' = NoEntries /\ callbacks' = callbacks
    BY <1>13 DEF ResetRegistry
  <2>3. DOMAIN NoEntries = {} /\ NoEntries \in [{} -> {}] /\ <<>> \in Seq(Handlers) /\ DOMAIN <<>> = {}
    BY DEF NoEntries
  <2>4. BindInv'
    BY <1>0, <2>2, <2>3 DEF BindInv
  <2> QED BY <2>1, <2>4 DEF RegistryInv
<1>14. CASE UNCHANGED registryVars
  BY <1>1, <1>2, <1>14 DEF registryVars, RegistryInv, actionVars, chunkVars
<1> QED BY <1>4, <1>5, <1>6, <1>7, <1>8, <1>9, <1>10, <1>11, <1>12, <1>13, <1>14 DEF RegistryNext

(* A set and its image under a function that tells its members apart. *)
LEMMA ImageCardinality ==
  ASSUME NEW S, NEW T, NEW f \in [S -> T], IsFiniteSet(T),
         \A x, y \in S : f[x] = f[y] => x = y,
         \A t \in T : \E x \in S : f[x] = t
  PROVE  IsFiniteSet(S) /\ Cardinality(S) = Cardinality(T)
<1>1. f \in Injection(S, T)
  BY DEF Injection, IsInjective
<1>2. f \in Surjection(S, T)
  BY DEF Surjection
<1> QED BY <1>1, <1>2, FS_Injection

(* Disjoint sets add up. *)
LEMMA DisjointCardinality ==
  ASSUME NEW S, NEW T, IsFiniteSet(S), IsFiniteSet(T), S \cap T = {}
  PROVE  IsFiniteSet(S \cup T) /\ Cardinality(S \cup T) = Cardinality(S) + Cardinality(T)
<1>1. IsFiniteSet(S \cup T)
      /\ Cardinality(S \cup T) = Cardinality(S) + Cardinality(T) - Cardinality(S \cap T)
  BY FS_Union
<1>2. Cardinality(S \cap T) = 0
  BY FS_EmptySet
<1>3. Cardinality(S) \in Nat /\ Cardinality(T) \in Nat
  BY FS_CardinalityType
<1>4. Cardinality(S \cup T) = Cardinality(S) + Cardinality(T) - 0
  BY <1>1, <1>2
<1> QED BY <1>1, <1>3, <1>4

LEMMA RegistryInvImplies == RegistryInv => RegistryAgrees
<1> SUFFICES ASSUME RegistryInv PROVE RegistryAgrees
  OBVIOUS
<1> DEFINE chunks == Range(compiled)
           threads == DOMAIN coroutines
           mine == {v \in held : v.state = luaState}
           values == {v.slot : v \in mine}
<1>0. SlotTypes /\ SlotsOwned /\ BindInv
  BY DEF RegistryInv, SlotInv
<1>1. compiled \in [engineRefs -> slots] /\ DOMAIN compiled = engineRefs /\ IsFiniteSet(slots)
      /\ threads \subseteq slots
  BY <1>0 DEF SlotTypes
<1>2. \A v \in held : v = [state |-> v.state, slot |-> v.slot]
  BY <1>0 DEF SlotTypes
<1>3. chunks \in SUBSET slots /\ threads \in SUBSET slots /\ values \in SUBSET slots
      /\ slots = (chunks \cup threads) \cup values
      /\ chunks \cap threads = {} /\ (chunks \cup threads) \cap values = {}
  <2>1. \A x : x \in chunks <=> \E r \in engineRefs : compiled[r] = x
    BY <1>1 DEF Range
  <2>2. \A x : x \in values <=> \E v \in held : Mine(v) /\ v.slot = x
    BY DEF Mine
  <2> HIDE DEF chunks, values, mine
  <2>3. chunks \in SUBSET slots
    BY <1>1, <2>1
  <2>4. values \in SUBSET slots /\ values \cap threads = {}
    BY <1>0, <2>2 DEF SlotsOwned
  <2>5. slots \subseteq (chunks \cup threads) \cup values
    BY <1>0, <2>1, <2>2 DEF SlotsOwned
  <2>6. chunks \cap threads = {} /\ chunks \cap values = {}
    BY <1>0, <2>1, <2>2 DEF SlotsOwned
  <2> QED BY <1>1, <2>3, <2>4, <2>5, <2>6
<1>4. IsFiniteSet(chunks) /\ IsFiniteSet(threads) /\ IsFiniteSet(values)
  BY <1>1, <1>3, FS_Subset
<1>5. Cardinality(engineRefs) = Cardinality(chunks)
  <2>1. compiled \in [engineRefs -> chunks] /\ \A x \in chunks : \E r \in engineRefs : compiled[r] = x
    BY <1>1 DEF Range
  <2>2. \A q, r \in engineRefs : compiled[q] = compiled[r] => q = r
    BY <1>0 DEF SlotsOwned
  <2> HIDE DEF chunks
  <2> QED BY <1>4, <2>1, <2>2, ImageCardinality
<1>6. Cardinality(mine) = Cardinality(values)
  <2> DEFINE f == [v \in mine |-> v.slot]
  <2>1. f \in [mine -> values] /\ \A x \in values : \E v \in mine : f[v] = x
    OBVIOUS
  <2>2. \A u, v \in mine : f[u] = f[v] => u = v
    <3> SUFFICES ASSUME NEW u \in mine, NEW v \in mine, u.slot = v.slot PROVE u = v
      OBVIOUS
    <3>1. u.state = v.state /\ u \in held /\ v \in held
      OBVIOUS
    <3>2. u = [state |-> u.state, slot |-> u.slot] /\ v = [state |-> v.state, slot |-> v.slot]
      BY <1>2, <3>1
    <3> QED BY <3>1, <3>2
  <2> HIDE DEF f, mine, values
  <2> QED BY <1>4, <2>1, <2>2, ImageCardinality
<1>7. Cardinality(slots) = Cardinality(engineRefs) + Cardinality(threads) + Cardinality(mine)
  <2> HIDE DEF chunks, threads, values, mine
  <2>1. IsFiniteSet(chunks \cup threads)
        /\ Cardinality(chunks \cup threads) = Cardinality(chunks) + Cardinality(threads)
    BY <1>3, <1>4, DisjointCardinality
  <2>2. Cardinality((chunks \cup threads) \cup values) = Cardinality(chunks \cup threads) + Cardinality(values)
    BY <1>3, <1>4, <2>1, DisjointCardinality
  <2> QED BY <1>3, <1>5, <1>6, <2>1, <2>2
<1>8. OneOwnerPerSlot
  BY <1>1, <1>3, <1>7 DEF OneOwnerPerSlot
<1>9. RefsResolve
  <2>1. handles \in [DOMAIN handles -> DOMAIN coroutines] /\ DOMAIN handles \subseteq engineRefs
    BY <1>0 DEF SlotTypes
  <2>2. \A t \in DOMAIN coroutines : \E r \in DOMAIN handles : handles[r] = t
    BY <1>0 DEF SlotsOwned
  <2> QED BY <1>1, <2>1, <2>2 DEF RefsResolve, Range
<1>10. handlers \in Seq(Handlers) /\ closures \in [DOMAIN boundAs -> DOMAIN handlers]
       /\ DOMAIN closures = DOMAIN boundAs /\ DOMAIN handlers = 1 .. Len(handlers)
       /\ Len(handlers) \in Nat
  BY <1>0 DEF BindInv
<1>11. ClosuresCallTheirHandler
  <2>1. \A n \in DOMAIN closures : handlers[closures[n]] = boundAs[n]
    BY <1>0, <1>10 DEF BindInv
  <2>2. Len(handlers) = Cardinality(DOMAIN closures)
    <3>1. IsFiniteSet(1 .. Len(handlers)) /\ Cardinality(1 .. Len(handlers)) = Len(handlers)
      <4>1. 1 \in Int /\ Len(handlers) \in Int
            /\ (IF 1 > Len(handlers) THEN 0 ELSE Len(handlers) - 1 + 1) = Len(handlers)
        BY <1>10
      <4> QED BY <4>1, FS_Interval
    <3>2. (\A m, n \in DOMAIN boundAs : closures[m] = closures[n] => m = n)
          /\ \A i \in DOMAIN handlers : \E n \in DOMAIN boundAs : closures[n] = i
      BY <1>0 DEF BindInv
    <3>3. closures \in [DOMAIN boundAs -> DOMAIN handlers] /\ IsFiniteSet(DOMAIN handlers)
      BY <1>10, <3>1
    <3>4. Cardinality(DOMAIN boundAs) = Cardinality(DOMAIN handlers)
      BY <3>2, <3>3, ImageCardinality
    <3> QED BY <1>10, <3>1, <3>4
  <2> QED BY <2>1, <2>2 DEF ClosuresCallTheirHandler
<1>12. RegistryTypeOK
  <2>1. luaState \in 1 .. MaxStates /\ nextRefId \in 1 .. MaxEngineRefs + 1 /\ slots \subseteq Nat \ {0}
        /\ dead = 1 .. luaState - 1 /\ held \subseteq [state : 1 .. luaState, slot : Nat \ {0}]
    BY <1>0 DEF SlotTypes
  <2>2. 1 .. luaState \subseteq 1 .. MaxStates /\ dead \subseteq 1 .. MaxStates
    BY <2>1, RegistryAssumption
  <2>3. held \subseteq [state : 1 .. MaxStates, slot : Nat \ {0}]
    BY <2>1, <2>2
  <2>4. Range(closures) \subseteq DOMAIN handlers
    BY <1>10 DEF Range
  <2> QED BY <1>3, <1>10, <2>1, <2>2, <2>3, <2>4 DEF RegistryTypeOK
<1> QED BY <1>8, <1>9, <1>11, <1>12 DEF RegistryAgrees

(***************************************************************************)
(* The caches of bytecode                                                  *)
(***************************************************************************)

(* A file holds the bytecode of an expression with its hash, unless it is   *)
(* being written or a crash has left it empty.                              *)
FilesOK ==
  \A h \in DOMAIN files :
    \/ files[h] \in Expressions /\ HashOf[files[h]] = h
    \/ files[h] = Torn /\ (crashes > 0 \/ \E e \in writing : FileOf(e) = h)

AotInv ==
  /\ crashes \in Nat /\ IsFiniteSet(luaCache) /\ LuaCacheIsBounded
  /\ DOMAIN bytecode \subseteq Expressions /\ BytecodeIsItsOwn
  /\ writing \subseteq DOMAIN bytecode
  /\ \A e \in writing : bytecode[e] = e /\ FileOf(e) \in DOMAIN files /\ writing = {e}
  /\ FilesOK

LEMMA AotInvInit == AotInit => AotInv
<1> SUFFICES ASSUME AotInit PROVE AotInv
  OBVIOUS
<1>1. DOMAIN NoBytecode = {}
  BY DEF NoBytecode
<1>2. IsFiniteSet(luaCache) /\ Cardinality(luaCache) = 0
  BY FS_EmptySet DEF AotInit
<1> QED BY <1>1, <1>2, AotAssumption DEF AotInit, AotInv, LuaCacheIsBounded, BytecodeIsItsOwn, FilesOK

LEMMA AotInvStep == AotInv /\ [AotNext]_aotVars => AotInv'
<1> SUFFICES ASSUME AotInv, [AotNext]_aotVars PROVE AotInv'
  OBVIOUS
<1> USE AotAssumption
<1>0. /\ crashes \in Nat /\ IsFiniteSet(luaCache) /\ LuaCacheIsBounded
      /\ DOMAIN bytecode \subseteq Expressions /\ BytecodeIsItsOwn
      /\ writing \subseteq DOMAIN bytecode
      /\ \A e \in writing : bytecode[e] = e /\ FileOf(e) \in DOMAIN files /\ writing = {e}
      /\ FilesOK
  BY DEF AotInv
<1>1. ASSUME NEW e \in Expressions, LoadFromDisk(e) PROVE AotInv'
  <2>1. writing = {} /\ e \notin DOMAIN bytecode /\ FileOf(e) \in DOMAIN files
        /\ bytecode' = MapInsert(bytecode, e, files[FileOf(e)])
        /\ UNCHANGED <<files, writing, luaCache, crashes>>
    BY <1>1 DEF LoadFromDisk
  <2>2. DOMAIN bytecode' = DOMAIN bytecode \cup {e} /\ bytecode'[e] = files[FileOf(e)]
        /\ \A f \in DOMAIN bytecode : bytecode'[f] = bytecode[f]
    BY <2>1 DEF MapInsert
  <2>3. files[FileOf(e)] = e \/ Collides(e) \/ (files[FileOf(e)] = Torn /\ crashes > 0)
    BY <1>0, <2>1 DEF FilesOK, Collides, FileOf
  <2>4. BytecodeIsItsOwn'
    BY <1>0, <2>1, <2>2, <2>3 DEF BytecodeIsItsOwn, Collides
  <2> QED BY <1>0, <2>1, <2>2, <2>4 DEF AotInv, LuaCacheIsBounded, FilesOK, FileOf
<1>2. ASSUME NEW e \in Expressions, CompileToBytecode(e) PROVE AotInv'
  <2>1. writing = {} /\ e \notin DOMAIN bytecode /\ FileOf(e) \notin DOMAIN files
        /\ bytecode' = MapInsert(bytecode, e, e) /\ files' = MapInsert(files, FileOf(e), Torn)
        /\ writing' = {e} /\ UNCHANGED <<luaCache, crashes>>
    BY <1>2 DEF CompileToBytecode
  <2>2. DOMAIN bytecode' = DOMAIN bytecode \cup {e} /\ bytecode'[e] = e
        /\ \A f \in DOMAIN bytecode : bytecode'[f] = bytecode[f]
    BY <2>1 DEF MapInsert
  <2>3. DOMAIN files' = DOMAIN files \cup {FileOf(e)} /\ files'[FileOf(e)] = Torn
        /\ \A h \in DOMAIN files : files'[h] = files[h]
    BY <2>1 DEF MapInsert
  <2>4. BytecodeIsItsOwn'
    BY <1>0, <2>1, <2>2 DEF BytecodeIsItsOwn, Collides
  <2>5. FilesOK'
    BY <1>0, <2>1, <2>3 DEF FilesOK, FileOf
  <2> QED BY <1>0, <2>1, <2>2, <2>3, <2>4, <2>5 DEF AotInv, LuaCacheIsBounded, FileOf
<1>3. ASSUME NEW e \in Expressions, WriteFile(e) PROVE AotInv'
  <2>1. e \in writing /\ files' = [files EXCEPT ![FileOf(e)] = e] /\ writing' = {} /\ writing = {e}
        /\ UNCHANGED <<bytecode, luaCache, crashes>> /\ FileOf(e) \in DOMAIN files
    BY <1>0, <1>3 DEF WriteFile
  <2>2. DOMAIN files' = DOMAIN files /\ files'[FileOf(e)] = e
        /\ \A h \in DOMAIN files : h # FileOf(e) => files'[h] = files[h]
    BY <2>1
  <2>3. FilesOK'
    <3> SUFFICES ASSUME NEW h \in DOMAIN files
                 PROVE  \/ files'[h] \in Expressions /\ HashOf[files'[h]] = h
                        \/ files'[h] = Torn /\ crashes > 0
      BY <2>1, <2>2 DEF FilesOK
    <3>1. CASE h = FileOf(e)
      BY <2>2, <3>1 DEF FileOf
    <3>2. CASE h # FileOf(e)
      BY <1>0, <2>1, <2>2, <3>2 DEF FilesOK
    <3> QED BY <3>1, <3>2
  <2>4. BytecodeIsItsOwn'
    BY <1>0, <2>1 DEF BytecodeIsItsOwn, Collides
  <2> QED BY <1>0, <2>1, <2>3, <2>4 DEF AotInv, LuaCacheIsBounded
<1>4. ASSUME NEW e \in Expressions, GetOrCompile(e) PROVE AotInv'
  <2>1. PICK rest \in AfterEviction(e) : luaCache' = IF e \in Broken THEN rest ELSE rest \cup {e}
    BY <1>4 DEF GetOrCompile
  <2>2. UNCHANGED <<bytecode, files, writing, crashes>>
    BY <1>4 DEF GetOrCompile
  <2>3. Cardinality(luaCache) \in Nat /\ Cardinality(luaCache) <= maxCacheSize
    BY <1>0, FS_CardinalityType DEF LuaCacheIsBounded
  <2>4. IsFiniteSet(rest) /\ Cardinality(rest) + 1 <= maxCacheSize /\ Cardinality(rest) \in Nat
    <3>1. CASE Cardinality(luaCache) >= maxCacheSize
      <4>1. PICK x \in luaCache : rest = luaCache \ {x}
        BY <2>1, <3>1 DEF AfterEviction
      <4>2. IsFiniteSet(rest) /\ Cardinality(rest) = Cardinality(luaCache) - 1
        BY <1>0, <4>1, FS_RemoveElement
      <4>3. Cardinality(rest) \in Nat
        BY <4>2, FS_CardinalityType
      <4> QED BY <2>3, <4>2, <4>3
    <3>2. CASE ~(Cardinality(luaCache) >= maxCacheSize)
      <4>1. rest = luaCache
        BY <2>1, <3>2 DEF AfterEviction
      <4> QED BY <1>0, <2>3, <3>2, <4>1
    <3> QED BY <3>1, <3>2
  <2>5. IsFiniteSet(luaCache') /\ Cardinality(luaCache') <= maxCacheSize
    <3>1. CASE e \in Broken
      BY <2>1, <2>4, <3>1
    <3>2. CASE e \notin Broken
      <4>1. IsFiniteSet(rest \cup {e}) /\ Cardinality(rest \cup {e}) <= Cardinality(rest) + 1
        BY <2>4, FS_AddElement
      <4>2. Cardinality(rest \cup {e}) \in Nat
        BY <4>1, FS_CardinalityType
      <4> QED BY <2>1, <2>4, <3>2, <4>1, <4>2
    <3> QED BY <3>1, <3>2
  <2> QED BY <1>0, <2>2, <2>5 DEF AotInv, LuaCacheIsBounded, BytecodeIsItsOwn, Collides, FilesOK, FileOf
<1>5. CASE ClearCache
  <2>1. DOMAIN bytecode' = {} /\ DOMAIN files' = {} /\ writing = {}
        /\ UNCHANGED <<writing, luaCache, crashes>>
    BY <1>5 DEF ClearCache, NoBytecode
  <2> QED BY <1>0, <2>1 DEF AotInv, LuaCacheIsBounded, BytecodeIsItsOwn, FilesOK
<1>6. CASE ClearLuaCache
  <2>1. luaCache' = {} /\ UNCHANGED <<bytecode, files, writing, crashes>>
    BY <1>6 DEF ClearLuaCache
  <2>2. IsFiniteSet(luaCache') /\ Cardinality(luaCache') = 0
    BY <2>1, FS_EmptySet
  <2> QED BY <1>0, <2>1, <2>2 DEF AotInv, LuaCacheIsBounded, BytecodeIsItsOwn, Collides, FilesOK, FileOf
<1>7. CASE AotCrash
  <2>1. crashes' = crashes + 1 /\ DOMAIN bytecode' = {} /\ writing' = {} /\ luaCache' = {}
        /\ files' = files
    BY <1>7 DEF AotCrash, NoBytecode
  <2>2. IsFiniteSet(luaCache') /\ Cardinality(luaCache') = 0
    BY <2>1, FS_EmptySet
  <2>3. crashes' \in Nat /\ crashes' > 0
    BY <1>0, <2>1
  <2> QED BY <1>0, <2>1, <2>2, <2>3 DEF AotInv, LuaCacheIsBounded, BytecodeIsItsOwn, FilesOK
<1>8. CASE UNCHANGED aotVars
  <2>1. UNCHANGED <<bytecode, files, writing, luaCache, crashes>>
    BY <1>8 DEF aotVars
  <2> QED BY <1>0, <2>1 DEF AotInv, LuaCacheIsBounded, BytecodeIsItsOwn, Collides, FilesOK, FileOf
<1> QED BY <1>1, <1>2, <1>3, <1>4, <1>5, <1>6, <1>7, <1>8 DEF AotNext

LEMMA AotInvImplies == AotInv => CachesAreSound
BY DEF AotInv, CachesAreSound

LEMMA CodeInvStep == (RegistryInv /\ AotInv) /\ [LuaNext]_luaVars => (RegistryInv /\ AotInv)'
<1> SUFFICES ASSUME RegistryInv, AotInv, [LuaNext]_luaVars PROVE RegistryInv' /\ AotInv'
  OBVIOUS
<1>1. [RegistryNext]_registryVars
  BY DEF LuaNext, luaVars, Rules1, Registry1, Host1, Sandbox1, Types1, CApi1, Aot1, Screening1,
         Values1, Rest
<1>2. [AotNext]_aotVars
  BY DEF LuaNext, luaVars, Rules1, Registry1, Host1, Sandbox1, Types1, CApi1, Aot1, Screening1,
         Values1, Rest
<1> QED
  BY <1>1, <1>2, RegistryInvStep, AotInvStep

(* For any numbers of references, values, states, expressions and crashes:   *)
(* every slot of the registry has one owner and every reference of engine    *)
(* and backend a slot of the open state; a bound action calls its own        *)
(* handler; the bytecode that AotCompiler returns is of the expression       *)
(* itself, or of one with the same hash, or a file that a crash left torn;   *)
(* and LuaExpressionCache keeps to its size.                                 *)
THEOREM CompiledCodeStaysOwn == LuaSpec => []CompiledCodeIsItsOwn
<1>1. LuaInit => RegistryInv /\ AotInv
  BY RegistryInvInit, AotInvInit DEF LuaInit
<1>2. (RegistryInv /\ AotInv) /\ [LuaNext]_luaVars => (RegistryInv /\ AotInv)'
  BY CodeInvStep
<1>3. RegistryInv /\ AotInv => CompiledCodeIsItsOwn
  BY RegistryInvImplies, AotInvImplies DEF CompiledCodeIsItsOwn
<1> QED
  BY <1>1, <1>2, <1>3, PTL DEF LuaSpec

(*****************************************************************************)
(* Runs, their globals and their deadlines                                   *)
(*****************************************************************************)

(* d is the deadline of the innermost of the n outer runs that has one. *)
InnermostOf(n, d) ==
  \/ d = 0 /\ \A i \in 1 .. n : ~frames[i].timed
  \/ \E i \in 1 .. n : /\ frames[i].timed /\ d = frames[i].run
                       /\ \A j \in 1 .. n : frames[j].timed => j <= i

(* Runs are numbered as they begin; one in progress has not ended, its     *)
(* callers are interrupted, and only a timeout expires.                    *)
RunsNest ==
  \A i \in DOMAIN frames :
    /\ frames[i].run \in DOMAIN ended /\ ended[frames[i].run] = NotEnded
    /\ \A j \in DOMAIN frames : i < j => frames[i].run < frames[j].run
    /\ i < Len(frames) => frames[i].nested
    /\ frames[i].run \in expired => frames[i].timed

DeadlinesNest ==
  /\ \A i \in DOMAIN frames : InnermostOf(i - 1, frames[i].saved)
  /\ InnermostOf(Len(frames), deadline)

(* A value of a parameter is of a run in progress or of one that failed. *)
GlobalsHaveOwners ==
  \A n \in GlobalNames : luaGlobals[n] > 0 =>
    \/ \E i \in DOMAIN frames : /\ frames[i].run = luaGlobals[n]
                                /\ n \in frames[i].plain \cup frames[i].objects
    \/ /\ luaGlobals[n] \in DOMAIN ended /\ ended[luaGlobals[n]].how = "runtime_error"
       /\ n \in ended[luaGlobals[n]].objects \/ ended[luaGlobals[n]].kind = "coroutine"

HostInv ==
  /\ HostTypeOK /\ RunsNest /\ DeadlinesNest /\ GlobalsHaveOwners /\ SeesOwnInputs
  /\ OverdueNeverSucceeds /\ expired \subseteq DOMAIN ended

LEMMA HostInvInit == HostInit => HostInv
<1> SUFFICES ASSUME HostInit PROVE HostInv
  OBVIOUS
<1> USE HostAssumption DEF HostInit
<1>1. frames = <<>> /\ ended = <<>> /\ Len(frames) = 0 /\ Len(ended) = 0
      /\ DOMAIN frames = {} /\ DOMAIN ended = {}
  OBVIOUS
<1>2. HostTypeOK
  BY <1>1 DEF HostTypeOK, Nil, Host
<1> QED BY <1>1, <1>2 DEF HostInv, RunsNest, DeadlinesNest, InnermostOf, GlobalsHaveOwners,
          SeesOwnInputs, OverdueNeverSucceeds, Nil

LEMMA EnterKeeps ==
  ASSUME HostInv, NEW kind \in RunKinds, NEW plain \in SUBSET GlobalNames,
         NEW objects \in SUBSET GlobalNames, NEW timed \in BOOLEAN,
         Enter(kind, plain, objects, timed)
  PROVE  HostInv'
<1> USE HostAssumption
<1> DEFINE n == Len(frames)
           run == Len(ended) + 1
           new == [run |-> run, kind |-> kind, plain |-> plain, objects |-> objects,
                   timed |-> timed, saved |-> deadline, nested |-> FALSE]
<1>0. HostTypeOK /\ RunsNest /\ DeadlinesNest /\ GlobalsHaveOwners
      /\ OverdueNeverSucceeds /\ expired \subseteq DOMAIN ended
  BY DEF HostInv
<1>1. /\ frames \in Seq(RunFrames) /\ ended \in Seq(EndedRuns) /\ n \in Nat
      /\ DOMAIN frames = 1 .. n /\ DOMAIN ended = 1 .. Len(ended)
      /\ Len(ended) \in Nat /\ run \in 1 .. MaxRuns /\ deadline \in 0 .. MaxRuns
      /\ luaGlobals \in [GlobalNames -> {Host, Nil} \cup 1 .. MaxRuns]
  BY <1>0 DEF HostTypeOK, Enter
<1>2. new \in RunFrames /\ NotEnded \in EndedRuns
  BY <1>1 DEF RunFrames, NotEnded, EndedRuns, RunKinds
<1>3. /\ Interrupted \in Seq(RunFrames) /\ Len(Interrupted) = n
      /\ \A i \in 1 .. n : Interrupted[i] = IF i = n THEN [frames[i] EXCEPT !.nested = TRUE] ELSE frames[i]
  <2>1. \A i \in 1 .. n : frames[i] \in RunFrames
    BY <1>1
  <2>2. \A i \in 1 .. n : [frames[i] EXCEPT !.nested = TRUE] \in RunFrames
    BY <2>1 DEF RunFrames
  <2>3. Interrupted \in [1 .. n -> RunFrames]
    BY <1>1, <2>1, <2>2 DEF Interrupted
  <2> QED BY <1>1, <2>3 DEF Interrupted
<1>4. /\ frames' = Append(Interrupted, new) /\ ended' = Append(ended, NotEnded)
      /\ luaGlobals' = [g \in GlobalNames |-> IF g \in plain \cup objects THEN run ELSE luaGlobals[g]]
      /\ context' = run /\ expired' = expired /\ plain \cap objects = {}
      /\ deadline' = IF timed THEN run ELSE deadline
      /\ tracked' = IF kind = "coroutine" THEN tracked \cup plain ELSE tracked
  BY DEF Enter, SetAll, SetupContextTable
<1> HIDE DEF new
<1>5. /\ frames' \in Seq(RunFrames) /\ Len(frames') = n + 1 /\ DOMAIN frames' = 1 .. (n + 1)
      /\ frames'[n + 1] = new
      /\ \A i \in 1 .. n : frames'[i] = Interrupted[i]
  BY <1>1, <1>2, <1>3, <1>4
<1>6. \A i \in 1 .. n : /\ frames'[i].run = frames[i].run /\ frames'[i].timed = frames[i].timed
                        /\ frames'[i].saved = frames[i].saved /\ frames'[i].plain = frames[i].plain
                        /\ frames'[i].objects = frames[i].objects
                        /\ i = n => frames'[i].nested
                        /\ i # n => frames'[i] = frames[i]
  <2> TAKE i \in 1 .. n
  <2>1. frames[i] \in RunFrames
    BY <1>1
  <2>2. CASE i = n
    <3>1. frames'[i] = [frames[i] EXCEPT !.nested = TRUE]
      BY <1>3, <1>5, <2>2
    <3> QED BY <2>1, <2>2, <3>1 DEF RunFrames
  <2>3. CASE i # n
    BY <1>3, <1>5, <2>3
  <2> QED BY <2>2, <2>3
<1>7. /\ ended' \in Seq(EndedRuns) /\ Len(ended') = run /\ DOMAIN ended' = 1 .. run
      /\ ended'[run] = NotEnded /\ \A r \in 1 .. Len(ended) : ended'[r] = ended[r]
  BY <1>1, <1>2, <1>4
<1>8. new.run = run /\ new.timed = timed /\ new.saved = deadline /\ ~new.nested
      /\ new.plain = plain /\ new.objects = objects
  BY DEF new
<1>9. run \notin expired
  BY <1>0, <1>1
<1>10. HostTypeOK'
  <2>1. luaGlobals' \in [GlobalNames -> {Host, Nil} \cup 1 .. MaxRuns]
    BY <1>1, <1>4
  <2>2. tracked' \subseteq GlobalNames /\ expired' \subseteq 1 .. MaxRuns
        /\ context' \in 0 .. MaxRuns /\ deadline' \in 0 .. MaxRuns
    BY <1>0, <1>1, <1>4 DEF HostTypeOK
  <2> QED BY <1>1, <1>5, <1>7, <2>1, <2>2 DEF HostTypeOK
<1>11. RunsNest'
  <2> SUFFICES ASSUME NEW i \in 1 .. (n + 1)
               PROVE  /\ frames'[i].run \in 1 .. run /\ ended'[frames'[i].run] = NotEnded
                      /\ \A j \in 1 .. (n + 1) : i < j => frames'[i].run < frames'[j].run
                      /\ i < n + 1 => frames'[i].nested
                      /\ frames'[i].run \in expired => frames'[i].timed
    BY <1>4, <1>5, <1>7 DEF RunsNest
  <2>1. CASE i = n + 1
    BY <1>1, <1>5, <1>7, <1>8, <1>9, <2>1
  <2>2. CASE i \in 1 .. n
    <3>1. /\ frames[i].run \in 1 .. Len(ended) /\ ended[frames[i].run] = NotEnded
          /\ \A j \in 1 .. n : i < j => frames[i].run < frames[j].run
          /\ i < n => frames[i].nested
          /\ frames[i].run \in expired => frames[i].timed
      BY <1>0, <1>1, <2>2 DEF RunsNest
    <3>2. ASSUME NEW j \in 1 .. (n + 1), i < j PROVE frames'[i].run < frames'[j].run
      <4>1. frames'[i].run = frames[i].run
        BY <1>6, <2>2
      <4>2. CASE j = n + 1
        BY <1>1, <1>5, <1>8, <3>1, <4>1, <4>2
      <4>3. CASE j \in 1 .. n
        <5>1. frames'[j].run = frames[j].run
          BY <1>6, <4>3
        <5> QED BY <3>1, <3>2, <4>1, <4>3, <5>1
      <4> QED BY <1>1, <4>2, <4>3
    <3>4. frames'[i].run = frames[i].run /\ frames'[i].timed = frames[i].timed
      BY <1>6, <2>2
    <3>5. frames'[i].run \in 1 .. run /\ ended'[frames'[i].run] = NotEnded
      BY <1>1, <1>7, <3>1, <3>4
    <3>6. frames'[i].run \in expired => frames'[i].timed
      BY <3>1, <3>4
    <3>3. i < n + 1 => frames'[i].nested
      BY <1>6, <2>2, <3>1
    <3> QED BY <3>2, <3>3, <3>5, <3>6
  <2> QED BY <1>1, <2>1, <2>2
<1>12. DeadlinesNest'
  <2>1. \A i \in 1 .. n : InnermostOf(i - 1, frames[i].saved) /\ InnermostOf(n, deadline)
    BY <1>0, <1>1 DEF DeadlinesNest
  <2>2. ASSUME NEW i \in 1 .. (n + 1) PROVE InnermostOf(i - 1, frames[i].saved)'
    <3>1. CASE i = n + 1
      <4>1. frames'[i].saved = deadline /\ i - 1 = n
        BY <1>1, <1>5, <1>8, <3>1
      <4>2. InnermostOf(n, deadline)
        BY <1>0 DEF DeadlinesNest
      <4> QED BY <1>1, <1>6, <4>1, <4>2 DEF InnermostOf
    <3>2. CASE i \in 1 .. n
      <4>1. InnermostOf(i - 1, frames[i].saved) /\ 1 .. (i - 1) \subseteq 1 .. n
        BY <1>1, <2>1, <3>2
      <4> QED BY <1>6, <3>2, <4>1 DEF InnermostOf
    <3> QED BY <1>1, <3>1, <3>2
  <2>3. (n + 1 = Len(frames')) /\ InnermostOf(n, deadline)
    BY <1>0, <1>5 DEF DeadlinesNest
  <2>4. InnermostOf(Len(frames), deadline)'
    <3>1. CASE timed
      <4>1. deadline' = frames'[n + 1].run /\ frames'[n + 1].timed
        BY <1>4, <1>5, <1>8, <3>1
      <4> QED BY <1>1, <2>3, <4>1 DEF InnermostOf
    <3>2. CASE ~timed
      <4>1. deadline' = deadline /\ ~frames'[n + 1].timed
        BY <1>4, <1>5, <1>8, <3>2
      <4>2. 1 .. (n + 1) = 1 .. n \cup {n + 1}
        BY <1>1
      <4> QED BY <1>6, <2>3, <4>1, <4>2 DEF InnermostOf
    <3> QED BY <3>1, <3>2
  <2> QED BY <1>5, <2>2, <2>4 DEF DeadlinesNest
<1>13. GlobalsHaveOwners'
  <2> SUFFICES ASSUME NEW g \in GlobalNames, luaGlobals'[g] > 0
               PROVE  \/ \E i \in 1 .. (n + 1) :
                            /\ frames'[i].run = luaGlobals'[g]
                            /\ g \in frames'[i].plain \cup frames'[i].objects
                      \/ /\ luaGlobals'[g] \in 1 .. run
                         /\ ended'[luaGlobals'[g]].how = "runtime_error"
                         /\ \/ g \in ended'[luaGlobals'[g]].objects
                            \/ ended'[luaGlobals'[g]].kind = "coroutine"
    BY <1>5, <1>7 DEF GlobalsHaveOwners
  <2>1. CASE g \in plain \cup objects
    BY <1>1, <1>4, <1>5, <1>8, <2>1
  <2>2. CASE g \notin plain \cup objects
    <3>1. luaGlobals'[g] = luaGlobals[g]
      BY <1>4, <2>2
    <3>2. \/ \E i \in 1 .. n : /\ frames[i].run = luaGlobals[g]
                                /\ g \in frames[i].plain \cup frames[i].objects
          \/ /\ luaGlobals[g] \in 1 .. Len(ended) /\ ended[luaGlobals[g]].how = "runtime_error"
             /\ g \in ended[luaGlobals[g]].objects \/ ended[luaGlobals[g]].kind = "coroutine"
      BY <1>0, <1>1, <3>1 DEF GlobalsHaveOwners
    <3>3. 1 .. n \subseteq 1 .. (n + 1) /\ 1 .. Len(ended) \subseteq 1 .. run
      BY <1>1
    <3> QED BY <1>6, <1>7, <3>1, <3>2, <3>3
  <2> QED BY <2>1, <2>2
<1>14. SeesOwnInputs'
  <2>1. Top' = new
    BY <1>5 DEF Top
  <2> QED BY <1>4, <1>8, <2>1 DEF SeesOwnInputs
<1>15. OverdueNeverSucceeds'
  BY <1>0, <1>1, <1>7 DEF OverdueNeverSucceeds, NotEnded
<1>16. (expired \subseteq DOMAIN ended)'
  BY <1>0, <1>1, <1>4, <1>7
<1> QED BY <1>10, <1>11, <1>12, <1>13, <1>14, <1>15, <1>16 DEF HostInv

(* What the end of a run keeps, however it ends. *)
LEMMA EndKeeps ==
  ASSUME HostInv, frames # <<>>, NEW how \in {"ok", "RuleTimeoutException", "runtime_error"},
         End(how), how = "ok" => ~(Top.timed /\ Top.run \in expired)
  PROVE  /\ (frames \in Seq(RunFrames) /\ ended \in Seq(EndedRuns) /\ Len(ended) <= MaxRuns)'
         /\ (context \in 0 .. MaxRuns /\ deadline \in 0 .. MaxRuns /\ expired \subseteq 1 .. MaxRuns)'
         /\ RunsNest' /\ DeadlinesNest' /\ OverdueNeverSucceeds'
         /\ (frames # <<>> => Top.nested)' /\ (expired \subseteq DOMAIN ended)'
         /\ Len(frames') = Len(frames) - 1
         /\ \A i \in 1 .. Len(frames') : frames'[i] = frames[i]
         /\ DOMAIN ended' = DOMAIN ended
         /\ \A r \in DOMAIN ended : r # Top.run => ended'[r] = ended[r]
         /\ ended'[Top.run].how = how /\ ended'[Top.run].objects = Top.objects
         /\ ended'[Top.run].kind = Top.kind
<1> USE HostAssumption
<1> DEFINE n == Len(frames)
           m == n - 1
           this == [how |-> how, late |-> Top.run \in expired, objects |-> Top.objects,
                    kind |-> Top.kind]
<1>0. HostTypeOK /\ RunsNest /\ DeadlinesNest /\ OverdueNeverSucceeds
      /\ expired \subseteq DOMAIN ended
  BY DEF HostInv
<1>1. /\ frames \in Seq(RunFrames) /\ ended \in Seq(EndedRuns) /\ Len(ended) <= MaxRuns
      /\ n \in Nat /\ n >= 1 /\ m \in Nat /\ m < n
      /\ DOMAIN frames = 1 .. n /\ DOMAIN ended = 1 .. Len(ended) /\ Len(ended) \in Nat
      /\ Top = frames[n] /\ Top \in RunFrames
  <2>1. frames \in Seq(RunFrames) /\ ended \in Seq(EndedRuns) /\ Len(ended) <= MaxRuns
    BY <1>0 DEF HostTypeOK
  <2>2. n \in Nat /\ n >= 1
    BY <2>1
  <2> QED BY <2>1, <2>2 DEF Top
<1>14. \A i \in 1 .. m : i \in 1 .. n /\ i \in Nat /\ 1 .. (i - 1) \subseteq 1 .. m
  BY <1>1
<1>2. /\ frames' = SubSeq(frames, 1, m) /\ deadline' = Top.saved /\ context' = context
      /\ expired' = expired /\ ended' = [ended EXCEPT ![Top.run] = this]
  BY DEF End, DeadlineGuard
<1>3. /\ frames' \in Seq(RunFrames) /\ Len(frames') = m /\ DOMAIN frames' = 1 .. m
      /\ \A i \in 1 .. m : frames'[i] = frames[i]
  BY <1>1, <1>2
<1>4. /\ Top.run \in 1 .. Len(ended)
      /\ \A i \in 1 .. m : frames[i].run < Top.run /\ frames[i].nested
  BY <1>0, <1>1 DEF RunsNest
<1>5. this \in EndedRuns
  <2>1. (Top.run \in expired) \in BOOLEAN
    OBVIOUS
  <2> QED BY <1>1, <2>1 DEF EndedRuns, RunFrames
<1>6. /\ ended' \in Seq(EndedRuns) /\ Len(ended') = Len(ended) /\ DOMAIN ended' = 1 .. Len(ended)
      /\ ended'[Top.run] = this
      /\ \A r \in 1 .. Len(ended) : r # Top.run => ended'[r] = ended[r]
  <2> HIDE DEF this
  <2> QED BY <1>1, <1>2, <1>4, <1>5
<1>7. this.how = how /\ this.objects = Top.objects /\ this.kind = Top.kind
  OBVIOUS
<1>8. (context \in 0 .. MaxRuns /\ deadline \in 0 .. MaxRuns /\ expired \subseteq 1 .. MaxRuns)'
  <2>1. Top.saved \in 0 .. MaxRuns
    BY <1>1 DEF RunFrames
  <2> QED BY <1>0, <1>2, <2>1 DEF HostTypeOK
<1>9. RunsNest'
  <2> SUFFICES ASSUME NEW i \in 1 .. m
               PROVE  /\ frames'[i].run \in 1 .. Len(ended) /\ ended'[frames'[i].run] = NotEnded
                      /\ \A j \in 1 .. m : i < j => frames'[i].run < frames'[j].run
                      /\ i < m => frames'[i].nested
                      /\ frames'[i].run \in expired => frames'[i].timed
    BY <1>2, <1>3, <1>6 DEF RunsNest
  <2>1. /\ i \in 1 .. n /\ frames[i].run \in 1 .. Len(ended) /\ ended[frames[i].run] = NotEnded
        /\ \A j \in 1 .. n : i < j => frames[i].run < frames[j].run
        /\ frames[i].run \in expired => frames[i].timed
    <3>1. i \in DOMAIN frames /\ i \in 1 .. n
      BY <1>1, <1>14
    <3> QED BY <1>0, <1>1, <3>1 DEF RunsNest
  <2>2. frames[i].run # Top.run /\ frames[i].nested
    BY <1>4, <2>1
  <2>3. \A j \in 1 .. m : i < j => frames'[i].run < frames'[j].run
    BY <1>3, <1>14, <2>1
  <2>4. frames'[i] = frames[i]
    BY <1>3
  <2>5. ended'[frames'[i].run] = NotEnded
    BY <1>6, <2>1, <2>2, <2>4
  <2> QED BY <2>1, <2>2, <2>3, <2>4, <2>5
<1>10. DeadlinesNest'
  <2>1. ASSUME NEW i \in 1 .. m PROVE InnermostOf(i - 1, frames[i].saved)'
    <3>1. InnermostOf(i - 1, frames[i].saved) /\ 1 .. (i - 1) \subseteq 1 .. m
      <4>1. i \in DOMAIN frames
        BY <1>1, <1>14
      <4> QED BY <1>0, <1>14, <4>1 DEF DeadlinesNest
    <3> QED BY <1>3, <3>1 DEF InnermostOf
  <2>2. InnermostOf(Len(frames), deadline)'
    <3>1. InnermostOf(m, Top.saved)
      BY <1>0, <1>1 DEF DeadlinesNest
    <3> QED BY <1>2, <1>3, <3>1 DEF InnermostOf
  <2> QED BY <1>3, <2>1, <2>2 DEF DeadlinesNest
<1>11. OverdueNeverSucceeds'
  <2>1. this.late => this.how # "ok"
    <3>1. Top.run \in expired => Top.timed
      BY <1>0, <1>1 DEF RunsNest
    <3> QED BY <3>1
  <2> HIDE DEF this
  <2> SUFFICES ASSUME NEW r \in 1 .. Len(ended), ended'[r].late PROVE ended'[r].how # "ok"
    BY <1>6 DEF OverdueNeverSucceeds
  <2>2. CASE r = Top.run
    BY <1>6, <2>1, <2>2
  <2>3. CASE r # Top.run
    BY <1>0, <1>1, <1>6, <2>3 DEF OverdueNeverSucceeds
  <2> QED BY <2>2, <2>3
<1>12. (frames # <<>> => Top.nested)'
  <2> SUFFICES ASSUME frames' # <<>> PROVE frames'[m].nested
    BY <1>3 DEF Top
  <2>1. m >= 1
    BY <1>3
  <2> QED BY <1>1, <1>3, <1>4, <2>1
<1>13. (expired \subseteq DOMAIN ended)'
  BY <1>0, <1>1, <1>2, <1>6
<1> HIDE DEF this
<1> QED BY <1>1, <1>3, <1>6, <1>7, <1>8, <1>9, <1>10, <1>11, <1>12, <1>13

LEMMA LeaveKeeps ==
  ASSUME HostInv, Leave
  PROVE  HostInv'
<1> DEFINE how == IF Top.timed /\ Top.run \in expired THEN "RuleTimeoutException" ELSE "ok"
<1>0. HostTypeOK /\ RunsNest /\ GlobalsHaveOwners
  BY DEF HostInv
<1>1. /\ frames # <<>> /\ End(how) /\ how \in {"ok", "RuleTimeoutException", "runtime_error"}
      /\ how = "ok" => ~(Top.timed /\ Top.run \in expired)
      /\ luaGlobals' = [g \in GlobalNames |->
                          IF g \in Top.plain \cup Top.objects THEN Nil ELSE luaGlobals[g]]
      /\ tracked' = IF Top.kind = "coroutine" THEN tracked \cup Top.plain ELSE tracked
  BY DEF Leave, SetAll
<1> HIDE DEF how
<1>2. /\ (frames \in Seq(RunFrames) /\ ended \in Seq(EndedRuns) /\ Len(ended) <= MaxRuns)'
      /\ (context \in 0 .. MaxRuns /\ deadline \in 0 .. MaxRuns /\ expired \subseteq 1 .. MaxRuns)'
      /\ RunsNest' /\ DeadlinesNest' /\ OverdueNeverSucceeds'
      /\ (frames # <<>> => Top.nested)' /\ (expired \subseteq DOMAIN ended)'
      /\ Len(frames') = Len(frames) - 1
      /\ \A i \in 1 .. Len(frames') : frames'[i] = frames[i]
      /\ DOMAIN ended' = DOMAIN ended
      /\ \A r \in DOMAIN ended : r # Top.run => ended'[r] = ended[r]
  BY <1>1, EndKeeps
<1>3. Len(frames) \in Nat /\ Top = frames[Len(frames)] /\ Top \in RunFrames
      /\ DOMAIN frames = 1 .. Len(frames) /\ DOMAIN frames' = 1 .. Len(frames')
      /\ Len(frames') \in Nat
  BY <1>0, <1>1, <1>2 DEF HostTypeOK, Top
<1>4. HostTypeOK'
  <2>1. Top.plain \subseteq GlobalNames
    BY <1>3 DEF RunFrames
  <2>2. luaGlobals' \in [GlobalNames -> {Host, Nil} \cup 1 .. MaxRuns]
    BY <1>0, <1>1 DEF HostTypeOK
  <2>3. tracked' \subseteq GlobalNames
    BY <1>0, <1>1, <2>1 DEF HostTypeOK
  <2> QED BY <1>2, <2>2, <2>3 DEF HostTypeOK
<1>5. GlobalsHaveOwners'
  <2> SUFFICES ASSUME NEW g \in GlobalNames, luaGlobals'[g] > 0
               PROVE  \/ \E i \in 1 .. Len(frames') :
                            /\ frames'[i].run = luaGlobals'[g]
                            /\ g \in frames'[i].plain \cup frames'[i].objects
                      \/ /\ luaGlobals'[g] \in DOMAIN ended
                         /\ ended'[luaGlobals'[g]].how = "runtime_error"
                         /\ \/ g \in ended'[luaGlobals'[g]].objects
                            \/ ended'[luaGlobals'[g]].kind = "coroutine"
    BY <1>2, <1>3 DEF GlobalsHaveOwners
  <2>1. g \notin Top.plain \cup Top.objects /\ luaGlobals'[g] = luaGlobals[g]
    BY <1>1 DEF Nil
  <2>2. CASE \E i \in DOMAIN frames : /\ frames[i].run = luaGlobals[g]
                                      /\ g \in frames[i].plain \cup frames[i].objects
    <3>1. PICK i \in DOMAIN frames : /\ frames[i].run = luaGlobals[g]
                                     /\ g \in frames[i].plain \cup frames[i].objects
      BY <2>2
    <3>2. i # Len(frames)
      BY <1>3, <2>1, <3>1
    <3>3. i \in 1 .. Len(frames')
      BY <1>2, <1>3, <3>1, <3>2
    <3> QED BY <1>2, <2>1, <3>1, <3>3
  <2>3. CASE /\ luaGlobals[g] \in DOMAIN ended /\ ended[luaGlobals[g]].how = "runtime_error"
             /\ g \in ended[luaGlobals[g]].objects \/ ended[luaGlobals[g]].kind = "coroutine"
    <3>1. ended[Top.run] = NotEnded
      <4>1. Len(frames) \in DOMAIN frames
        BY <1>1, <1>2, <1>3
      <4> QED BY <1>0, <1>3, <4>1 DEF RunsNest
    <3>2. luaGlobals[g] # Top.run
      BY <2>3, <3>1 DEF NotEnded
    <3> QED BY <1>2, <2>1, <2>3, <3>2
  <2> QED BY <1>0, <2>1, <2>2, <2>3 DEF GlobalsHaveOwners
<1>6. SeesOwnInputs'
  BY <1>2 DEF SeesOwnInputs
<1> QED BY <1>2, <1>4, <1>5, <1>6 DEF HostInv

LEMMA LeaveByErrorKeeps ==
  ASSUME HostInv, LeaveByError
  PROVE  HostInv'
<1>0. HostTypeOK /\ RunsNest /\ GlobalsHaveOwners
  BY DEF HostInv
<1>1. /\ frames # <<>> /\ End("runtime_error") /\ tracked' = tracked
      /\ luaGlobals' = [g \in GlobalNames |->
                          IF g \in ClearedOnError(Top) THEN Nil ELSE luaGlobals[g]]
  BY DEF LeaveByError, SetAll
<1>2. /\ (frames \in Seq(RunFrames) /\ ended \in Seq(EndedRuns) /\ Len(ended) <= MaxRuns)'
      /\ (context \in 0 .. MaxRuns /\ deadline \in 0 .. MaxRuns /\ expired \subseteq 1 .. MaxRuns)'
      /\ RunsNest' /\ DeadlinesNest' /\ OverdueNeverSucceeds'
      /\ (frames # <<>> => Top.nested)' /\ (expired \subseteq DOMAIN ended)'
      /\ Len(frames') = Len(frames) - 1
      /\ \A i \in 1 .. Len(frames') : frames'[i] = frames[i]
      /\ DOMAIN ended' = DOMAIN ended
      /\ \A r \in DOMAIN ended : r # Top.run => ended'[r] = ended[r]
      /\ ended'[Top.run].how = "runtime_error" /\ ended'[Top.run].objects = Top.objects
      /\ ended'[Top.run].kind = Top.kind
  BY <1>1, EndKeeps
<1>3. Len(frames) \in Nat /\ Top = frames[Len(frames)]
      /\ DOMAIN frames = 1 .. Len(frames) /\ DOMAIN frames' = 1 .. Len(frames')
      /\ Len(frames') \in Nat /\ Len(frames) \in DOMAIN frames
  BY <1>0, <1>1, <1>2 DEF HostTypeOK, Top
<1>4. HostTypeOK'
  <2>1. luaGlobals' \in [GlobalNames -> {Host, Nil} \cup 1 .. MaxRuns] /\ tracked' \subseteq GlobalNames
    BY <1>0, <1>1 DEF HostTypeOK
  <2> QED BY <1>2, <2>1 DEF HostTypeOK
<1>5. GlobalsHaveOwners'
  <2> SUFFICES ASSUME NEW g \in GlobalNames, luaGlobals'[g] > 0
               PROVE  \/ \E i \in 1 .. Len(frames') :
                            /\ frames'[i].run = luaGlobals'[g]
                            /\ g \in frames'[i].plain \cup frames'[i].objects
                      \/ /\ luaGlobals'[g] \in DOMAIN ended
                         /\ ended'[luaGlobals'[g]].how = "runtime_error"
                         /\ \/ g \in ended'[luaGlobals'[g]].objects
                            \/ ended'[luaGlobals'[g]].kind = "coroutine"
    BY <1>2, <1>3 DEF GlobalsHaveOwners
  <2>1. g \notin ClearedOnError(Top) /\ luaGlobals'[g] = luaGlobals[g]
    BY <1>1 DEF Nil
  <2>2. Top.run \in DOMAIN ended /\ ended[Top.run] = NotEnded
    BY <1>0, <1>3 DEF RunsNest
  <2>3. CASE \E i \in DOMAIN frames : /\ frames[i].run = luaGlobals[g]
                                      /\ g \in frames[i].plain \cup frames[i].objects
    <3>1. PICK i \in DOMAIN frames : /\ frames[i].run = luaGlobals[g]
                                     /\ g \in frames[i].plain \cup frames[i].objects
      BY <2>3
    <3>2. CASE i = Len(frames)
      <4>1. luaGlobals'[g] = Top.run /\ g \in Top.plain \cup Top.objects
        BY <1>3, <2>1, <3>1, <3>2
      <4>2. g \in Top.objects \/ Top.kind = "coroutine"
        BY <2>1, <4>1 DEF ClearedOnError
      <4> QED BY <1>2, <2>2, <4>1, <4>2
    <3>3. CASE i # Len(frames)
      <4>1. i \in 1 .. Len(frames')
        BY <1>2, <1>3, <3>1, <3>3
      <4> QED BY <1>2, <2>1, <3>1, <4>1
    <3> QED BY <3>2, <3>3
  <2>4. CASE /\ luaGlobals[g] \in DOMAIN ended /\ ended[luaGlobals[g]].how = "runtime_error"
             /\ g \in ended[luaGlobals[g]].objects \/ ended[luaGlobals[g]].kind = "coroutine"
    <3>1. luaGlobals[g] # Top.run
      BY <2>2, <2>4 DEF NotEnded
    <3> QED BY <1>2, <2>1, <2>4, <3>1
  <2> QED BY <1>0, <2>1, <2>3, <2>4 DEF GlobalsHaveOwners
<1>6. SeesOwnInputs'
  BY <1>2 DEF SeesOwnInputs
<1> QED BY <1>2, <1>4, <1>5, <1>6 DEF HostInv

LEMMA HostInvStep == HostInv /\ [HostNext]_hostVars => HostInv'
<1> SUFFICES ASSUME HostInv, [HostNext]_hostVars PROVE HostInv'
  OBVIOUS
<1>0. HostTypeOK
  BY DEF HostInv
(* Steps of the host that leave the runs alone. *)
<1>1. ASSUME NEW names \in SUBSET GlobalNames, NEW v \in {Host, Nil},
             luaGlobals' = SetAll(names, v), tracked' \subseteq GlobalNames,
             frames' = frames, context' = context, deadline' = deadline, expired' = expired,
             ended' = ended
      PROVE  HostInv'
  <2>1. \A g \in GlobalNames : luaGlobals'[g] = IF g \in names THEN v ELSE luaGlobals[g]
    BY <1>1 DEF SetAll
  <2>2. luaGlobals' \in [GlobalNames -> {Host, Nil} \cup 1 .. MaxRuns]
    BY <1>0, <1>1 DEF HostTypeOK, SetAll
  <2>3. HostTypeOK'
    BY <1>0, <1>1, <2>2 DEF HostTypeOK
  <2>4. RunsNest' /\ OverdueNeverSucceeds' /\ (expired \subseteq DOMAIN ended)'
    BY <1>1 DEF HostInv, RunsNest, OverdueNeverSucceeds
  <2>5. DeadlinesNest'
    BY <1>1 DEF HostInv, DeadlinesNest, InnermostOf
  <2>6. GlobalsHaveOwners'
    <3>1. \A g \in GlobalNames : luaGlobals'[g] > 0 => luaGlobals'[g] = luaGlobals[g]
      BY <2>1 DEF Nil, Host
    <3> QED BY <1>1, <3>1 DEF HostInv, GlobalsHaveOwners
  <2>7. SeesOwnInputs'
    <3>0. Top' = Top
      BY <1>1 DEF Top
    <3>1. ASSUME frames # <<>> PROVE Top.plain \cup Top.objects \subseteq GlobalNames
      <4>1. frames[Len(frames)] \in RunFrames
        BY <1>0, <3>1 DEF HostTypeOK
      <4> QED BY <4>1 DEF Top, RunFrames
    <3>2. ASSUME frames # <<>>, ~Top.nested
          PROVE  \A g \in Top.plain \cup Top.objects : luaGlobals'[g] \in {Top.run, Host, Nil}
      <4> TAKE g \in Top.plain \cup Top.objects
      <4>1. luaGlobals[g] \in {Top.run, Host, Nil} /\ g \in GlobalNames
        BY <3>1, <3>2 DEF HostInv, SeesOwnInputs
      <4> QED BY <1>1, <2>1, <4>1
    <3> QED BY <1>1, <3>0, <3>2 DEF HostInv, SeesOwnInputs
  <2> QED BY <2>3, <2>4, <2>5, <2>6, <2>7 DEF HostInv
<1>2. CASE \E kind \in RunKinds, plain, objects \in SUBSET GlobalNames, timed \in BOOLEAN :
             Enter(kind, plain, objects, timed)
  BY <1>2, EnterKeeps
<1>3. CASE Leave
  BY <1>3, LeaveKeeps
<1>4. CASE LeaveByError \/ HookRaises
  BY <1>4, LeaveByErrorKeeps DEF HookRaises
<1>5. CASE \E g \in GlobalNames : SetGlobal(g)
  <2>1. PICK g \in GlobalNames : SetGlobal(g)
    BY <1>5
  <2>2. {g} \in SUBSET GlobalNames /\ Host \in {Host, Nil} /\ tracked' \subseteq GlobalNames
    BY <1>0, <2>1 DEF SetGlobal, HostTypeOK
  <2> QED BY <1>1, <2>1, <2>2 DEF SetGlobal
<1>6. CASE ClearGlobals
  <2>1. tracked \in SUBSET GlobalNames /\ Nil \in {Host, Nil} /\ tracked' \subseteq GlobalNames
    BY <1>0, <1>6 DEF ClearGlobals, HostTypeOK
  <2> QED BY <1>1, <1>6, <2>1 DEF ClearGlobals
<1>7. CASE Expire
  <2>1. PICK i \in DOMAIN frames : frames[i].timed /\ expired' = expired \cup {frames[i].run}
    BY <1>7 DEF Expire
  <2>2. UNCHANGED <<luaGlobals, tracked, frames, context, deadline, ended>>
    BY <1>7 DEF Expire
  <2>3. RunsNest /\ frames \in Seq(RunFrames) /\ frames[i] \in RunFrames
    BY <1>0, <2>1 DEF HostInv, HostTypeOK
  <2>4. HostTypeOK'
    <3>1. frames[i].run \in 1 .. MaxRuns
      BY <2>3 DEF RunFrames
    <3> QED BY <1>0, <2>1, <2>2, <3>1 DEF HostTypeOK
  <2>5. RunsNest'
    <3>1. \A j \in DOMAIN frames : frames[j].run = frames[i].run => j = i
      <4> SUFFICES ASSUME NEW j \in DOMAIN frames, frames[j].run = frames[i].run, j # i
                   PROVE  FALSE
        OBVIOUS
      <4>1. i \in Nat /\ j \in Nat /\ frames[j] \in RunFrames
        BY <2>1, <2>3
      <4>2. frames[i].run \in Nat /\ frames[j].run \in Nat
        BY <2>3, <4>1, HostAssumption DEF RunFrames
      <4>3. i < j \/ j < i
        BY <4>1
      <4>4. i < j => frames[i].run < frames[j].run
        BY <2>1, <2>3 DEF RunsNest
      <4>5. j < i => frames[j].run < frames[i].run
        BY <2>1, <2>3 DEF RunsNest
      <4> QED BY <4>2, <4>3, <4>4, <4>5
    <3>2. \A j \in DOMAIN frames : frames[j].run \in expired' => frames[j].timed
      BY <2>1, <2>3, <3>1 DEF RunsNest
    <3> QED BY <2>2, <2>3, <3>2 DEF RunsNest
  <2>6. (expired \subseteq DOMAIN ended)'
    BY <2>1, <2>2, <2>3 DEF HostInv, RunsNest
  <2>7. DeadlinesNest' /\ GlobalsHaveOwners' /\ SeesOwnInputs' /\ OverdueNeverSucceeds'
    BY <2>2 DEF HostInv, DeadlinesNest, InnermostOf, GlobalsHaveOwners, SeesOwnInputs, Top,
         OverdueNeverSucceeds
  <2> QED BY <2>4, <2>5, <2>6, <2>7 DEF HostInv
<1>8. CASE UNCHANGED hostVars
  <2>1. UNCHANGED <<luaGlobals, tracked, frames, context, deadline, expired, ended>>
    BY <1>8 DEF hostVars
  <2> QED BY <2>1 DEF HostInv, HostTypeOK, RunsNest, DeadlinesNest, InnermostOf, GlobalsHaveOwners,
             SeesOwnInputs, Top, OverdueNeverSucceeds
<1> QED BY <1>2, <1>3, <1>4, <1>5, <1>6, <1>7, <1>8 DEF HostNext

LEMMA HostInvImplies == HostInv => RunsDoNotMix
<1> SUFFICES ASSUME HostInv PROVE RunsDoNotMix
  OBVIOUS
<1>1. DeadlineIsInnermost
  <2>1. DOMAIN frames = 1 .. Len(frames)
    BY DEF HostInv, HostTypeOK
  <2> QED BY <2>1 DEF HostInv, DeadlinesNest, InnermostOf, DeadlineIsInnermost, TimedRuns
<1>2. LeftoversOnlyFromFailures
  BY DEF HostInv, GlobalsHaveOwners, LeftoversOnlyFromFailures, Running
<1> QED BY <1>1, <1>2 DEF HostInv, RunsDoNotMix

(* Scripts that run one after the other or inside one another, to any depth, *)
(* with or without deadlines and whatever their endings, do not mix: after a *)
(* nested run the hook looks at the caller's deadline again, no run that     *)
(* succeeded leaves a parameter behind, a script that called nothing has its *)
(* own context and parameters, and no overdue run succeeds.                  *)
THEOREM RunsStayApart == HostSpec => []RunsDoNotMix
<1>1. HostSpec => []HostInv
  BY HostInvInit, HostInvStep, PTL DEF HostSpec
<1> QED BY <1>1, HostInvImplies, PTL

(*****************************************************************************)
(* The sandbox of a state                                                    *)
(*****************************************************************************)

(* An entry's limit is within its ceiling. *)
EntryOK(e) ==
  /\ e.id = 0 => e = NoEntry
  /\ e.ceiling # 0 => e.memLimit # 0 /\ e.memLimit <= e.ceiling

(* The registry and the allocator of a state name the entry of its address,  *)
(* misused or not; of a state that is not, the hook it was opened with is in *)
(* the slot, or in the entry while the sandbox has the slot.                 *)
StateOK(s, e, open, bad) ==
  /\ ~open => s = ClosedState
  /\ s.registry # 0 => s.registry = e.id
  /\ s.alloc = s.registry
  /\ s.registry # 0 => s.grown <= e.memUsed
  /\ (s.registry # 0 /\ e.ceiling # 0) => e.memUsed <= e.ceiling
  /\ (open /\ ~bad) =>
       IF s.registry = 0 THEN s.hook = s.own
       ELSE e.chained = s.own /\ (s.hook = "sandbox" \/ (s.hook = "none" /\ s.own = "none"))

SandboxInv ==
  /\ SandboxTypeOK
  /\ \A a \in Addresses : EntryOK(entries[a]) /\ StateOK(lua[a], entries[a], a \in isOpen, a \in misused)

LEMMA SandboxInvInit == SandboxInit => SandboxInv
<1> SUFFICES ASSUME SandboxInit PROVE SandboxInv
  OBVIOUS
<1> USE SandboxAssumption DEF SandboxInit
<1>1. ClosedState \in LuaStates /\ NoEntry \in StateEntries
  BY DEF ClosedState, LuaStates, NoEntry, StateEntries, Hooks
<1>2. SandboxTypeOK
  <2>1. guards \in Seq(SandboxGuards)
    OBVIOUS
  <2> QED BY <1>1, <2>1 DEF SandboxTypeOK
<1>3. \A a \in Addresses : EntryOK(entries[a])
  BY DEF EntryOK, NoEntry
<1>4. \A a \in Addresses : StateOK(lua[a], entries[a], a \in isOpen, a \in misused)
  BY DEF StateOK, ClosedState
<1> QED BY <1>2, <1>3, <1>4 DEF SandboxInv

(* A step at one address is looked at there. *)
LEMMA StepAt ==
  ASSUME SandboxInv, NEW a \in Addresses, SandboxTypeOK',
         \A b \in Addresses : b # a =>
           /\ lua'[b] = lua[b] /\ entries'[b] = entries[b]
           /\ (b \in isOpen' <=> b \in isOpen) /\ (b \in misused' <=> b \in misused),
         EntryOK(entries'[a]), StateOK(lua'[a], entries'[a], a \in isOpen', a \in misused')
  PROVE  SandboxInv'
BY DEF SandboxInv, EntryOK, StateOK

LEMMA ApplyKeeps ==
  ASSUME SandboxInv, NEW a \in Addresses, ApplySandbox(a), guards' \in Seq(SandboxGuards),
         UNCHANGED <<isOpen, opened, enabled, maxMemory, misused>>
  PROVE  SandboxInv'
<1> USE SandboxAssumption
<1>0. SandboxTypeOK /\ EntryOK(entries[a]) /\ a \in isOpen /\ nextEntry <= MaxOpened
      /\ StateOK(lua[a], entries[a], a \in isOpen, a \in misused)
  BY DEF SandboxInv, ApplySandbox
<1>1. lua[a] \in LuaStates /\ entries[a] \in StateEntries /\ nextEntry \in 1 .. MaxOpened
      /\ maxMemory \in Nat
  BY <1>0 DEF SandboxTypeOK
<1>2. CASE UNCHANGED <<lua, entries, nextEntry>>
  BY <1>0, <1>2 DEF SandboxInv, SandboxTypeOK, EntryOK, StateOK
<1>3. CASE Applied(a) /\ ~(IsSandboxed(a) /\ ~IsStale(a))
  <2> DEFINE e == [id |-> nextEntry, memUsed |-> 0, memLimit |-> maxMemory,
                   ceiling |-> maxMemory, chained |-> Chained(a)]
             s == [lua[a] EXCEPT !.registry = nextEntry, !.hook = "sandbox",
                                 !.alloc = nextEntry, !.grown = 0]
  <2>1. entries' = [entries EXCEPT ![a] = e] /\ lua' = [lua EXCEPT ![a] = s]
        /\ nextEntry' = nextEntry + 1
    BY <1>0, <1>1, <1>3 DEF Applied, SandboxTypeOK
  <2>2. Chained(a) \in Hooks
    BY <1>1 DEF Chained, LuaStates, Hooks
  <2>3. e \in StateEntries
    BY <1>1, <2>2 DEF StateEntries
  <2>4. s \in LuaStates
    <3>1. "sandbox" \in Hooks \cup {"sandbox"} /\ nextEntry \in 0 .. MaxOpened /\ 0 \in Int
      BY <1>1
    <3> QED BY <1>1, <3>1 DEF LuaStates
  <2>5. EntryOK(e)
    BY <1>1 DEF EntryOK
  <2>6. lua[a].registry = 0
    BY <1>0, <1>1, <1>3 DEF StateOK, IsSandboxed, IsStale, NoEntry, EntryOK, LuaStates, StateEntries
  <2>7. a \notin misused => Chained(a) = lua[a].own
    BY <1>0, <1>1, <2>6 DEF Chained, StateOK, LuaStates, Hooks
  <2>8. s.registry = nextEntry /\ s.alloc = nextEntry /\ s.grown = 0 /\ s.hook = "sandbox"
        /\ s.own = lua[a].own /\ e.id = nextEntry /\ e.memUsed = 0 /\ e.ceiling = maxMemory
        /\ e.chained = Chained(a)
    BY <1>1 DEF LuaStates
  <2> HIDE DEF s, e
  <2>9. StateOK(s, e, a \in isOpen, a \in misused)
    BY <1>0, <1>1, <2>7, <2>8 DEF StateOK
  <2>10. SandboxTypeOK'
    BY <1>0, <1>1, <2>1, <2>3, <2>4 DEF SandboxTypeOK
  <2>11. lua'[a] = s /\ entries'[a] = e
         /\ \A b \in Addresses : b # a => lua'[b] = lua[b] /\ entries'[b] = entries[b]
    BY <1>0, <2>1 DEF SandboxTypeOK
  <2> QED BY <2>5, <2>9, <2>10, <2>11, StepAt
<1> QED BY <1>2, <1>3 DEF ApplySandbox

LEMMA RemoveKeeps ==
  ASSUME SandboxInv, NEW a \in Addresses, RemoveSandbox(a), guards' \in Seq(SandboxGuards),
         UNCHANGED <<isOpen, opened, nextEntry, enabled, maxMemory>>
  PROVE  SandboxInv'
<1> USE SandboxAssumption
<1>0. SandboxTypeOK /\ EntryOK(entries[a]) /\ a \in isOpen
      /\ StateOK(lua[a], entries[a], a \in isOpen, a \in misused)
  BY DEF SandboxInv, RemoveSandbox
<1>1. lua[a] \in LuaStates /\ entries[a] \in StateEntries
  BY <1>0 DEF SandboxTypeOK
<1>2. CASE UNCHANGED <<lua, entries, misused>>
  BY <1>0, <1>2 DEF SandboxInv, SandboxTypeOK, EntryOK, StateOK
<1>3. CASE IsSandboxed(a)
  <2> DEFINE s == [lua[a] EXCEPT !.hook = Restored(a), !.registry = 0, !.alloc = 0]
  <2>1. entries' = [entries EXCEPT ![a] = NoEntry] /\ lua' = [lua EXCEPT ![a] = s]
        /\ misused' = IF IsStale(a) THEN misused \cup {a} ELSE misused
    BY <1>0, <1>3 DEF RemoveSandbox, SandboxTypeOK
  <2>2. Restored(a) \in Hooks
    BY <1>1 DEF Restored, StateEntries
  <2>3. s \in LuaStates
    <3>1. Restored(a) \in Hooks \cup {"sandbox"} /\ 0 \in 0 .. MaxOpened
      BY <2>2
    <3> QED BY <1>1, <3>1 DEF LuaStates
  <2>4. NoEntry \in StateEntries /\ EntryOK(NoEntry)
    BY DEF NoEntry, StateEntries, EntryOK, Hooks
  <2>5. a \notin misused' => Restored(a) = lua[a].own
    <3>1. SUFFICES ASSUME a \notin misused' PROVE Restored(a) = lua[a].own
      OBVIOUS
    <3>2. ~IsStale(a) /\ a \notin misused
      BY <2>1, <3>1
    <3>3. lua[a].registry = entries[a].id /\ entries[a].id # 0
      BY <1>0, <1>3, <3>2 DEF IsStale, IsSandboxed, EntryOK
    <3> QED BY <1>0, <3>2, <3>3 DEF StateOK, Restored
  <2>6. s.registry = 0 /\ s.alloc = 0 /\ s.hook = Restored(a) /\ s.own = lua[a].own
    BY <1>1 DEF LuaStates
  <2> HIDE DEF s
  <2>7. StateOK(s, NoEntry, a \in isOpen', a \in misused')
    BY <1>0, <2>5, <2>6 DEF StateOK
  <2>8. SandboxTypeOK'
    BY <1>0, <2>1, <2>3, <2>4 DEF SandboxTypeOK
  <2>9. lua'[a] = s /\ entries'[a] = NoEntry
         /\ \A b \in Addresses : b # a => /\ lua'[b] = lua[b] /\ entries'[b] = entries[b]
                                          /\ b \in misused' <=> b \in misused
    BY <1>0, <2>1 DEF SandboxTypeOK
  <2> QED BY <2>4, <2>7, <2>8, <2>9, StepAt
<1> QED BY <1>2, <1>3 DEF RemoveSandbox

LEMMA AllocKeeps ==
  ASSUME SandboxInv, NEW a \in Addresses, NEW isNew \in BOOLEAN, NEW old \in BlockSizes,
         NEW new \in BlockSizes \cup {0}, AllocAt(a, isNew, old, new)
  PROVE  SandboxInv'
<1> USE SandboxAssumption
<1>0. SandboxTypeOK /\ EntryOK(entries[a]) /\ a \in isOpen
      /\ StateOK(lua[a], entries[a], a \in isOpen, a \in misused)
      /\ lua[a].alloc # 0 /\ lua[a].alloc = entries[a].id
      /\ UNCHANGED <<isOpen, opened, nextEntry, enabled, maxMemory, guards, misused>>
  BY DEF SandboxInv, AllocAt
<1>1. lua[a] \in LuaStates /\ entries[a] \in StateEntries
  BY <1>0 DEF SandboxTypeOK
<1> DEFINE freed == Freed(isNew, old)
           used == (IF freed <= entries[a].memUsed THEN entries[a].memUsed - freed ELSE 0) + new
           grown == lua[a].grown + new - IF isNew THEN 0 ELSE old
           e == [entries[a] EXCEPT !.memUsed = used]
           s == [lua[a] EXCEPT !.grown = grown]
<1>2. /\ new = 0 \/ entries[a].memLimit = 0 \/ used <= entries[a].memLimit
      /\ entries' = [entries EXCEPT ![a] = e] /\ lua' = [lua EXCEPT ![a] = s]
  BY <1>0 DEF AllocAt, SandboxTypeOK
<1>3. /\ freed \in Nat /\ new \in Nat /\ entries[a].memUsed \in Nat /\ lua[a].grown \in Int
      /\ entries[a].memLimit \in Nat /\ entries[a].ceiling \in Nat
  BY <1>1 DEF Freed, StateEntries, LuaStates
<1>4. grown = lua[a].grown + new - freed
  BY DEF Freed
<1>5. used \in Nat /\ grown \in Int
  BY <1>3, <1>4
<1>6. lua[a].grown <= entries[a].memUsed => grown <= used
  <2> HIDE DEF freed, grown
  <2> QED BY <1>3, <1>4, <1>5
<1>7. entries[a].ceiling # 0 /\ entries[a].memUsed <= entries[a].ceiling
        => used <= entries[a].ceiling
  <2>1. entries[a].ceiling # 0 => entries[a].memLimit # 0 /\ entries[a].memLimit <= entries[a].ceiling
    BY <1>0 DEF EntryOK
  <2> HIDE DEF freed
  <2> QED BY <1>2, <1>3, <1>5, <2>1
<1> HIDE DEF freed, used, grown
<1>8. e \in StateEntries /\ s \in LuaStates
  BY <1>1, <1>5 DEF StateEntries, LuaStates
<1>9. /\ e.id = entries[a].id /\ e.memUsed = used /\ e.memLimit = entries[a].memLimit
      /\ e.ceiling = entries[a].ceiling /\ e.chained = entries[a].chained
      /\ s.own = lua[a].own /\ s.hook = lua[a].hook /\ s.alloc = lua[a].alloc
      /\ s.registry = lua[a].registry /\ s.grown = grown
  BY <1>1 DEF StateEntries, LuaStates
<1> HIDE DEF e, s
<1>10. entries[a].id # 0
  BY <1>0
<1>11. EntryOK(e)
  BY <1>0, <1>9, <1>10 DEF EntryOK
<1>12. StateOK(s, e, a \in isOpen, a \in misused)
  <2>1. s.registry # 0 => s.grown <= e.memUsed
    BY <1>0, <1>6, <1>9 DEF StateOK
  <2>2. (s.registry # 0 /\ e.ceiling # 0) => e.memUsed <= e.ceiling
    BY <1>0, <1>7, <1>9 DEF StateOK
  <2> QED BY <1>0, <1>9, <2>1, <2>2 DEF StateOK
<1>13. SandboxTypeOK'
  BY <1>0, <1>2, <1>8 DEF SandboxTypeOK
<1>14. lua'[a] = s /\ entries'[a] = e
       /\ \A b \in Addresses : b # a => lua'[b] = lua[b] /\ entries'[b] = entries[b]
  BY <1>0, <1>2 DEF SandboxTypeOK
<1> QED BY <1>0, <1>11, <1>12, <1>13, <1>14, StepAt

LEMMA OpenKeeps ==
  ASSUME SandboxInv, NEW a \in Addresses, NEW own \in Hooks, OpenState(a, own)
  PROVE  SandboxInv'
<1> USE SandboxAssumption
<1> DEFINE s == [ClosedState EXCEPT !.own = own, !.hook = own]
<1>0. SandboxTypeOK /\ EntryOK(entries[a])
      /\ UNCHANGED <<entries, nextEntry, enabled, maxMemory, guards>>
      /\ lua' = [lua EXCEPT ![a] = s] /\ isOpen' = isOpen \cup {a}
      /\ misused' = misused \ {a} /\ opened' = opened + 1 /\ opened < MaxOpened
  BY DEF SandboxInv, OpenState
<1>1. s.own = own /\ s.hook = own /\ s.alloc = 0 /\ s.registry = 0 /\ s.grown = 0
  BY DEF ClosedState
<1>2. s \in LuaStates
  <2>1. ClosedState \in LuaStates
    BY DEF LuaStates, ClosedState, Hooks
  <2>2. own \in Hooks \cup {"sandbox"}
    OBVIOUS
  <2> QED BY <2>1, <2>2 DEF LuaStates
<1> HIDE DEF s
<1>3. StateOK(s, entries[a], a \in isOpen', a \in misused')
  BY <1>0, <1>1 DEF StateOK
<1>4. SandboxTypeOK'
  BY <1>0, <1>2 DEF SandboxTypeOK
<1>5. lua'[a] = s /\ entries'[a] = entries[a]
      /\ \A b \in Addresses : b # a =>
           /\ lua'[b] = lua[b] /\ entries'[b] = entries[b]
           /\ (b \in isOpen' <=> b \in isOpen) /\ (b \in misused' <=> b \in misused)
  BY <1>0 DEF SandboxTypeOK
<1> QED BY <1>0, <1>3, <1>4, <1>5, StepAt

LEMMA CloseKeeps ==
  ASSUME SandboxInv, NEW a \in Addresses, CloseState(a)
  PROVE  SandboxInv'
<1> USE SandboxAssumption
<1>0. SandboxTypeOK /\ EntryOK(entries[a])
      /\ UNCHANGED <<entries, opened, nextEntry, enabled, maxMemory, guards, misused>>
      /\ lua' = [lua EXCEPT ![a] = ClosedState] /\ isOpen' = isOpen \ {a}
  BY DEF SandboxInv, CloseState
<1>1. ClosedState \in LuaStates
  BY DEF LuaStates, ClosedState, Hooks
<1>2. StateOK(ClosedState, entries[a], a \in isOpen', a \in misused')
  BY <1>0 DEF StateOK, ClosedState
<1>3. SandboxTypeOK'
  BY <1>0, <1>1 DEF SandboxTypeOK
<1>4. lua'[a] = ClosedState /\ entries'[a] = entries[a]
      /\ \A b \in Addresses : b # a =>
           /\ lua'[b] = lua[b] /\ entries'[b] = entries[b]
           /\ (b \in isOpen' <=> b \in isOpen) /\ (b \in misused' <=> b \in misused)
  BY <1>0 DEF SandboxTypeOK
<1> QED BY <1>0, <1>2, <1>3, <1>4, StepAt

LEMMA MemoryLimitKeeps ==
  ASSUME SandboxInv, NEW a \in Addresses, NEW limit \in MemoryLimits, SetMemoryLimit(a, limit)
  PROVE  SandboxInv'
<1> USE SandboxAssumption
<1> DEFINE ceiling == Ceiling(entries[a].ceiling, limit)
           e == [entries[a] EXCEPT !.memLimit = limit, !.ceiling = ceiling]
<1>0. SandboxTypeOK /\ EntryOK(entries[a]) /\ IsSandboxed(a)
      /\ StateOK(lua[a], entries[a], a \in isOpen, a \in misused)
      /\ UNCHANGED <<lua, isOpen, opened, nextEntry, enabled, maxMemory, guards, misused>>
      /\ entries[a] \in StateEntries
  BY DEF SandboxInv, SetMemoryLimit, SandboxTypeOK
<1>1. entries' = [entries EXCEPT ![a] = e]
  BY <1>0 DEF SetMemoryLimit, SandboxTypeOK
<1>2. limit \in Nat /\ entries[a].ceiling \in Nat /\ entries[a].memUsed \in Nat
  BY <1>0 DEF StateEntries
<1>3. /\ ceiling \in Nat
      /\ ceiling # 0 => limit # 0 /\ limit <= ceiling
      /\ ceiling # 0 => entries[a].ceiling # 0 /\ entries[a].ceiling <= ceiling
  BY <1>2 DEF Ceiling
<1> HIDE DEF ceiling
<1>4. e \in StateEntries
  BY <1>0, <1>2, <1>3 DEF StateEntries
<1>5. /\ e.id = entries[a].id /\ e.memUsed = entries[a].memUsed /\ e.memLimit = limit
      /\ e.ceiling = ceiling /\ e.chained = entries[a].chained
  BY <1>0 DEF StateEntries
<1> HIDE DEF e
<1>6. EntryOK(e)
  BY <1>0, <1>3, <1>5 DEF EntryOK, IsSandboxed
<1>7. StateOK(lua[a], e, a \in isOpen, a \in misused)
  <2>1. (lua[a].registry # 0 /\ e.ceiling # 0) => e.memUsed <= e.ceiling
    <3>1. (lua[a].registry # 0 /\ entries[a].ceiling # 0) => entries[a].memUsed <= entries[a].ceiling
      BY <1>0 DEF StateOK
    <3> QED BY <1>2, <1>3, <1>5, <3>1
  <2> QED BY <1>0, <1>5, <2>1 DEF StateOK
<1>8. SandboxTypeOK'
  BY <1>0, <1>1, <1>4 DEF SandboxTypeOK
<1>9. entries'[a] = e /\ \A b \in Addresses : b # a => entries'[b] = entries[b]
  BY <1>0, <1>1 DEF SandboxTypeOK
<1> QED BY <1>0, <1>6, <1>7, <1>8, <1>9, StepAt

LEMMA InstructionLimitKeeps ==
  ASSUME SandboxInv, NEW a \in Addresses, NEW unlimited \in BOOLEAN,
         SetInstructionLimit(a, unlimited)
  PROVE  SandboxInv'
<1> USE SandboxAssumption
<1> DEFINE chained == IF entries[a].chained = "none" THEN Chained(a) ELSE entries[a].chained
           hook == IF unlimited /\ chained = "none" THEN "none" ELSE "sandbox"
           e == [entries[a] EXCEPT !.chained = chained]
           s == [lua[a] EXCEPT !.hook = hook]
<1>0. SandboxTypeOK /\ EntryOK(entries[a]) /\ IsSandboxed(a) /\ a \in isOpen
      /\ StateOK(lua[a], entries[a], a \in isOpen, a \in misused)
      /\ UNCHANGED <<isOpen, opened, nextEntry, enabled, maxMemory, guards>>
      /\ entries[a] \in StateEntries /\ lua[a] \in LuaStates
      /\ misused' = IF IsStale(a) THEN misused \cup {a} ELSE misused
  BY DEF SandboxInv, SetInstructionLimit, SandboxTypeOK
<1>1. entries' = [entries EXCEPT ![a] = e] /\ lua' = [lua EXCEPT ![a] = s]
  BY <1>0 DEF SetInstructionLimit, SandboxTypeOK
<1>2. entries[a].chained \in Hooks /\ lua[a].hook \in Hooks \cup {"sandbox"}
  BY <1>0 DEF StateEntries, LuaStates
<1>3. chained \in Hooks /\ hook \in Hooks \cup {"sandbox"}
  BY <1>2 DEF Chained, Hooks
<1>4. ASSUME a \notin misused'
      PROVE  lua[a].registry # 0 /\ chained = lua[a].own
             /\ (hook = "sandbox" \/ (hook = "none" /\ lua[a].own = "none"))
  <2>1. a \notin misused /\ lua[a].registry = entries[a].id
    BY <1>0, <1>4 DEF IsStale
  <2>2. lua[a].registry # 0
    BY <1>0, <2>1 DEF EntryOK, IsSandboxed
  <2>3. entries[a].chained = lua[a].own
        /\ (lua[a].hook = "sandbox" \/ (lua[a].hook = "none" /\ lua[a].own = "none"))
    BY <1>0, <2>1, <2>2 DEF StateOK
  <2>4. chained = lua[a].own
    BY <2>3 DEF Chained
  <2> HIDE DEF chained
  <2> QED BY <2>2, <2>4
<1> HIDE DEF chained, hook
<1>5. e \in StateEntries /\ s \in LuaStates
  BY <1>0, <1>3 DEF StateEntries, LuaStates
<1>6. /\ e.id = entries[a].id /\ e.memUsed = entries[a].memUsed
      /\ e.memLimit = entries[a].memLimit /\ e.ceiling = entries[a].ceiling /\ e.chained = chained
      /\ s.own = lua[a].own /\ s.hook = hook /\ s.alloc = lua[a].alloc
      /\ s.registry = lua[a].registry /\ s.grown = lua[a].grown
  BY <1>0 DEF StateEntries, LuaStates
<1> HIDE DEF e, s
<1>7. EntryOK(e)
  BY <1>0, <1>6 DEF EntryOK, IsSandboxed
<1>8. StateOK(s, e, a \in isOpen', a \in misused')
  BY <1>0, <1>4, <1>6 DEF StateOK
<1>9. SandboxTypeOK'
  BY <1>0, <1>1, <1>5 DEF SandboxTypeOK
<1>10. lua'[a] = s /\ entries'[a] = e
       /\ \A b \in Addresses : b # a => /\ lua'[b] = lua[b] /\ entries'[b] = entries[b]
                                        /\ b \in misused' <=> b \in misused
  BY <1>0, <1>1 DEF SandboxTypeOK
<1> QED BY <1>0, <1>7, <1>8, <1>9, <1>10, StepAt

LEMMA GuardKeeps ==
  ASSUME SandboxInv, (\E a \in Addresses : GuardEnters(a)) \/ GuardLeaves
  PROVE  SandboxInv'
<1>0. guards \in Seq(SandboxGuards)
  BY DEF SandboxInv, SandboxTypeOK
<1>1. ASSUME NEW a \in Addresses, GuardEnters(a) PROVE SandboxInv'
  <2> DEFINE g == [at |-> a, was |-> IsSandboxed(a)]
  <2>1. guards' = Append(guards, g) /\ UNCHANGED <<isOpen, opened, enabled, maxMemory, misused>>
    BY <1>1 DEF GuardEnters
  <2>2. g \in SandboxGuards
    BY DEF IsSandboxed, SandboxGuards
  <2> HIDE DEF g
  <2>3. guards' \in Seq(SandboxGuards)
    BY <1>0, <2>1, <2>2
  <2>4. CASE UNCHANGED <<lua, entries, nextEntry>>
    BY <2>1, <2>3, <2>4 DEF SandboxInv, SandboxTypeOK, EntryOK, StateOK
  <2>5. CASE ApplySandbox(a)
    BY <2>1, <2>3, <2>5, ApplyKeeps
  <2> QED BY <1>1, <2>4, <2>5 DEF GuardEnters
<1>2. ASSUME GuardLeaves PROVE SandboxInv'
  <2> DEFINE g == guards[Len(guards)]
  <2>1. guards # <<>> /\ guards' = SubSeq(guards, 1, Len(guards) - 1)
        /\ UNCHANGED <<isOpen, opened, nextEntry, enabled, maxMemory>>
    BY <1>2 DEF GuardLeaves
  <2>2. guards' \in Seq(SandboxGuards) /\ g \in SandboxGuards
    <3>1. Len(guards) \in Nat \ {0}
      BY <1>0, <2>1
    <3>2. g \in SandboxGuards
      BY <1>0, <3>1
    <3>3. \A i \in 1 .. Len(guards) - 1 : guards[i] \in SandboxGuards
      BY <1>0, <3>1
    <3> QED BY <2>1, <3>1, <3>2, <3>3
  <2>3. CASE UNCHANGED <<lua, entries, misused>>
    BY <2>1, <2>2, <2>3 DEF SandboxInv, SandboxTypeOK, EntryOK, StateOK
  <2>4. CASE RemoveSandbox(g.at)
    <3>1. g.at \in Addresses
      BY <2>2 DEF SandboxGuards
    <3> HIDE DEF g
    <3> QED BY <2>1, <2>2, <2>4, <3>1, RemoveKeeps
  <2> QED BY <1>2, <2>3, <2>4 DEF GuardLeaves
<1> QED BY <1>1, <1>2

LEMMA SandboxInvStep == SandboxInv /\ [SandboxNext]_sandboxVars => SandboxInv'
<1> SUFFICES ASSUME SandboxInv, [SandboxNext]_sandboxVars PROVE SandboxInv'
  OBVIOUS
<1>0. guards \in Seq(SandboxGuards)
  BY DEF SandboxInv, SandboxTypeOK
<1>1. ASSUME NEW a \in Addresses, \E own \in Hooks : OpenState(a, own) PROVE SandboxInv'
  BY <1>1, OpenKeeps
<1>2. ASSUME NEW a \in Addresses, CloseState(a) PROVE SandboxInv'
  BY <1>2, CloseKeeps
<1>3. ASSUME NEW a \in Addresses, SandboxState(a) PROVE SandboxInv'
  <2>1. ApplySandbox(a) /\ UNCHANGED <<isOpen, opened, enabled, maxMemory, guards, misused>>
    BY <1>3 DEF SandboxState
  <2> QED BY <1>0, <2>1, ApplyKeeps
<1>4. ASSUME NEW a \in Addresses, UnsandboxState(a) PROVE SandboxInv'
  <2>1. RemoveSandbox(a) /\ UNCHANGED <<isOpen, opened, nextEntry, enabled, maxMemory, guards>>
    BY <1>4 DEF UnsandboxState
  <2> QED BY <1>0, <2>1, RemoveKeeps
<1>5. CASE (\E a \in Addresses : GuardEnters(a)) \/ GuardLeaves
  BY <1>5, GuardKeeps
<1>6. ASSUME NEW a \in Addresses, \E limit \in MemoryLimits : SetMemoryLimit(a, limit)
      PROVE  SandboxInv'
  BY <1>6, MemoryLimitKeeps
<1>7. ASSUME NEW a \in Addresses, \E unlimited \in BOOLEAN : SetInstructionLimit(a, unlimited)
      PROVE  SandboxInv'
  BY <1>7, InstructionLimitKeeps
<1>8. ASSUME NEW a \in Addresses,
             \E isNew \in BOOLEAN, old \in BlockSizes, new \in BlockSizes \cup {0} :
               AllocAt(a, isNew, old, new)
      PROVE  SandboxInv'
  BY <1>8, AllocKeeps
<1>9. CASE \E on \in BOOLEAN, limit \in MemoryLimits : ConfigureSandbox(on, limit)
  BY <1>9 DEF ConfigureSandbox, SandboxInv, SandboxTypeOK, EntryOK, StateOK
<1>10. CASE UNCHANGED sandboxVars
  <2>1. UNCHANGED <<lua, isOpen, entries, opened, nextEntry, enabled, maxMemory, guards, misused>>
    BY <1>10 DEF sandboxVars
  <2> QED BY <2>1 DEF SandboxInv, SandboxTypeOK, EntryOK, StateOK
<1> QED BY <1>1, <1>2, <1>3, <1>4, <1>5, <1>6, <1>7, <1>8, <1>9, <1>10 DEF SandboxNext

LEMMA SandboxInvImplies == SandboxInv => LimitsStayInForce
<1> SUFFICES ASSUME SandboxInv PROVE LimitsStayInForce
  OBVIOUS
<1>1. \A a \in Addresses : lua[a] \in LuaStates
  BY DEF SandboxInv, SandboxTypeOK
<1>2. isOpen \subseteq Addresses
  BY DEF SandboxInv, SandboxTypeOK
<1>3. OwnHookKeepsRunning
  <2> SUFFICES ASSUME NEW a \in isOpen \ misused
               PROVE  lua[a].own \in HooksRun(a) /\ (lua[a].registry = 0 => lua[a].hook = lua[a].own)
    BY DEF OwnHookKeepsRunning
  <2>1. StateOK(lua[a], entries[a], TRUE, FALSE) /\ lua[a].own \in Hooks
    BY <1>1, <1>2 DEF SandboxInv, LuaStates, StateOK
  <2> QED BY <2>1 DEF StateOK, HooksRun, Hooks
<1>4. DataBelongsToState
  <2> SUFFICES ASSUME NEW a \in isOpen \ misused
               PROVE  /\ lua[a].registry # 0 => lua[a].registry = entries[a].id
                      /\ lua[a].alloc = lua[a].registry
                      /\ lua[a].hook = "sandbox" => lua[a].registry # 0
    BY DEF DataBelongsToState
  <2>1. StateOK(lua[a], entries[a], TRUE, FALSE) /\ lua[a].own \in Hooks
    BY <1>1, <1>2 DEF SandboxInv, LuaStates, StateOK
  <2> QED BY <2>1 DEF StateOK, Hooks
<1>5. GrowthIsCapped
  BY <1>2 DEF SandboxInv, StateOK, GrowthIsCapped
<1> QED BY <1>3, <1>4, <1>5 DEF SandboxInv, LimitsStayInForce

(* On any number of Lua states, opened and closed at addresses that are used *)
(* again, and through any order of sandboxes, guards and limits: the hook a  *)
(* state was opened with keeps running beside the sandbox's and alone after  *)
(* it, hook and allocator work with the entry of their own state, and no     *)
(* state grows past the highest limit it had.                                *)
THEOREM LimitsHold == SandboxSpec => []LimitsStayInForce
<1>1. SandboxSpec => []SandboxInv
  BY SandboxInvInit, SandboxInvStep, PTL DEF SandboxSpec
<1> QED BY <1>1, SandboxInvImplies, PTL

(***************************************************************************)
(* The types of an application in Lua.  That a script finds what was declared *)
(* needs that every bound method has a place of its own, which no rebinding *)
(* moves, and that a metatable has the fields of a type that had its name. *)
(***************************************************************************)

(* A name that only t has had, and a type whose names are its own and whose  *)
(* fields are accessed at their widths.                                      *)
OnlyOf(n, t) == \A u \in CppTypes \ {t} : n \notin named[u]
Plain(t) ==
  /\ \A f \in DOMAIN Layout[t] : Layout[t][f].cpp \in {"bool", "int", "double"}
  /\ \A u \in CppTypes \ {t} : named[t] \cap named[u] = {}

(* The declarations. *)
DeclarationsInv ==
  /\ DOMAIN types = CppTypes /\ DOMAIN declared = CppTypes /\ DOMAIN named = CppTypes
  /\ \A t \in CppTypes :
       /\ types[t].name \in BindNames \cup {Nothing} /\ types[t].fields \subseteq DOMAIN Layout[t]
       /\ DOMAIN types[t].methods \subseteq Methods /\ declared[t] = types[t].methods
       /\ types[t].name # Nothing => types[t].name \in named[t]

(* Bound methods are at places of their own, which are those in use, and a   *)
(* metatable points to the methods of its name.                              *)
PlacesInv ==
  /\ \A k, l \in DOMAIN boundMethods : boundMethods[k] = boundMethods[l] => k = l
  /\ DOMAIN heap = {boundMethods[k] : k \in DOMAIN boundMethods}
  /\ DOMAIN metatables = BindNames
  /\ \A n \in BindNames :
       /\ DOMAIN metatables[n].methods \subseteq Methods
       /\ \A m \in DOMAIN metatables[n].methods :
            <<n, m>> \in DOMAIN boundMethods /\ metatables[n].methods[m] = boundMethods[<<n, m>>]
  /\ \A k \in kept : k.key \in DOMAIN boundMethods /\ boundMethods[k.key] = k.at

(* The fields in a metatable are those of a type that has had its name. *)
TablesInv ==
  \A n \in BindNames : \A f \in DOMAIN metatables[n].fields :
    \E t \in CppTypes :
      /\ n \in named[t] /\ f \in DOMAIN Layout[t]
      /\ metatables[n].fields[f] =
           [offset |-> Layout[t][f].offset, luaType |-> GetLuaType(Layout[t][f].cpp)]

(* Unless something was declared since, a type's metatable is complete. *)
CompleteInv ==
  ~fresh => \A t \in CppTypes : types[t].name # Nothing /\ OnlyOf(types[t].name, t) =>
    LET mt == metatables[types[t].name] IN
      /\ mt.indexed /\ types[t].fields \subseteq DOMAIN mt.fields
      /\ \A m \in DOMAIN types[t].methods :
           m \in DOMAIN mt.methods /\ heap[mt.methods[m]] = types[t].methods[m]

(* The object has a name of its type, and every field holds what was stored. *)
ObjectInv ==
  object # Nothing =>
    object.type \in CppTypes /\ object.mt \in BindNames /\ object.mt \in named[object.type]
MemoryInv ==
  /\ DOMAIN memory = CppTypes /\ DOMAIN stored = CppTypes
  /\ \A t \in CppTypes :
       /\ DOMAIN memory[t] = Memory /\ DOMAIN stored[t] = DOMAIN Layout[t]
       /\ Plain(t) => \A f \in DOMAIN Layout[t] :
            Fetch(memory[t], Layout[t][f].offset, Cells(Layout[t][f].cpp)) = stored[t][f]

(* The inductive invariant of the types. *)
BindingInv ==
  /\ DeclarationsInv /\ PlacesInv /\ TablesInv /\ CompleteInv /\ ObjectInv /\ MemoryInv

(* The same of any methods, places and metatables that bindTypes is given. *)
PlacesOK(bound, objects, tables) ==
  /\ \A k, l \in DOMAIN bound : bound[k] = bound[l] => k = l
  /\ DOMAIN objects = {bound[k] : k \in DOMAIN bound}
  /\ \A n \in BindNames :
       /\ DOMAIN tables[n].methods \subseteq Methods
       /\ \A m \in DOMAIN tables[n].methods :
            <<n, m>> \in DOMAIN bound /\ tables[n].methods[m] = bound[<<n, m>>]
FieldsOK(tables) ==
  \A n \in BindNames : \A f \in DOMAIN tables[n].fields :
    \E t \in CppTypes :
      /\ n \in named[t] /\ f \in DOMAIN Layout[t]
      /\ tables[n].fields[f] =
           [offset |-> Layout[t][f].offset, luaType |-> GetLuaType(Layout[t][f].cpp)]

(* Some type is the last. *)
LEMMA LastIsOne ==
  ASSUME NEW S \in SUBSET NamedTypes, S # {},
         NEW later \in Injection(NamedTypes, 1 .. Cardinality(NamedTypes))
  PROVE  LastOf(S, later) \in S
<1>1. IsFiniteSet(NamedTypes) /\ Cardinality(NamedTypes) \in Nat
  BY BindingAssumption, FS_Subset, FS_CardinalityType DEF NamedTypes
<1>2. later \in [NamedTypes -> 1 .. Cardinality(NamedTypes)]
  BY DEF Injection
<1>3. \A t \in S : later[t] \in Nat
  BY <1>1, <1>2
<1> DEFINE T == {later[t] : t \in S}
<1>4. T \in SUBSET Nat /\ T # {}
  BY <1>3
<1> HIDE DEF T
<1>5. PICK i \in T : \A j \in T : ~(<<j, i>> \in OpToRel(<, Nat))
  BY <1>4, NatLessThanWellFounded, WFMin
<1>6. PICK t \in S : i = later[t]
  BY DEF T
<1>7. \A u \in S : later[t] <= later[u]
  <2> SUFFICES ASSUME NEW u \in S PROVE later[t] <= later[u]
    OBVIOUS
  <2>1. later[u] \in T /\ later[u] \in Nat /\ later[t] \in Nat
    BY <1>3 DEF T
  <2>2. ~(later[u] < later[t])
    BY <1>5, <1>6, <2>1 DEF OpToRel
  <2> QED BY <2>1, <2>2
<1> QED BY <1>7 DEF LastOf

(* bindTypes leaves every bound method at its place and finds places of      *)
(* their own for the others; metatables lead to them and to fields of types  *)
(* of their name; and the metatable of a name that one type has is complete. *)
LEMMA BindKeepsPlaces ==
  ASSUME DeclarationsInv, NEW bound, NEW objects, NEW tables, Bind(bound, objects, tables),
         PlacesOK(bound, objects, tables), FieldsOK(tables)
  PROVE  /\ PlacesOK(boundMethods', heap', metatables') /\ DOMAIN metatables' = BindNames
         /\ FieldsOK(metatables')
         /\ \A k \in DOMAIN bound : k \in DOMAIN boundMethods' /\ boundMethods'[k] = bound[k]
         /\ \A t \in CppTypes : types[t].name # Nothing /\ OnlyOf(types[t].name, t) =>
              LET mt == metatables'[types[t].name] IN
                /\ mt.indexed /\ types[t].fields \subseteq DOMAIN mt.fields
                /\ \A m \in DOMAIN types[t].methods :
                     m \in DOMAIN mt.methods /\ heap'[mt.methods[m]] = types[t].methods[m]
<1> DEFINE new == MethodKeys \ DOMAIN bound
<1>1. PICK later \in Injection(NamedTypes, 1 .. Cardinality(NamedTypes)),
           free \in Injection(new, FreePlaces(DOMAIN objects, new)) :
        /\ boundMethods' = [key \in DOMAIN bound \cup MethodKeys |-> Address(bound, free, key)]
        /\ heap' = [a \in Range(boundMethods') |->
             LET key == KeyAt(boundMethods', a) IN
               IF key \in MethodKeys THEN Invoker(key, later) ELSE objects[a]]
        /\ metatables' = [n \in BindNames |->
             IF TypesNamed(n) = {} THEN tables[n]
             ELSE Metatable(n, tables[n], boundMethods', later)]
  BY DEF Bind
<1> DEFINE b == boundMethods'
<1>2. /\ DOMAIN b = DOMAIN bound \cup MethodKeys
      /\ \A k \in DOMAIN bound : b[k] = bound[k]
      /\ \A k \in new : b[k] = free[k]
  BY <1>1 DEF Address
<1>3. /\ \A k, l \in new : free[k] = free[l] => k = l
      /\ \A k \in new : free[k] \notin DOMAIN objects
  BY DEF Injection, IsInjective, FreePlaces
<1>4. \A k, l \in DOMAIN b : b[k] = b[l] => k = l
  <2> SUFFICES ASSUME NEW k \in DOMAIN b, NEW l \in DOMAIN b, b[k] = b[l] PROVE k = l
    OBVIOUS
  <2>1. \A j \in DOMAIN bound : bound[j] \in DOMAIN objects
    BY DEF PlacesOK
  <2>2. k \in DOMAIN bound \/ k \in new
    BY <1>2
  <2>3. l \in DOMAIN bound \/ l \in new
    BY <1>2
  <2> HIDE DEF b, new
  <2>4. CASE k \in DOMAIN bound /\ l \in DOMAIN bound
    BY <2>4, <1>2 DEF PlacesOK
  <2>5. CASE k \in DOMAIN bound /\ l \in new
    BY <2>1, <2>5, <1>2, <1>3
  <2>6. CASE k \in new /\ l \in DOMAIN bound
    BY <2>1, <2>6, <1>2, <1>3
  <2>7. CASE k \in new /\ l \in new
    BY <2>7, <1>2, <1>3
  <2> QED BY <2>2, <2>3, <2>4, <2>5, <2>6, <2>7
<1>5. /\ DOMAIN heap' = {b[k] : k \in DOMAIN b}
      /\ \A k \in DOMAIN b : k \in MethodKeys => heap'[b[k]] = Invoker(k, later)
  <2>1. Range(b) = {b[k] : k \in DOMAIN b}
    BY DEF Range
  <2>2. DOMAIN heap' = Range(b)
    BY <1>1
  <2>3. ASSUME NEW k \in DOMAIN b, k \in MethodKeys PROVE heap'[b[k]] = Invoker(k, later)
    <3>1. b[k] \in Range(b)
      BY <2>1
    <3>2. KeyAt(b, b[k]) = k
      BY <1>4 DEF KeyAt
    <3>3. heap'[b[k]] = IF KeyAt(b, b[k]) \in MethodKeys THEN Invoker(KeyAt(b, b[k]), later)
                        ELSE objects[b[k]]
      BY <1>1, <3>1
    <3> QED BY <2>3, <3>2, <3>3
  <2> QED BY <2>1, <2>2, <2>3
<1>6. \A n \in BindNames : TypesNamed(n) \in SUBSET NamedTypes
  BY BindingAssumption DEF TypesNamed, NamedTypes
<1>7. \A n \in BindNames : TypesNamed(n) # {} => LastOf(TypesNamed(n), later) \in TypesNamed(n)
  BY <1>6, LastIsOne
<1>8. ASSUME NEW n \in BindNames
      PROVE  /\ TypesNamed(n) = {} => metatables'[n] = tables[n]
             /\ TypesNamed(n) # {} =>
                  /\ metatables'[n].indexed
                  /\ metatables'[n].fields = FieldTable(LastOf(TypesNamed(n), later))
                  /\ DOMAIN metatables'[n].methods =
                       DOMAIN tables[n].methods \cup {m \in Methods : <<n, m>> \in MethodKeys}
                  /\ \A m \in DOMAIN metatables'[n].methods :
                       metatables'[n].methods[m] =
                         IF <<n, m>> \in MethodKeys THEN b[<<n, m>>] ELSE tables[n].methods[m]
  <2>1. metatables'[n] = IF TypesNamed(n) = {} THEN tables[n] ELSE Metatable(n, tables[n], b, later)
    BY <1>1
  <2> HIDE DEF b
  <2> QED BY <2>1 DEF Metatable
<1>9. DOMAIN metatables' = BindNames
  BY <1>1
<1> HIDE DEF b, new
<1>10. ASSUME NEW n \in BindNames
       PROVE  /\ DOMAIN metatables'[n].methods \subseteq Methods
              /\ \A m \in DOMAIN metatables'[n].methods :
                   <<n, m>> \in DOMAIN b /\ metatables'[n].methods[m] = b[<<n, m>>]
  <2>1. CASE TypesNamed(n) = {}
    BY <2>1, <1>2, <1>8 DEF PlacesOK
  <2>2. CASE TypesNamed(n) # {}
    <3>1. /\ DOMAIN metatables'[n].methods =
              DOMAIN tables[n].methods \cup {m \in Methods : <<n, m>> \in MethodKeys}
          /\ \A m \in DOMAIN metatables'[n].methods :
               metatables'[n].methods[m] =
                 IF <<n, m>> \in MethodKeys THEN b[<<n, m>>] ELSE tables[n].methods[m]
      BY <2>2, <1>8
    <3>2. /\ DOMAIN tables[n].methods \subseteq Methods
          /\ \A m \in DOMAIN tables[n].methods :
               <<n, m>> \in DOMAIN bound /\ tables[n].methods[m] = bound[<<n, m>>]
      BY DEF PlacesOK
    <3>3. DOMAIN metatables'[n].methods \subseteq Methods
      BY <3>1, <3>2
    <3>4. ASSUME NEW m \in DOMAIN metatables'[n].methods
          PROVE  <<n, m>> \in DOMAIN b /\ metatables'[n].methods[m] = b[<<n, m>>]
      <4>1. CASE <<n, m>> \in MethodKeys
        BY <4>1, <3>1, <1>2
      <4>2. CASE <<n, m>> \notin MethodKeys
        <5>1. m \in DOMAIN tables[n].methods
          BY <4>2, <3>1
        <5>2. metatables'[n].methods[m] = tables[n].methods[m]
          BY <4>2, <3>1
        <5> QED BY <5>1, <5>2, <3>2, <1>2
      <4> QED BY <4>1, <4>2
    <3> QED BY <3>3, <3>4
  <2> QED BY <2>1, <2>2
<1>11. PlacesOK(boundMethods', heap', metatables')
  BY <1>4, <1>5, <1>10 DEF PlacesOK, b
<1>12. FieldsOK(metatables')
  <2> SUFFICES ASSUME NEW n \in BindNames, NEW f \in DOMAIN metatables'[n].fields
               PROVE  \E t \in CppTypes :
                        /\ n \in named[t] /\ f \in DOMAIN Layout[t]
                        /\ metatables'[n].fields[f] =
                             [offset |-> Layout[t][f].offset, luaType |-> GetLuaType(Layout[t][f].cpp)]
    BY DEF FieldsOK
  <2>1. CASE TypesNamed(n) = {}
    BY <2>1, <1>8 DEF FieldsOK
  <2>2. CASE TypesNamed(n) # {}
    <3> DEFINE t == LastOf(TypesNamed(n), later)
    <3>1. t \in CppTypes /\ types[t].name = n
      BY <2>2, <1>7 DEF TypesNamed
    <3>2. metatables'[n].fields = FieldTable(t)
      BY <2>2, <1>8
    <3> HIDE DEF t
    <3>3. n \in named[t] /\ types[t].fields \subseteq DOMAIN Layout[t]
      BY <3>1, BindingAssumption DEF DeclarationsInv
    <3>4. f \in types[t].fields /\ metatables'[n].fields[f] =
            [offset |-> Layout[t][f].offset, luaType |-> GetLuaType(Layout[t][f].cpp)]
      BY <3>2 DEF FieldTable
    <3> QED BY <3>1, <3>3, <3>4
  <2> QED BY <2>1, <2>2
<1>13. ASSUME NEW t \in CppTypes, types[t].name # Nothing, OnlyOf(types[t].name, t)
       PROVE  LET mt == metatables'[types[t].name] IN
                /\ mt.indexed /\ types[t].fields \subseteq DOMAIN mt.fields
                /\ \A m \in DOMAIN types[t].methods :
                     m \in DOMAIN mt.methods /\ heap'[mt.methods[m]] = types[t].methods[m]
  <2> DEFINE n == types[t].name
  <2>1. n \in BindNames
    BY <1>13 DEF DeclarationsInv
  <2>2. TypesNamed(n) = {t}
    <3>1. \A u \in CppTypes : types[u].name = n => u = t
      BY <1>13 DEF DeclarationsInv, OnlyOf
    <3> QED BY <3>1 DEF TypesNamed
  <2>3. LastOf(TypesNamed(n), later) = t
    BY <2>1, <2>2, <1>7
  <2> HIDE DEF n
  <2>4. metatables'[n].indexed /\ DOMAIN metatables'[n].fields = types[t].fields
    BY <2>1, <2>2, <2>3, <1>8 DEF FieldTable
  <2>5. ASSUME NEW m \in DOMAIN types[t].methods
        PROVE  m \in DOMAIN metatables'[n].methods /\ heap'[metatables'[n].methods[m]] = types[t].methods[m]
    <3> DEFINE key == <<n, m>>
    <3>1. m \in Methods /\ key[1] = n /\ key[2] = m /\ key \in BindNames \X Methods
      BY <2>1 DEF DeclarationsInv
    <3> HIDE DEF key
    <3>2. WithMethod(key) = {t}
      BY <2>2, <3>1 DEF WithMethod
    <3>3. key \in MethodKeys
      BY <3>1, <3>2 DEF MethodKeys
    <3>4. LastOf(WithMethod(key), later) = t
      <4>1. WithMethod(key) \in SUBSET NamedTypes
        BY <1>13, <3>2 DEF NamedTypes
      <4> QED BY <3>2, <4>1, LastIsOne
    <3>5. Invoker(key, later) = types[t].methods[m]
      BY <3>1, <3>4 DEF Invoker
    <3>6. m \in DOMAIN metatables'[n].methods /\ metatables'[n].methods[m] = b[key]
      BY <2>1, <2>2, <3>1, <3>3, <1>8 DEF key
    <3>7. key \in DOMAIN b
      BY <3>3, <1>2
    <3> QED BY <3>3, <3>5, <3>6, <3>7, <1>5
  <2> QED BY <2>4, <2>5 DEF n
<1> QED BY <1>2, <1>9, <1>11, <1>12, <1>13 DEF b

(* A value put where a field is, is fetched there. *)
LEMMA PutFetch ==
  ASSUME NEW mem, DOMAIN mem = Memory, NEW o \in Nat, NEW w \in {1, 2, 4}, NEW v,
         o .. o + w - 1 \subseteq Memory
  PROVE  Fetch(Put(mem, o, w, v), o, w) = v
<1> DEFINE put == Put(mem, o, w, v)
<1>1. \A c \in Memory : put[c] = IF c \in o .. o + w - 1
                                   THEN [v |-> v, part |-> c - o, width |-> w] ELSE mem[c]
  BY DEF Put
<1> HIDE DEF put
<1>2. ASSUME NEW i \in 0 .. w - 1 PROVE put[o + i] = [v |-> v, part |-> i, width |-> w]
  <2>1. o + i \in o .. o + w - 1 /\ (o + i) - o = i
    OBVIOUS
  <2>2. o + i \in Memory
    BY <2>1
  <2> QED BY <2>1, <2>2, <1>1
<1>3. put[o].v = v
  <2>1. 0 \in 0 .. w - 1 /\ o + 0 = o
    OBVIOUS
  <2>2. put[o] = [v |-> v, part |-> 0, width |-> w]
    BY <1>2, <2>1
  <2> QED BY <2>2
<1>4. Fetch(put, o, w) = v
  BY <1>2, <1>3 DEF Fetch
<1> QED BY <1>4 DEF put

(* The cells from o on, and the widths there are. *)
Span(o, w) == o .. o + w - 1
Widths == {1, 2, 4}

(* A field apart from it does not see it. *)
LEMMA PutElsewhere ==
  ASSUME NEW mem, DOMAIN mem = Memory, NEW o \in Nat, NEW w \in Widths, NEW v,
         NEW p \in Nat, NEW x \in Widths, Span(p, x) \subseteq Memory,
         Span(o, w) \cap Span(p, x) = {}
  PROVE  Fetch(Put(mem, o, w, v), p, x) = Fetch(mem, p, x)
<1> DEFINE put == Put(mem, o, w, v)
<1>1. \A c \in Memory : c \notin Span(o, w) => put[c] = mem[c]
  BY DEF Put, Span
<1>2. \A c \in Span(p, x) : put[c] = mem[c]
  BY <1>1
<1> HIDE DEF put
<1>3. p \in Span(p, x) /\ \A i \in 0 .. x - 1 : p + i \in Span(p, x)
  BY DEF Span, Widths
<1>4. put[p] = mem[p] /\ \A i \in 0 .. x - 1 : put[p + i] = mem[p + i]
  BY <1>2, <1>3
<1>5. Fetch(put, p, x) = Fetch(mem, p, x)
  BY <1>4 DEF Fetch
<1> QED BY <1>5 DEF put

(* Fields are where Layout says, at their widths. *)
LEMMA WidthsOf ==
  ASSUME NEW t \in CppTypes, NEW f \in DOMAIN Layout[t]
  PROVE  /\ Cells(Layout[t][f].cpp) \in {1, 2, 4} /\ Layout[t][f].offset \in Nat
         /\ CellsOf(Layout[t][f]) \subseteq Memory
         /\ CellsOf(Layout[t][f]) =
              Layout[t][f].offset .. Layout[t][f].offset + Cells(Layout[t][f].cpp) - 1
         /\ \A g \in DOMAIN Layout[t] \ {f} : CellsOf(Layout[t][f]) \cap CellsOf(Layout[t][g]) = {}
         /\ Layout[t][f].cpp \in {"bool", "int", "double"} =>
              AccessCells(GetLuaType(Layout[t][f].cpp)) = Cells(Layout[t][f].cpp)
<1>1. Layout[t][f].cpp \in {"bool", "char", "short", "int", "float", "long", "double"}
  BY BindingAssumption
<1>2. Layout[t][f].offset \in Nat /\ CellsOf(Layout[t][f]) \subseteq Memory
  BY BindingAssumption
<1>3. \A g \in DOMAIN Layout[t] \ {f} : CellsOf(Layout[t][f]) \cap CellsOf(Layout[t][g]) = {}
  BY BindingAssumption
<1>4. Cells(Layout[t][f].cpp) \in {1, 2, 4}
  BY <1>1 DEF Cells
<1>5. Layout[t][f].cpp \in {"bool", "int", "double"} =>
        AccessCells(GetLuaType(Layout[t][f].cpp)) = Cells(Layout[t][f].cpp)
  BY DEF AccessCells, GetLuaType, Cells
<1> QED BY <1>2, <1>3, <1>4, <1>5 DEF CellsOf

(* The types as they begin. *)
LEMMA BindingInvInit == BindingInit => BindingInv
<1> SUFFICES ASSUME BindingInit PROVE BindingInv
  OBVIOUS
<1> USE DEF BindingInit
<1>1. DeclarationsInv
  BY DEF DeclarationsInv, Unregistered, NoMethods
<1>2. PlacesInv
  BY DEF PlacesInv, NoMethods, EmptyMetatable
<1>3. TablesInv
  BY DEF TablesInv, NoMethods, EmptyMetatable
<1>4. CompleteInv
  BY DEF CompleteInv, Unregistered
<1>5. ObjectInv
  BY DEF ObjectInv
<1>6. ASSUME NEW t \in CppTypes, NEW f \in DOMAIN Layout[t]
      PROVE  Fetch(memory[t], Layout[t][f].offset, Cells(Layout[t][f].cpp)) = stored[t][f]
  <2>1. stored[t][f] = Nothing
    OBVIOUS
  <2>2. Layout[t][f].offset \in Memory
    <3>1. ASSUME NEW o \in Nat, NEW w \in {1, 2, 4} PROVE o \in o .. o + w - 1
      OBVIOUS
    <3> DEFINE o == Layout[t][f].offset
               w == Cells(Layout[t][f].cpp)
    <3>2. o \in Nat /\ w \in {1, 2, 4} /\ CellsOf(Layout[t][f]) = o .. o + w - 1
      BY WidthsOf
    <3> HIDE DEF o, w
    <3>3. o \in CellsOf(Layout[t][f])
      BY <3>1, <3>2
    <3> QED BY <3>3, WidthsOf DEF o
  <2>3. memory[t][Layout[t][f].offset].v = Nothing
    BY <2>2
  <2> QED BY <2>1, <2>3 DEF Fetch
<1>7. MemoryInv
  BY <1>6 DEF MemoryInv
<1> QED BY <1>1, <1>2, <1>3, <1>4, <1>5, <1>7 DEF BindingInv

(* A declaration puts methods and fields into the registry only. *)
LEMMA DeclarationStep ==
  ASSUME BindingInv, NEW t \in CppTypes, NEW n \in BindNames, DeclarationsInv',
         named' = [named EXCEPT ![t] = @ \cup {n}], fresh', UNCHANGED registryOnly
  PROVE  BindingInv'
<1>1. UNCHANGED <<metatables, boundMethods, heap, kept, object, memory, stored>>
  BY DEF registryOnly
<1>2. \A u \in CppTypes : named[u] \subseteq named'[u]
  BY DEF BindingInv, DeclarationsInv
<1>3. PlacesInv'
  BY <1>1 DEF BindingInv, PlacesInv
<1>4. TablesInv'
  BY <1>1, <1>2 DEF BindingInv, TablesInv
<1>5. CompleteInv'
  BY DEF CompleteInv
<1>6. ObjectInv'
  BY <1>1, <1>2 DEF BindingInv, ObjectInv
<1>7. \A u \in CppTypes : Plain(u)' => Plain(u)
  BY <1>2 DEF Plain
<1>8. MemoryInv'
  BY <1>1, <1>7 DEF BindingInv, MemoryInv
<1> QED BY <1>3, <1>4, <1>5, <1>6, <1>8 DEF BindingInv

(* A field is declared. *)
LEMMA FieldStep ==
  ASSUME BindingInv, NEW t \in CppTypes, NEW n \in BindNames, NEW f, BindField(t, n, f)
  PROVE  BindingInv'
<1>1. /\ f \in DOMAIN Layout[t] /\ UNCHANGED <<declared, registryOnly>> /\ fresh'
      /\ named' = [named EXCEPT ![t] = @ \cup {n}]
      /\ types' = [types EXCEPT ![t] =
           [name |-> n, fields |-> types[t].fields \cup {f}, methods |-> types[t].methods]]
  BY DEF BindField, Descriptor, Renamed
<1>2. DeclarationsInv
  BY DEF BindingInv
<1>3. /\ DOMAIN types' = CppTypes /\ \A u \in CppTypes \ {t} : types'[u] = types[u]
      /\ types'[t] = [name |-> n, fields |-> types[t].fields \cup {f}, methods |-> types[t].methods]
  BY <1>1, <1>2 DEF DeclarationsInv
<1>4. /\ DOMAIN named' = CppTypes /\ n \in named'[t]
      /\ \A u \in CppTypes : named[u] \subseteq named'[u]
  BY <1>1, <1>2 DEF DeclarationsInv
<1>5. ASSUME NEW u \in CppTypes
      PROVE  /\ types'[u].name \in BindNames \cup {Nothing} /\ types'[u].fields \subseteq DOMAIN Layout[u]
             /\ DOMAIN types'[u].methods \subseteq Methods /\ declared'[u] = types'[u].methods
             /\ types'[u].name # Nothing => types'[u].name \in named'[u]
  <2>1. CASE u = t
    BY <2>1, <1>1, <1>2, <1>3, <1>4 DEF DeclarationsInv
  <2>2. CASE u # t
    BY <2>2, <1>1, <1>2, <1>3, <1>4 DEF DeclarationsInv
  <2> QED BY <2>1, <2>2
<1>6. DeclarationsInv'
  BY <1>1, <1>2, <1>3, <1>4, <1>5 DEF DeclarationsInv
<1> QED BY <1>1, <1>6, DeclarationStep

(* A method is declared, or declared anew. *)
LEMMA MethodStep ==
  ASSUME BindingInv, NEW t \in CppTypes, NEW n \in BindNames, NEW m \in Methods, DeclareMethod(t, n, m)
  PROVE  BindingInv'
<1> DEFINE methods == MapInsert(types[t].methods, m, invokers')
<1>1. /\ UNCHANGED registryOnly /\ fresh'
      /\ named' = [named EXCEPT ![t] = @ \cup {n}]
      /\ types' = [types EXCEPT ![t] = [name |-> n, fields |-> types[t].fields, methods |-> methods]]
      /\ declared' = [declared EXCEPT ![t] = MapInsert(@, m, invokers')]
  BY DEF DeclareMethod, Descriptor, Renamed
<1>2. DeclarationsInv
  BY DEF BindingInv
<1>3. declared[t] = types[t].methods /\ DOMAIN types[t].methods \subseteq Methods
  BY <1>2 DEF DeclarationsInv
<1>4. DOMAIN methods \subseteq Methods
  BY <1>3 DEF MapInsert
<1>5. declared' = [declared EXCEPT ![t] = methods]
  BY <1>1, <1>3
<1> HIDE DEF methods
<1>6. /\ DOMAIN types' = CppTypes /\ \A u \in CppTypes \ {t} : types'[u] = types[u]
      /\ types'[t] = [name |-> n, fields |-> types[t].fields, methods |-> methods]
      /\ DOMAIN declared' = CppTypes /\ \A u \in CppTypes \ {t} : declared'[u] = declared[u]
      /\ declared'[t] = methods
  BY <1>1, <1>2, <1>5 DEF DeclarationsInv
<1>7. /\ DOMAIN named' = CppTypes /\ n \in named'[t]
      /\ \A u \in CppTypes : named[u] \subseteq named'[u]
  BY <1>1, <1>2 DEF DeclarationsInv
<1>8. ASSUME NEW u \in CppTypes
       PROVE  /\ types'[u].name \in BindNames \cup {Nothing} /\ types'[u].fields \subseteq DOMAIN Layout[u]
              /\ DOMAIN types'[u].methods \subseteq Methods /\ declared'[u] = types'[u].methods
              /\ types'[u].name # Nothing => types'[u].name \in named'[u]
  <2>1. CASE u = t
    BY <2>1, <1>2, <1>4, <1>6, <1>7 DEF DeclarationsInv
  <2>2. CASE u # t
    BY <2>2, <1>2, <1>6, <1>7 DEF DeclarationsInv
  <2> QED BY <2>1, <2>2
<1>9. DeclarationsInv'
  BY <1>6, <1>7, <1>8 DEF DeclarationsInv
<1> QED BY <1>1, <1>9, DeclarationStep

(* What binding leaves alone, and what it leaves of the rest. *)
LEMMA BoundStep ==
  ASSUME BindingInv, NEW bound, NEW objects, NEW tables, Bind(bound, objects, tables),
         PlacesOK(bound, objects, tables), FieldsOK(tables),
         UNCHANGED <<types, declared, named, memory, stored>>,
         object' \in {object, Nothing},
         \A k \in kept' : k.key \in DOMAIN bound /\ bound[k.key] = k.at
  PROVE  BindingInv'
<1> USE DEF BindingInv
<1>1. /\ PlacesOK(boundMethods', heap', metatables') /\ DOMAIN metatables' = BindNames
      /\ FieldsOK(metatables')
      /\ \A k \in DOMAIN bound : k \in DOMAIN boundMethods' /\ boundMethods'[k] = bound[k]
      /\ \A t \in CppTypes : types[t].name # Nothing /\ OnlyOf(types[t].name, t) =>
           LET mt == metatables'[types[t].name] IN
             /\ mt.indexed /\ types[t].fields \subseteq DOMAIN mt.fields
             /\ \A m \in DOMAIN types[t].methods :
                  m \in DOMAIN mt.methods /\ heap'[mt.methods[m]] = types[t].methods[m]
  BY BindKeepsPlaces
<1>2. DeclarationsInv'
  BY DEF DeclarationsInv
<1>3. PlacesInv'
  <2>1. \A k \in kept' : k.key \in DOMAIN boundMethods' /\ boundMethods'[k.key] = k.at
    BY <1>1
  <2> QED BY <1>1, <2>1 DEF PlacesInv, PlacesOK
<1>4. TablesInv'
  BY <1>1 DEF TablesInv, FieldsOK
<1>5. CompleteInv'
  <2>1. \A n, t : OnlyOf(n, t)' <=> OnlyOf(n, t)
    BY DEF OnlyOf
  <2> QED BY <1>1, <2>1 DEF CompleteInv
<1>6. ObjectInv'
  BY DEF ObjectInv
<1>7. \A t : Plain(t)' <=> Plain(t)
  BY DEF Plain
<1>8. MemoryInv'
  BY <1>7 DEF MemoryInv
<1> QED BY <1>2, <1>3, <1>4, <1>5, <1>6, <1>8

(* bindTypes, on what is bound, and resetState, on nothing. *)
LEMMA BindTypesStep == BindingInv /\ BindTypes => BindingInv'
<1> SUFFICES ASSUME BindingInv, BindTypes PROVE BindingInv'
  OBVIOUS
<1>1. PlacesOK(boundMethods, heap, metatables) /\ FieldsOK(metatables)
  BY DEF BindingInv, PlacesInv, PlacesOK, TablesInv, FieldsOK
<1>2. \A k \in kept' : k.key \in DOMAIN boundMethods /\ boundMethods[k.key] = k.at
  BY DEF BindingInv, PlacesInv, BindTypes
<1>3. Bind(boundMethods, heap, metatables) /\ UNCHANGED <<types, declared, named, memory, stored, object>>
  BY DEF BindTypes
<1> QED BY <1>1, <1>2, <1>3, BoundStep

LEMMA ResetTypesStep == BindingInv /\ ResetTypes => BindingInv'
<1> SUFFICES ASSUME BindingInv, ResetTypes PROVE BindingInv'
  OBVIOUS
<1> DEFINE tables == [n \in BindNames |-> EmptyMetatable]
<1>1. PlacesOK(NoMethods, NoMethods, tables) /\ FieldsOK(tables)
  BY DEF PlacesOK, FieldsOK, NoMethods, EmptyMetatable
<1>2. kept' = {} /\ object' = Nothing /\ UNCHANGED <<types, declared, named, memory, stored>>
  BY DEF ResetTypes
<1>3. Bind(NoMethods, NoMethods, tables)
  BY DEF ResetTypes
<1> HIDE DEF tables
<1> QED BY <1>1, <1>2, <1>3, BoundStep

(* The object gets the name its type has now. *)
LEMMA SetObjectStep ==
  ASSUME BindingInv, NEW t \in CppTypes, SetObject(t)
  PROVE  BindingInv'
<1> USE DEF BindingInv
<1>1. /\ types[t].name # Nothing /\ object' = [type |-> t, mt |-> types[t].name]
      /\ UNCHANGED <<types, declared, named, metatables, boundMethods, heap, kept, memory, stored, fresh>>
  BY DEF SetObject
<1>2. DeclarationsInv'
  BY <1>1 DEF DeclarationsInv
<1>3. PlacesInv'
  BY <1>1 DEF PlacesInv
<1>4. TablesInv'
  BY <1>1 DEF TablesInv
<1>5. CompleteInv'
  BY <1>1 DEF CompleteInv, OnlyOf
<1>6. ObjectInv'
  BY <1>1 DEF ObjectInv, DeclarationsInv
<1>7. MemoryInv'
  BY <1>1 DEF MemoryInv, Plain
<1> QED BY <1>2, <1>3, <1>4, <1>5, <1>6, <1>7

(* A script keeps a method that its metatable led to. *)
LEMMA KeepMethodStep ==
  ASSUME BindingInv, NEW m \in Methods, KeepMethod(m)
  PROVE  BindingInv'
<1> USE DEF BindingInv
<1> DEFINE new == [key |-> <<object.mt, m>>, at |-> metatables[object.mt].methods[m]]
<1>1. /\ object # Nothing /\ LookupKey(m) = "method" /\ kept' = kept \cup {new}
      /\ UNCHANGED <<types, declared, named, metatables, boundMethods, heap, object, memory, stored, fresh>>
  BY DEF KeepMethod
<1>2. object.mt \in BindNames
  BY <1>1 DEF ObjectInv
<1>3. m \in DOMAIN metatables[object.mt].methods
  BY <1>1 DEF LookupKey
<1>4. new.key \in DOMAIN boundMethods /\ boundMethods[new.key] = new.at
  BY <1>2, <1>3 DEF PlacesInv
<1> HIDE DEF new
<1>5. DeclarationsInv'
  BY <1>1 DEF DeclarationsInv
<1>6. PlacesInv'
  BY <1>1, <1>4 DEF PlacesInv
<1>7. TablesInv'
  BY <1>1 DEF TablesInv
<1>8. CompleteInv'
  BY <1>1 DEF CompleteInv, OnlyOf
<1>9. ObjectInv'
  BY <1>1 DEF ObjectInv
<1>10. MemoryInv'
  BY <1>1 DEF MemoryInv, Plain
<1> QED BY <1>5, <1>6, <1>7, <1>8, <1>9, <1>10

(* A value is stored at the place and the width of its field, or in an       *)
(* object of a type of which nothing is promised.                            *)
LEMMA StoreStep ==
  ASSUME BindingInv, NEW t \in CppTypes, NEW f \in DOMAIN Layout[t], NEW o, NEW w, NEW v,
         Store(t, f, o, w, v),
         Plain(t) => o = Layout[t][f].offset /\ w = Cells(Layout[t][f].cpp)
  PROVE  BindingInv'
<1> USE DEF BindingInv
<1>1. /\ memory' = [memory EXCEPT ![t] = Put(memory[t], o, w, v)]
      /\ stored' = [stored EXCEPT ![t][f] = v]
      /\ UNCHANGED <<types, declared, named, metatables, boundMethods, heap, kept, object, fresh>>
  BY DEF Store
<1>2. DeclarationsInv'
  BY <1>1 DEF DeclarationsInv
<1>3. PlacesInv'
  BY <1>1 DEF PlacesInv
<1>4. TablesInv'
  BY <1>1 DEF TablesInv
<1>5. CompleteInv'
  BY <1>1 DEF CompleteInv, OnlyOf
<1>6. ObjectInv'
  BY <1>1 DEF ObjectInv
<1>7. \A u : Plain(u)' <=> Plain(u)
  BY <1>1 DEF Plain
<1>8. /\ DOMAIN memory' = CppTypes /\ DOMAIN stored' = CppTypes
      /\ memory'[t] = Put(memory[t], o, w, v) /\ DOMAIN memory[t] = Memory
      /\ DOMAIN stored'[t] = DOMAIN Layout[t] /\ stored'[t][f] = v
      /\ \A g \in DOMAIN Layout[t] \ {f} : stored'[t][g] = stored[t][g]
      /\ \A u \in CppTypes \ {t} : memory'[u] = memory[u] /\ stored'[u] = stored[u]
  BY <1>1 DEF MemoryInv
<1>9. DOMAIN memory'[t] = Memory
  BY <1>8 DEF Put
<1>10. ASSUME Plain(t), NEW g \in DOMAIN Layout[t]
       PROVE  Fetch(memory'[t], Layout[t][g].offset, Cells(Layout[t][g].cpp)) = stored'[t][g]
  <2> DEFINE p == Layout[t][g].offset
             x == Cells(Layout[t][g].cpp)
  <2>1. o \in Nat /\ w \in {1, 2, 4} /\ o .. o + w - 1 \subseteq Memory /\ CellsOf(Layout[t][f]) = o .. o + w - 1
    BY <1>10, WidthsOf
  <2>2. p \in Nat /\ x \in {1, 2, 4} /\ p .. p + x - 1 \subseteq Memory /\ CellsOf(Layout[t][g]) = p .. p + x - 1
    BY WidthsOf
  <2>3. CASE g = f
    BY <2>1, <2>3, <1>8, <1>10, PutFetch
  <2>4. CASE g # f
    <3>1. (o .. o + w - 1) \cap (p .. p + x - 1) = {}
      BY <2>1, <2>2, <2>4, WidthsOf
    <3>2. Fetch(memory[t], p, x) = stored[t][g]
      BY <1>10 DEF MemoryInv
    <3> HIDE DEF p, x
    <3>3. Fetch(Put(memory[t], o, w, v), p, x) = Fetch(memory[t], p, x)
      <4>1. DOMAIN memory[t] = Memory
        BY <1>8
      <4>2. o \in Nat /\ w \in Widths
        BY <2>1 DEF Widths
      <4>3. p \in Nat /\ x \in Widths /\ Span(p, x) \subseteq Memory
        BY <2>2 DEF Widths, Span
      <4>4. Span(o, w) \cap Span(p, x) = {}
        BY <3>1 DEF Span
      <4> QED BY ONLY <4>1, <4>2, <4>3, <4>4, PutElsewhere
    <3> QED BY <2>4, <3>2, <3>3, <1>8 DEF p, x
  <2> QED BY <2>3, <2>4
<1>11. ASSUME NEW u \in CppTypes
       PROVE  /\ DOMAIN memory'[u] = Memory /\ DOMAIN stored'[u] = DOMAIN Layout[u]
              /\ Plain(u) => \A g \in DOMAIN Layout[u] :
                   Fetch(memory'[u], Layout[u][g].offset, Cells(Layout[u][g].cpp)) = stored'[u][g]
  <2>1. CASE u = t
    BY <2>1, <1>8, <1>9, <1>10
  <2>2. CASE u # t
    BY <2>2, <1>8 DEF MemoryInv
  <2> QED BY <2>1, <2>2
<1>12. MemoryInv'
  BY <1>7, <1>8, <1>11 DEF MemoryInv
<1> QED BY <1>2, <1>3, <1>4, <1>5, <1>6, <1>12

(* A field in the metatable of an object is a field of its type, when no     *)
(* other type has had a name of it.                                          *)
LEMMA OwnField ==
  ASSUME BindingInv, object # Nothing, Plain(object.type),
         NEW f \in DOMAIN metatables[object.mt].fields
  PROVE  LET t == object.type
             info == metatables[object.mt].fields[f] IN
           /\ f \in DOMAIN Layout[t] /\ info.offset = Layout[t][f].offset
           /\ AccessCells(info.luaType) = Cells(Layout[t][f].cpp)
<1> DEFINE t == object.type
           n == object.mt
           info == metatables[n].fields[f]
<1>1. t \in CppTypes /\ n \in BindNames /\ n \in named[t]
  BY DEF BindingInv, ObjectInv
<1>2. PICK u \in CppTypes :
        /\ n \in named[u] /\ f \in DOMAIN Layout[u]
        /\ info = [offset |-> Layout[u][f].offset, luaType |-> GetLuaType(Layout[u][f].cpp)]
  BY <1>1 DEF BindingInv, TablesInv
<1>3. u = t
  BY <1>1, <1>2 DEF Plain
<1>4. info.offset = Layout[t][f].offset /\ info.luaType = GetLuaType(Layout[t][f].cpp)
  BY <1>2, <1>3
<1>5. Layout[t][f].cpp \in {"bool", "int", "double"}
  BY <1>2, <1>3 DEF Plain
<1> QED BY <1>1, <1>2, <1>3, <1>4, <1>5, WidthsOf

(* A script stores into a field. *)
LEMMA NewIndexStep ==
  ASSUME BindingInv, NEW f, NEW v, NewIndex(f, v)
  PROVE  BindingInv'
<1> DEFINE t == object.type
           info == metatables[object.mt].fields[f]
<1>1. /\ object # Nothing /\ f \in DOMAIN metatables[object.mt].fields /\ f \in DOMAIN Layout[t]
      /\ Store(t, f, info.offset, AccessCells(info.luaType), v)
  BY DEF NewIndex
<1>2. t \in CppTypes
  BY <1>1 DEF BindingInv, ObjectInv
<1>3. Plain(t) => info.offset = Layout[t][f].offset /\ AccessCells(info.luaType) = Cells(Layout[t][f].cpp)
  BY <1>1, OwnField
<1> HIDE DEF t, info
<1> QED BY <1>1, <1>2, <1>3, StoreStep

(* Every step keeps the invariant of the types. *)
LEMMA BindingInvStep == BindingInv /\ [BindingNext]_bindingVars => BindingInv'
<1> SUFFICES ASSUME BindingInv, [BindingNext]_bindingVars PROVE BindingInv'
  OBVIOUS
<1>1. ASSUME NEW t \in CppTypes, NEW n \in BindNames, NEW f \in DOMAIN Layout[t], BindField(t, n, f)
      PROVE  BindingInv'
  BY <1>1, FieldStep
<1>2. ASSUME NEW t \in CppTypes, NEW n \in BindNames, NEW m \in Methods, DeclareMethod(t, n, m)
      PROVE  BindingInv'
  BY <1>2, MethodStep
<1>3. ASSUME NEW t \in CppTypes, NEW f \in DOMAIN Layout[t], NEW v \in StoredValues, AssignInCpp(t, f, v)
      PROVE  BindingInv'
  BY <1>3, StoreStep DEF AssignInCpp
<1>4. ASSUME NEW t \in CppTypes, SetObject(t) PROVE BindingInv'
  BY <1>4, SetObjectStep
<1>5. CASE BindTypes
  BY <1>5, BindTypesStep
<1>6. CASE ResetTypes
  BY <1>6, ResetTypesStep
<1>7. ASSUME NEW m \in Methods, KeepMethod(m) PROVE BindingInv'
  BY <1>7, KeepMethodStep
<1>8. ASSUME NEW f, NEW v, NewIndex(f, v) PROVE BindingInv'
  BY <1>8, NewIndexStep
<1>9. CASE UNCHANGED bindingVars
  BY <1>9 DEF bindingVars, BindingInv, DeclarationsInv, PlacesInv, TablesInv, CompleteInv, ObjectInv,
              MemoryInv, OnlyOf, Plain
<1> QED BY <1>1, <1>2, <1>3, <1>4, <1>5, <1>6, <1>7, <1>8, <1>9 DEF BindingNext

(* The invariant says what is promised of declarations. *)
LEMMA BindingInvImplies == BindingInv => DeclarationsHold
<1> SUFFICES ASSUME BindingInv PROVE DeclarationsHold
  OBVIOUS
<1>1. BindingTypeOK
  BY DEF BindingInv, DeclarationsInv, ObjectInv, BindingTypeOK
<1>2. KeptMethodsAreAlive
  BY DEF BindingInv, PlacesInv, KeptMethodsAreAlive
<1>3. DeclarationsAddUp
  <2> DEFINE t == object.type
             n == object.mt
             mt == metatables[n]
  <2> SUFFICES ASSUME object # Nothing, ~fresh, types[t].name = n,
                      \A u \in CppTypes \ {t} : n \notin named[u]
               PROVE  /\ \A m \in DOMAIN declared[t] :
                           LookupKey(m) = "method" /\ heap[metatables[n].methods[m]] = declared[t][m]
                      /\ \A f \in types[t].fields : LookupKey(f) = "field"
    BY DEF DeclarationsAddUp
  <2>1. t \in CppTypes /\ n \in BindNames
    BY DEF BindingInv, ObjectInv
  <2>2. n # Nothing /\ OnlyOf(n, t)
    BY <2>1, BindingAssumption DEF OnlyOf
  <2>3. /\ mt.indexed /\ types[t].fields \subseteq DOMAIN mt.fields
        /\ \A m \in DOMAIN types[t].methods :
             m \in DOMAIN mt.methods /\ heap[mt.methods[m]] = types[t].methods[m]
    BY <2>1, <2>2 DEF BindingInv, CompleteInv
  <2>4. declared[t] = types[t].methods
    BY <2>1 DEF BindingInv, DeclarationsInv
  <2>5. ASSUME NEW f \in types[t].fields PROVE f \in DOMAIN mt.fields /\ f \notin DOMAIN mt.methods
    <3>1. f \in DOMAIN Layout[t]
      BY <2>1 DEF BindingInv, DeclarationsInv
    <3>2. f \notin Methods
      BY <2>1, <3>1, BindingAssumption
    <3>3. DOMAIN mt.methods \subseteq Methods
      BY <2>1 DEF BindingInv, PlacesInv
    <3> QED BY <2>3, <3>2, <3>3
  <2>6. \A m \in DOMAIN declared[t] : LookupKey(m) = "method"
    BY <2>3, <2>4 DEF LookupKey
  <2>7. \A f \in types[t].fields : LookupKey(f) = "field"
    BY <2>3, <2>5 DEF LookupKey
  <2> QED BY <2>3, <2>4, <2>6, <2>7
<1>4. ScriptsSeeTheObject
  <2> DEFINE t == object.type
  <2> SUFFICES ASSUME object # Nothing, Plain(t), NEW f \in DOMAIN metatables[object.mt].fields
               PROVE  ReadField(f) = stored[t][f]
    BY DEF ScriptsSeeTheObject, Plain
  <2>1. t \in CppTypes
    BY DEF BindingInv, ObjectInv
  <2>2. LET info == metatables[object.mt].fields[f] IN
          /\ f \in DOMAIN Layout[t] /\ info.offset = Layout[t][f].offset
          /\ AccessCells(info.luaType) = Cells(Layout[t][f].cpp)
    BY OwnField
  <2>3. ReadField(f) = Fetch(memory[t], Layout[t][f].offset, Cells(Layout[t][f].cpp))
    BY <2>2 DEF ReadField
  <2> QED BY <2>1, <2>2, <2>3 DEF BindingInv, MemoryInv
<1> QED BY <1>1, <1>2, <1>3, <1>4 DEF DeclarationsHold

(* Induction up to n, for a set of naturals. *)
LEMMA UpTo ==
  ASSUME NEW n \in Nat, NEW G, 0 \in G, \A k \in 1 .. n : k - 1 \in G => k \in G
  PROVE  \A k \in 0 .. n : k \in G
<1> DEFINE bad == {k \in 0 .. n : k \notin G}
<1> SUFFICES ASSUME bad # {} PROVE FALSE
  OBVIOUS
<1>1. bad \in SUBSET Nat
  OBVIOUS
<1>2. PICK m \in bad : \A k \in bad : ~(<<k, m>> \in OpToRel(<, Nat))
  BY <1>1, NatLessThanWellFounded, WFMin
<1>3. m \in 0 .. n /\ m # 0 /\ m \notin G
  BY <1>2
<1>4. m \in Nat /\ m - 1 \in Nat /\ m - 1 < m /\ m - 1 \in 0 .. n /\ m \in 1 .. n
  BY <1>3
<1>5. m - 1 \notin bad
  BY <1>2, <1>4 DEF OpToRel
<1> QED BY <1>3, <1>4, <1>5

(* Recursion over 0 .. n, with the step as a function: there is a result. *)
StepFunctions(n, T) == [(1 .. n) \X T -> T]
HasScan(T, b, n, g) ==
  \E w \in [0 .. n -> T] : w[0] = b /\ \A k \in 1 .. n : w[k] = g[<<k, w[k - 1]>>]

(* Such a recursion has a result, whatever the step is. *)
LEMMA ScanExists ==
  ASSUME NEW T, NEW b \in T, NEW n \in Nat, NEW g \in StepFunctions(n, T)
  PROVE  HasScan(T, b, n, g)
<1>0. g \in [(1 .. n) \X T -> T]
  BY DEF StepFunctions
<1> DEFINE Scan(m) == \E w \in [0 .. m -> T] : w[0] = b /\ \A k \in 1 .. m : w[k] = g[<<k, w[k - 1]>>]
           G == {m \in 0 .. n : Scan(m)}
<1>1. 0 \in G
  <2> DEFINE w == [k \in 0 .. 0 |-> b]
  <2>1. w \in [0 .. 0 -> T] /\ w[0] = b /\ \A k \in 1 .. 0 : w[k] = g[<<k, w[k - 1]>>]
    OBVIOUS
  <2> HIDE DEF w
  <2>2. Scan(0)
    BY <2>1
  <2> QED BY <2>2
<1>2. ASSUME NEW m \in 1 .. n, m - 1 \in G PROVE m \in G
  <2>1. PICK v \in [0 .. m - 1 -> T] : v[0] = b /\ \A k \in 1 .. m - 1 : v[k] = g[<<k, v[k - 1]>>]
    BY <1>2
  <2> DEFINE w == [k \in 0 .. m |-> IF k = m THEN g[<<m, v[m - 1]>>] ELSE v[k]]
  <2>2. m \in Nat /\ m # 0 /\ m - 1 \in 0 .. m - 1 /\ 0 \in 0 .. m - 1
    OBVIOUS
  <2>3. g[<<m, v[m - 1]>>] \in T
    BY <2>1, <2>2, <1>0
  <2>4. \A k \in 0 .. m : k = m \/ k \in 0 .. m - 1
    BY <2>2
  <2>5. w \in [0 .. m -> T]
    BY <2>1, <2>3, <2>4
  <2>6. w[0] = b
    BY <2>1, <2>2
  <2>7. ASSUME NEW k \in 1 .. m PROVE w[k] = g[<<k, w[k - 1]>>]
    <3>1. k - 1 \in 0 .. m /\ k - 1 # m /\ k \in 0 .. m
      BY <2>2
    <3>2. w[k - 1] = v[k - 1]
      BY <3>1
    <3>3. CASE k = m
      BY <3>1, <3>2, <3>3
    <3>4. CASE k # m
      <4>1. k \in 1 .. m - 1
        BY <3>4, <2>2
      <4> QED BY <3>1, <3>2, <3>4, <4>1, <2>1
    <3> QED BY <3>3, <3>4
  <2> HIDE DEF w
  <2>8. Scan(m)
    BY <2>5, <2>6, <2>7
  <2> QED BY <2>8
<1> HIDE DEF G
<1>3. n \in G
  BY <1>1, <1>2, UpTo
<1> QED BY <1>3 DEF G, HasScan

(***************************************************************************)
(* The C interface: the strings that carry parameters and results, and the *)
(* types registered for engines                                            *)
(***************************************************************************)

(* What parse_params has read of a parameter string. *)
FieldKeys == {Prefixed(f) : f \in FieldNames} \cup {Bare(f) : f \in FieldNames}
ParsedValues == {ParseValue(Trim(v)) : v \in Texts}
ParsedFields == [inFront : Int, key : FieldKeys, value : ParsedValues]
ReadStates == [found : Seq(ParsedFields), gap : Nat]

(* A field token has its key and its value; a semicolon is none. *)
LEMMA FieldTokenParts ==
  /\ \A x \in FieldTokens : x.key \in FieldKeys /\ x.value \in Texts
  /\ \A k \in FieldKeys : \A v \in Texts :
       /\ FieldToken(k, v) \in FieldTokens
       /\ FieldToken(k, v).key = k /\ FieldToken(k, v).value = v
  /\ Semicolon \notin FieldTokens /\ Semicolon \in Tokens /\ FieldTokens \subseteq Tokens
<1>1. ASSUME NEW x \in FieldTokens PROVE x.key \in FieldKeys /\ x.value \in Texts /\ x.kind = "field"
  <2>1. PICK k \in FieldKeys, v \in Texts : x = FieldToken(k, v)
    BY DEF FieldTokens, FieldKeys
  <2> QED BY <2>1 DEF FieldToken
<1>2. ASSUME NEW k \in FieldKeys, NEW v \in Texts
      PROVE  /\ FieldToken(k, v) \in FieldTokens
             /\ FieldToken(k, v).key = k /\ FieldToken(k, v).value = v
  <2>1. FieldToken(k, v) \in FieldTokens
    BY DEF FieldTokens, FieldKeys
  <2>2. FieldToken(k, v).key = k /\ FieldToken(k, v).value = v
    BY DEF FieldToken
  <2> QED BY <2>1, <2>2
<1>3. Semicolon \notin FieldTokens
  <2>1. Semicolon.kind # "field"
    BY DEF Semicolon
  <2> QED BY <1>1, <2>1
<1> QED BY <1>1, <1>2, <1>3 DEF Tokens

(* One token more leaves a state of the parser, and what was found. *)
LEMMA ReadTokenKeeps ==
  ASSUME NEW p \in ReadStates, NEW x \in Tokens PROVE ReadToken(p, x) \in ReadStates
<1>1. p.found \in Seq(ParsedFields) /\ p.gap \in Nat
  BY DEF ReadStates
<1>2. CASE x \notin FieldTokens
  <2>1. p.gap + 1 \in Nat /\ ReadToken(p, x) = [found |-> p.found, gap |-> p.gap + 1]
    BY <1>1, <1>2 DEF ReadToken
  <2> QED BY <1>1, <2>1 DEF ReadStates
<1>3. CASE x \in FieldTokens
  <2> DEFINE s == p.gap - IF p.found = <<>> THEN 0 ELSE 1
             f == [inFront |-> s, key |-> x.key, value |-> ParseValue(Trim(x.value))]
  <2>1. s \in Int
    <3>1. p.gap - 0 \in Int /\ p.gap - 1 \in Int
      BY <1>1
    <3> QED BY <3>1
  <2>2. f \in ParsedFields
    <3>1. x.key \in FieldKeys /\ ParseValue(Trim(x.value)) \in ParsedValues
      BY <1>3, FieldTokenParts DEF ParsedValues
    <3> HIDE DEF s
    <3> QED BY <2>1, <3>1 DEF ParsedFields
  <2>3. ReadToken(p, x) = [found |-> Append(p.found, f), gap |-> 0]
    BY <1>3 DEF ReadToken
  <2> HIDE DEF f
  <2> QED BY <1>1, <2>2, <2>3 DEF ReadStates
<1> QED BY <1>2, <1>3

(* What the recursion of ReadTokens gives. *)
LEMMA ReadTokensUnfolds ==
  ASSUME NEW txt \in Seq(Tokens)
  PROVE  \E u \in [0 .. Len(txt) -> ReadStates] :
           /\ u[0] = NothingRead /\ ReadTokens(txt) = u[Len(txt)]
           /\ \A k \in 1 .. Len(txt) : u[k] = ReadToken(u[k - 1], txt[k])
<1> DEFINE n == Len(txt)
           T == ReadStates
           S(t, k) == ReadToken(t, txt[k])
           W(w) == w = [k \in 0 .. n |-> IF k = 0 THEN NothingRead ELSE S(w[k - 1], k)]
           g == [p \in (1 .. n) \X T |-> S(p[2], p[1])]
<1>1. n \in Nat /\ NothingRead \in T
  BY DEF ReadStates, NothingRead
<1>2. \A k \in 1 .. n : \A t \in T : S(t, k) \in T
  BY ReadTokenKeeps
<1> HIDE DEF S
<1>3. g \in StepFunctions(n, T) /\ \A k \in 1 .. n : \A t \in T : g[<<k, t>>] = S(t, k)
  <2> HIDE DEF T
  <2> QED BY <1>2 DEF StepFunctions
<1> HIDE DEF g, n, T
<1>4. PICK v \in [0 .. n -> T] : v[0] = NothingRead /\ \A k \in 1 .. n : v[k] = g[<<k, v[k - 1]>>]
  <2>1. HasScan(T, NothingRead, n, g)
    BY <1>1, <1>3, ScanExists
  <2> QED BY <2>1 DEF HasScan
<1>5. \A k \in 1 .. n : k - 1 \in 0 .. n /\ k \in 0 .. n /\ k # 0
  BY <1>1
<1>6. \A k \in 1 .. n : v[k] = S(v[k - 1], k)
  BY <1>3, <1>4, <1>5
<1>7. W(v)
  <2>1. \A k \in 0 .. n : k = 0 \/ k \in 1 .. n
    BY <1>1
  <2>2. \A k \in 0 .. n : v[k] = IF k = 0 THEN NothingRead ELSE S(v[k - 1], k)
    BY <2>1, <1>4, <1>6
  <2> QED BY <2>2, <1>4
<1> DEFINE u == CHOOSE w : W(w)
<1>8. W(u)
  BY <1>7
<1>9. ReadTokens(txt) = u[n]
  BY DEF ReadTokens, n, S
<1> HIDE DEF u
<1>10. DOMAIN u = 0 .. n /\ u[0] = NothingRead /\ \A k \in 1 .. n : u[k] = S(u[k - 1], k)
  <2>1. 0 \in 0 .. n
    BY <1>1
  <2> QED BY <2>1, <1>5, <1>8
<1>11. \A k \in 0 .. n : u[k] \in T
  <2> DEFINE G == {m \in 0 .. n : u[m] \in T}
  <2>1. 0 \in G
    BY <1>1, <1>10
  <2>2. \A k \in 1 .. n : k - 1 \in G => k \in G
    BY <1>2, <1>5, <1>10
  <2> HIDE DEF G
  <2>3. \A k \in 0 .. n : k \in G
    BY <2>1, <2>2, <1>1, UpTo
  <2> QED BY <2>3 DEF G
<1>12. u \in [0 .. n -> T]
  <2>1. u = [k \in 0 .. n |-> u[k]]
    BY <1>8, <1>10
  <2> QED BY <2>1, <1>11
<1> QED BY <1>9, <1>10, <1>12 DEF n, T, S

(* A string that is one token longer is read one token further. *)
LEMMA ReadAppend ==
  ASSUME NEW txt \in Seq(Tokens), NEW x \in Tokens
  PROVE  /\ ReadTokens(txt) \in ReadStates
         /\ ReadTokens(Append(txt, x)) = ReadToken(ReadTokens(txt), x)
<1> DEFINE n == Len(txt)
           more == Append(txt, x)
<1>0. n \in Nat /\ more \in Seq(Tokens) /\ Len(more) = n + 1 /\ more[n + 1] = x
      /\ \A k \in 1 .. n : more[k] = txt[k]
  OBVIOUS
<1>1. PICK u \in [0 .. n -> ReadStates] :
        /\ u[0] = NothingRead /\ ReadTokens(txt) = u[n]
        /\ \A k \in 1 .. n : u[k] = ReadToken(u[k - 1], txt[k])
  BY ReadTokensUnfolds
<1> HIDE DEF more
<1>2. PICK v \in [0 .. Len(more) -> ReadStates] :
        /\ v[0] = NothingRead /\ ReadTokens(more) = v[Len(more)]
        /\ \A k \in 1 .. Len(more) : v[k] = ReadToken(v[k - 1], more[k])
  BY <1>0, ReadTokensUnfolds
<1> HIDE DEF n
<1>3. n \in 0 .. n /\ n + 1 - 1 = n /\ n + 1 \in 1 .. Len(more)
      /\ \A k \in 1 .. n : k \in 1 .. Len(more)
  BY <1>0
<1> DEFINE G == {k \in 0 .. n : u[k] = v[k]}
<1>4. 0 \in G
  BY <1>0, <1>1, <1>2
<1>5. \A k \in 1 .. n : k - 1 \in G => k \in G
  BY <1>0, <1>1, <1>2, <1>3
<1> HIDE DEF G
<1>6. n \in G
  BY <1>0, <1>3, <1>4, <1>5, UpTo
<1>7. u[n] = v[n] /\ v[n + 1] = ReadToken(v[n], x)
  BY <1>0, <1>2, <1>3, <1>6 DEF G
<1> QED BY <1>0, <1>1, <1>2, <1>3, <1>7 DEF more

(* Nothing is read in an empty string. *)
LEMMA ReadNothing == ReadTokens(<<>>) = NothingRead
<1>1. <<>> \in Seq(Tokens) /\ Len(<<>>) = 0
  OBVIOUS
<1>2. PICK u \in [0 .. Len(<<>>) -> ReadStates] : u[0] = NothingRead /\ ReadTokens(<<>>) = u[Len(<<>>)]
  BY <1>1, ReadTokensUnfolds
<1> QED BY <1>1, <1>2

(* A token is added with its separator. *)
LEMMA AddTokenKeeps ==
  ASSUME NEW txt \in Seq(Tokens), NEW x \in Tokens PROVE AddToken(txt, x) \in Seq(Tokens)
<1>1. Semicolon \in Tokens
  BY FieldTokenParts
<1>2. CASE txt = <<>>
  BY <1>2 DEF AddToken
<1>3. CASE txt # <<>>
  <2>1. Append(txt, Semicolon) \in Seq(Tokens)
    BY <1>1
  <2>2. Append(Append(txt, Semicolon), x) \in Seq(Tokens)
    BY <2>1
  <2> QED BY <1>3, <2>2 DEF AddToken
<1> QED BY <1>2, <1>3

(* The field token of an object's field. *)
LEMMA OwnToken ==
  ASSUME NEW f \in ObjectFields
  PROVE  /\ f.name \in FieldNames /\ f.value \in Texts
         /\ Prefixed(f.name) \in FieldKeys
         /\ FieldToken(Prefixed(f.name), f.value) \in FieldTokens
<1>1. f.name \in FieldNames /\ f.value \in Texts
  BY DEF ObjectFields
<1>2. Prefixed(f.name) \in FieldKeys
  BY <1>1 DEF FieldKeys
<1> QED BY <1>1, <1>2, FieldTokenParts

(* A field is added as one token, or as two if something is behind its ';'. *)
LEMMA WithTailTokens ==
  ASSUME NEW f \in ObjectFields, NEW typed \in BOOLEAN, NEW txt
  PROVE  \/ AddWithTail(txt, f, typed) = AddField(txt, f)
         \/ \E x \in Tokens : AddWithTail(txt, f, typed) = AddToken(AddField(txt, f), x)
<1>1. CASE f.tail = <<>>
  BY <1>1 DEF AddWithTail, AddTypedField, AddObjectField
<1>2. CASE f.tail # <<>>
  <2>1. PICK x \in FieldTokens \cup {Loose} : f.tail = <<x>>
    BY <1>2 DEF ObjectFields
  <2>2. f.tail[1] = x
    BY <2>1
  <2>3. x \in Tokens
    BY DEF Tokens
  <2>4. CASE ~typed
    BY <2>2, <2>3, <2>4, <1>2 DEF AddWithTail, AddObjectField
  <2>5. CASE typed /\ f.tail = <<Loose>>
    BY <2>5 DEF AddWithTail, AddTypedField
  <2>6. CASE typed /\ f.tail # <<Loose>>
    <3>1. x \in FieldTokens
      BY <2>1, <2>6
    <3>2. x.key \in FieldKeys /\ x.value \in Texts
      BY <3>1, FieldTokenParts
    <3>3. x.key[2] \in FieldNames
      <4>1. \A n : Prefixed(n)[2] = n /\ Bare(n)[2] = n
        BY DEF Prefixed, Bare
      <4> QED BY <3>2, <4>1 DEF FieldKeys
    <3>4. Prefixed(x.key[2]) \in FieldKeys
      BY <3>3 DEF FieldKeys
    <3>5. FieldToken(Prefixed(x.key[2]), x.value) \in Tokens
      BY <3>2, <3>4, FieldTokenParts
    <3>6. AddWithTail(txt, f, typed)
            = AddToken(AddField(txt, f), FieldToken(Prefixed(x.key[2]), x.value))
      BY <2>2, <2>6, <1>2 DEF AddWithTail, AddTypedField
    <3> QED BY <3>5, <3>6
  <2> QED BY <2>4, <2>5, <2>6
<1> QED BY <1>1, <1>2

(* With or without a tail, it is a parameter string again. *)
LEMMA WithTailKeeps ==
  ASSUME NEW txt \in Seq(Tokens), NEW f \in ObjectFields, NEW typed \in BOOLEAN
  PROVE  AddWithTail(txt, f, typed) \in Seq(Tokens)
<1>1. FieldToken(Prefixed(f.name), f.value) \in Tokens
  BY OwnToken, FieldTokenParts
<1>2. AddField(txt, f) \in Seq(Tokens)
  BY <1>1, AddTokenKeeps DEF AddField
<1>3. \A x \in Tokens : AddToken(AddField(txt, f), x) \in Seq(Tokens)
  BY <1>2, AddTokenKeeps
<1> QED BY <1>2, <1>3, WithTailTokens

(* What the recursion of Appended gives. *)
LEMMA AppendedUnfolds ==
  ASSUME NEW txt \in Seq(Tokens), NEW fs \in Seq(ObjectFields), NEW typed \in BOOLEAN
  PROVE  \E u \in [0 .. Len(fs) -> Seq(Tokens)] :
           /\ u[0] = txt /\ Appended(txt, fs, typed) = u[Len(fs)]
           /\ \A k \in 1 .. Len(fs) : u[k] = AddWithTail(u[k - 1], fs[k], typed)
<1> DEFINE n == Len(fs)
           T == Seq(Tokens)
           S(t, k) == AddWithTail(t, fs[k], typed)
           W(w) == w = [k \in 0 .. n |-> IF k = 0 THEN txt ELSE S(w[k - 1], k)]
           g == [p \in (1 .. n) \X T |-> S(p[2], p[1])]
<1>1. n \in Nat /\ txt \in T
  OBVIOUS
<1>2. \A k \in 1 .. n : \A t \in T : S(t, k) \in T
  BY WithTailKeeps
<1> HIDE DEF S
<1>3. g \in StepFunctions(n, T) /\ \A k \in 1 .. n : \A t \in T : g[<<k, t>>] = S(t, k)
  <2> HIDE DEF T
  <2> QED BY <1>2 DEF StepFunctions
<1> HIDE DEF g, n, T
<1>4. PICK v \in [0 .. n -> T] : v[0] = txt /\ \A k \in 1 .. n : v[k] = g[<<k, v[k - 1]>>]
  <2>1. HasScan(T, txt, n, g)
    BY <1>1, <1>3, ScanExists
  <2> QED BY <2>1 DEF HasScan
<1>5. \A k \in 1 .. n : k - 1 \in 0 .. n /\ k \in 0 .. n /\ k # 0
  BY <1>1
<1>6. \A k \in 1 .. n : v[k] = S(v[k - 1], k)
  BY <1>3, <1>4, <1>5
<1>7. W(v)
  <2>1. \A k \in 0 .. n : k = 0 \/ k \in 1 .. n
    BY <1>1
  <2>2. \A k \in 0 .. n : v[k] = IF k = 0 THEN txt ELSE S(v[k - 1], k)
    BY <2>1, <1>4, <1>6
  <2> QED BY <2>2, <1>4
<1> DEFINE u == CHOOSE w : W(w)
<1>8. W(u)
  BY <1>7
<1>9. Appended(txt, fs, typed) = u[n]
  BY DEF Appended, n, S
<1> HIDE DEF u
<1>10. DOMAIN u = 0 .. n /\ u[0] = txt /\ \A k \in 1 .. n : u[k] = S(u[k - 1], k)
  <2>1. 0 \in 0 .. n
    BY <1>1
  <2> QED BY <2>1, <1>5, <1>8
<1>11. \A k \in 0 .. n : u[k] \in T
  <2> DEFINE G == {m \in 0 .. n : u[m] \in T}
  <2>1. 0 \in G
    BY <1>1, <1>10
  <2>2. \A k \in 1 .. n : k - 1 \in G => k \in G
    BY <1>2, <1>5, <1>10
  <2> HIDE DEF G
  <2>3. \A k \in 0 .. n : k \in G
    BY <2>1, <2>2, <1>1, UpTo
  <2> QED BY <2>3 DEF G
<1>12. u \in [0 .. n -> T]
  <2>1. u = [k \in 0 .. n |-> u[k]]
    BY <1>8, <1>10
  <2> QED BY <2>1, <1>11
<1> QED BY <1>9, <1>10, <1>12 DEF n, T, S


(* The invariant of the strings until a value with a ';' is added: what was  *)
(* read so far is what was meant, and nothing is left over in front of a key *)
(* unless an object was added to a string that was not empty.                *)
ReadsAsMeant(txt, fs, bad) ==
  LET p == ReadTokens(txt) IN
    /\ Len(p.found) = Len(fs)
    /\ \A n \in DOMAIN fs :
         /\ p.found[n].key = Prefixed(fs[n].name)
         /\ p.found[n].value = ParseValue(Trim(fs[n].value))
         /\ ~bad => p.found[n].inFront = 0
    /\ ~bad => p.gap = 0 /\ (txt # <<>> => fs # <<>>)

(* And the invariant after that: what was meant is read first. *)
ReadsAtLeast(txt, fs) ==
  LET found == ReadTokens(txt).found IN
    /\ Len(found) >= Len(fs)
    /\ \A n \in DOMAIN fs :
         found[n].key = Prefixed(fs[n].name) /\ found[n].value = ParseValue(Trim(fs[n].value))

(* A token more does not change what was read before. *)
LEMMA ReadsOn ==
  ASSUME NEW txt \in Seq(Tokens), NEW fs \in Seq(ObjectFields), NEW x \in Tokens,
         ReadsAtLeast(txt, fs)
  PROVE  ReadsAtLeast(Append(txt, x), fs)
<1> DEFINE p == ReadTokens(txt)
           q == ReadTokens(Append(txt, x))
<1>1. p \in ReadStates /\ q = ReadToken(p, x) /\ q \in ReadStates
  BY ReadAppend, ReadTokenKeeps
<1>2. p.found \in Seq(ParsedFields) /\ q.found \in Seq(ParsedFields)
  BY <1>1 DEF ReadStates
<1>3. q.found = p.found \/ \E y \in ParsedFields : q.found = Append(p.found, y)
  <2>1. CASE x \notin FieldTokens
    BY <1>1, <2>1 DEF ReadToken
  <2>2. CASE x \in FieldTokens
    <3> DEFINE s == p.gap - IF p.found = <<>> THEN 0 ELSE 1
               y == [inFront |-> s, key |-> x.key, value |-> ParseValue(Trim(x.value))]
    <3>1. q.found = Append(p.found, y)
      BY <1>1, <2>2 DEF ReadToken
    <3>2. y \in ParsedFields
      <4>1. p.gap - 0 \in Int /\ p.gap - 1 \in Int
        BY <1>1 DEF ReadStates
      <4>2. s \in Int
        BY <4>1
      <4>3. x.key \in FieldKeys /\ ParseValue(Trim(x.value)) \in ParsedValues
        BY <2>2, FieldTokenParts DEF ParsedValues
      <4> HIDE DEF s
      <4> QED BY <4>2, <4>3 DEF ParsedFields
    <3> HIDE DEF y
    <3> QED BY <3>1, <3>2
  <2> QED BY <2>1, <2>2
<1>4. Len(p.found) >= Len(fs)
      /\ \A n \in DOMAIN fs : p.found[n].key = Prefixed(fs[n].name)
                              /\ p.found[n].value = ParseValue(Trim(fs[n].value))
  BY DEF ReadsAtLeast
<1> HIDE DEF p, q
<1>5. Len(q.found) >= Len(p.found) /\ \A n \in 1 .. Len(p.found) : q.found[n] = p.found[n]
  <2>1. CASE q.found = p.found
    <3>1. Len(p.found) \in Nat
      BY <1>2
    <3> QED BY <2>1, <3>1
  <2>2. ASSUME NEW y \in ParsedFields, q.found = Append(p.found, y)
        PROVE Len(q.found) >= Len(p.found) /\ \A n \in 1 .. Len(p.found) : q.found[n] = p.found[n]
    BY <2>2, <1>2
  <2> QED BY <2>1, <2>2, <1>3
<1>6. Len(p.found) \in Nat /\ Len(q.found) \in Nat /\ Len(fs) \in Nat /\ DOMAIN fs = 1 .. Len(fs)
  BY <1>2
<1>7. Len(q.found) >= Len(fs) /\ \A n \in DOMAIN fs : n \in 1 .. Len(p.found)
  BY <1>4, <1>5, <1>6
<1>8. \A n \in DOMAIN fs : q.found[n].key = Prefixed(fs[n].name)
                           /\ q.found[n].value = ParseValue(Trim(fs[n].value))
  BY <1>4, <1>5, <1>7
<1> QED BY <1>7, <1>8 DEF ReadsAtLeast, q

(* Nor does a token with its separator. *)
LEMMA AddTokenReadsOn ==
  ASSUME NEW txt \in Seq(Tokens), NEW fs \in Seq(ObjectFields), NEW x \in Tokens,
         ReadsAtLeast(txt, fs)
  PROVE  ReadsAtLeast(AddToken(txt, x), fs)
<1>1. Semicolon \in Tokens
  BY FieldTokenParts
<1>2. CASE txt = <<>>
  <2>1. Append(txt, x) = <<x>>
    BY <1>2
  <2> QED BY <1>2, <2>1, ReadsOn DEF AddToken
<1>3. CASE txt # <<>>
  <2>1. Append(txt, Semicolon) \in Seq(Tokens) /\ ReadsAtLeast(Append(txt, Semicolon), fs)
    BY <1>1, ReadsOn
  <2>2. ReadsAtLeast(Append(Append(txt, Semicolon), x), fs)
    BY <2>1, ReadsOn
  <2> QED BY <1>3, <2>2 DEF AddToken
<1> QED BY <1>2, <1>3

(* Nor do all the fields of an object. *)
LEMMA AppendedReadsOn ==
  ASSUME NEW txt \in Seq(Tokens), NEW fs \in Seq(ObjectFields), NEW gs \in Seq(ObjectFields),
         NEW typed \in BOOLEAN, ReadsAtLeast(txt, fs)
  PROVE  Appended(txt, gs, typed) \in Seq(Tokens) /\ ReadsAtLeast(Appended(txt, gs, typed), fs)
<1> DEFINE n == Len(gs)
<1>1. PICK u \in [0 .. n -> Seq(Tokens)] :
        /\ u[0] = txt /\ Appended(txt, gs, typed) = u[n]
        /\ \A k \in 1 .. n : u[k] = AddWithTail(u[k - 1], gs[k], typed)
  BY AppendedUnfolds
<1> DEFINE G == {k \in 0 .. n : ReadsAtLeast(u[k], fs)}
<1>2. n \in Nat /\ n \in 0 .. n /\ 0 \in 0 .. n /\ \A k \in 1 .. n : gs[k] \in ObjectFields
  OBVIOUS
<1>3. 0 \in G
  BY <1>1, <1>2
<1> HIDE DEF n
<1>4. ASSUME NEW k \in 1 .. n, k - 1 \in G PROVE k \in G
  <2>1. k - 1 \in 0 .. n /\ k \in 0 .. n
    BY <1>2
  <2>2. u[k - 1] \in Seq(Tokens) /\ gs[k] \in ObjectFields /\ ReadsAtLeast(u[k - 1], fs)
    BY <2>1, <1>2, <1>4
  <2>3. AddField(u[k - 1], gs[k]) \in Seq(Tokens) /\ ReadsAtLeast(AddField(u[k - 1], gs[k]), fs)
    <3>1. FieldToken(Prefixed(gs[k].name), gs[k].value) \in Tokens
      BY <2>2, OwnToken, FieldTokenParts
    <3> QED BY <2>2, <3>1, AddTokenKeeps, AddTokenReadsOn DEF AddField
  <2>4. \A x \in Tokens : ReadsAtLeast(AddToken(AddField(u[k - 1], gs[k]), x), fs)
    BY <2>3, AddTokenReadsOn
  <2>5. ReadsAtLeast(AddWithTail(u[k - 1], gs[k], typed), fs)
    BY <2>2, <2>3, <2>4, WithTailTokens
  <2> QED BY <2>1, <2>5, <1>1
<1> HIDE DEF G
<1>5. n \in G
  BY <1>2, <1>3, <1>4, UpTo
<1> QED BY <1>1, <1>2, <1>5 DEF G

(* One field more in the string is one more that is read. *)
LEMMA AddFieldReads ==
  ASSUME NEW txt \in Seq(Tokens), NEW fs \in Seq(ObjectFields), NEW bad \in BOOLEAN,
         NEW f \in ObjectFields, ReadsAsMeant(txt, fs, bad)
  PROVE  ReadsAsMeant(AddField(txt, f), Append(fs, f), bad)
<1> DEFINE p == ReadTokens(txt)
           m == Len(fs)
           t1 == IF txt = <<>> THEN txt ELSE Append(txt, Semicolon)
           tk == FieldToken(Prefixed(f.name), f.value)
           q == ReadTokens(t1)
           r == ReadTokens(Append(t1, tk))
<1>0. /\ tk \in FieldTokens /\ tk \in Tokens /\ tk.key = Prefixed(f.name) /\ tk.value = f.value
      /\ Semicolon \in Tokens /\ Semicolon \notin FieldTokens
  BY OwnToken, FieldTokenParts
<1>a. AddField(txt, f) = AddToken(txt, tk)
  BY DEF AddField
<1> HIDE DEF tk
<1>1. p \in ReadStates /\ p.found \in Seq(ParsedFields) /\ p.gap \in Nat /\ Len(p.found) = m /\ m \in Nat
  <2>1. p \in ReadStates /\ m \in Nat
    BY <1>0, ReadAppend
  <2> QED BY <2>1 DEF ReadStates, ReadsAsMeant
<1>2. t1 \in Seq(Tokens) /\ AddField(txt, f) = Append(t1, tk) /\ Append(t1, tk) # <<>>
  <2>1. CASE txt = <<>>
    BY <2>1, <1>0, <1>a DEF AddToken
  <2>2. CASE txt # <<>>
    BY <2>2, <1>0, <1>a DEF AddToken
  <2> QED BY <2>1, <2>2
<1>3. q.found = p.found /\ q.gap = IF txt = <<>> THEN p.gap ELSE p.gap + 1
  <2>1. CASE txt = <<>>
    BY <2>1
  <2>2. CASE txt # <<>>
    <3>1. q = ReadToken(p, Semicolon)
      BY <2>2, <1>0, ReadAppend
    <3> QED BY <2>2, <3>1, <1>0 DEF ReadToken
  <2> QED BY <2>1, <2>2
<1> DEFINE s == q.gap - IF q.found = <<>> THEN 0 ELSE 1
           x == [inFront |-> s, key |-> Prefixed(f.name), value |-> ParseValue(Trim(f.value))]
<1>4. r.found = Append(p.found, x) /\ r.gap = 0
  <2>1. r = ReadToken(q, tk)
    BY <1>0, <1>2, ReadAppend
  <2> QED BY <2>1, <1>0, <1>3 DEF ReadToken
<1>5. ~bad => s = 0
  <2> SUFFICES ASSUME ~bad PROVE s = 0
    OBVIOUS
  <2>1. p.gap = 0 /\ (txt # <<>> => fs # <<>>)
    BY DEF ReadsAsMeant
  <2>2. CASE txt = <<>>
    <3>1. p.found = <<>>
      BY <2>2, ReadNothing DEF NothingRead
    <3> QED BY <3>1, <2>1, <2>2, <1>3
  <2>3. CASE txt # <<>>
    <3>1. p.found # <<>>
      BY <2>1, <2>3, <1>1
    <3> QED BY <3>1, <2>1, <2>3, <1>3
  <2> QED BY <2>2, <2>3
<1>6. x \in ParsedFields
  <2>1. q.gap \in Nat
    BY <1>1, <1>3
  <2>2. s \in Int
    BY <2>1
  <2>3. Prefixed(f.name) \in FieldKeys /\ ParseValue(Trim(f.value)) \in ParsedValues
    BY OwnToken DEF ParsedValues
  <2> HIDE DEF s
  <2> QED BY <2>2, <2>3 DEF ParsedFields
<1>7. x.inFront = s /\ x.key = Prefixed(f.name) /\ x.value = ParseValue(Trim(f.value))
  OBVIOUS
<1> HIDE DEF p, q, r, x, s, t1
<1> DEFINE found == Append(p.found, x)
           gs == Append(fs, f)
<1>8. /\ Len(found) = m + 1 /\ Len(gs) = m + 1 /\ DOMAIN gs = 1 .. m + 1
      /\ gs # <<>> /\ found[m + 1] = x /\ gs[m + 1] = f
      /\ \A n \in 1 .. m : found[n] = p.found[n] /\ gs[n] = fs[n]
  <2>1. Len(found) = m + 1 /\ found[m + 1] = x /\ \A n \in 1 .. m : found[n] = p.found[n]
    BY <1>1, <1>6
  <2>2. Len(gs) = m + 1 /\ DOMAIN gs = 1 .. m + 1 /\ gs # <<>> /\ gs[m + 1] = f
        /\ \A n \in 1 .. m : gs[n] = fs[n]
    OBVIOUS
  <2> QED BY <2>1, <2>2
<1>9. \A n \in 1 .. m + 1 : n \in 1 .. m \/ n = m + 1
  BY <1>1
<1>10. \A n \in DOMAIN fs : /\ p.found[n].key = Prefixed(fs[n].name)
                            /\ p.found[n].value = ParseValue(Trim(fs[n].value))
                            /\ ~bad => p.found[n].inFront = 0
  BY DEF ReadsAsMeant, p
<1>11. DOMAIN fs = 1 .. m
  OBVIOUS
<1> HIDE DEF found, gs, m
<1>12. \A n \in DOMAIN gs : /\ found[n].key = Prefixed(gs[n].name)
                            /\ found[n].value = ParseValue(Trim(gs[n].value))
                            /\ ~bad => found[n].inFront = 0
  BY <1>5, <1>7, <1>8, <1>9, <1>10, <1>11
<1> QED BY <1>2, <1>4, <1>8, <1>12 DEF ReadsAsMeant, r, found, gs

(* So it is for all the fields of an object, if no value has a ';'. *)
LEMMA AppendedReads ==
  ASSUME NEW txt \in Seq(Tokens), NEW fs \in Seq(ObjectFields), NEW bad \in BOOLEAN,
         NEW gs \in Seq(ObjectFields), NEW typed \in BOOLEAN, ~Splits(gs),
         ReadsAsMeant(txt, fs, bad)
  PROVE  ReadsAsMeant(Appended(txt, gs, typed), fs \o gs, bad)
<1> DEFINE n == Len(gs)
<1>1. PICK u \in [0 .. n -> Seq(Tokens)] :
        /\ u[0] = txt /\ Appended(txt, gs, typed) = u[n]
        /\ \A k \in 1 .. n : u[k] = AddField(u[k - 1], gs[k])
  <2>1. \A k \in 1 .. n : gs[k].tail = <<>>
    BY DEF Splits
  <2>2. \A txt2 : \A k \in 1 .. n : AddWithTail(txt2, gs[k], typed) = AddField(txt2, gs[k])
    BY <2>1 DEF AddWithTail, AddTypedField, AddObjectField
  <2> HIDE DEF n
  <2>3. \E u \in [0 .. n -> Seq(Tokens)] :
          /\ u[0] = txt /\ Appended(txt, gs, typed) = u[n]
          /\ \A k \in 1 .. n : u[k] = AddWithTail(u[k - 1], gs[k], typed)
    BY AppendedUnfolds DEF n
  <2> QED BY <2>2, <2>3
<1> DEFINE piece(k) == fs \o SubSeq(gs, 1, k)
           G == {k \in 0 .. n : ReadsAsMeant(u[k], piece(k), bad)}
<1>2. n \in Nat /\ n \in 0 .. n /\ 0 \in 0 .. n
  OBVIOUS
<1>3. piece(0) = fs /\ piece(n) = fs \o gs
  <2>1. SubSeq(gs, 1, 0) = <<>> /\ SubSeq(gs, 1, n) = gs
    OBVIOUS
  <2>2. fs \o <<>> = fs
    OBVIOUS
  <2> QED BY <2>1, <2>2
<1>4. \A k \in 1 .. n : piece(k - 1) \in Seq(ObjectFields) /\ piece(k) = Append(piece(k - 1), gs[k])
  <2> SUFFICES ASSUME NEW k \in 1 .. n
               PROVE  piece(k - 1) \in Seq(ObjectFields) /\ piece(k) = Append(piece(k - 1), gs[k])
    OBVIOUS
  <2>1. SubSeq(gs, 1, k - 1) \in Seq(ObjectFields) /\ gs[k] \in ObjectFields
        /\ SubSeq(gs, 1, k) = Append(SubSeq(gs, 1, k - 1), gs[k])
    OBVIOUS
  <2>2. \A a \in Seq(ObjectFields), b \in Seq(ObjectFields), x \in ObjectFields :
          a \o b \in Seq(ObjectFields) /\ a \o Append(b, x) = Append(a \o b, x)
    OBVIOUS
  <2> QED BY <2>1, <2>2
<1>5. 0 \in G
  BY <1>1, <1>2, <1>3
<1> HIDE DEF n, piece
<1>6. ASSUME NEW k \in 1 .. n, k - 1 \in G PROVE k \in G
  <2>1. u[k - 1] \in Seq(Tokens) /\ gs[k] \in ObjectFields /\ k - 1 \in 0 .. n /\ k \in 0 .. n
    <3>1. k - 1 \in 0 .. n /\ k \in 0 .. n
      BY <1>2
    <3>2. gs[k] \in ObjectFields
      BY DEF n
    <3> QED BY <3>1, <3>2
  <2>2. ReadsAsMeant(u[k - 1], piece(k - 1), bad)
    BY <1>6
  <2>3. ReadsAsMeant(AddField(u[k - 1], gs[k]), Append(piece(k - 1), gs[k]), bad)
    BY <2>1, <2>2, <1>4, AddFieldReads
  <2> QED BY <2>1, <2>3, <1>1, <1>4
<1> HIDE DEF G
<1>7. n \in G
  BY <1>2, <1>5, <1>6, UpTo
<1> QED BY <1>1, <1>2, <1>3, <1>7 DEF G

(* The C interface: the strings that carry results. *)

(* The characters of a result string, and the results there may be. *)
Letters == Characters \cup {"id", "success", "%3A", "%3B", Separator, Colon}
Results == [name : Seq(Characters), error : Seq(Characters) \cup {NoError}]

(* What is in a text is counted piece by piece. *)
LEMMA OccurrencesFinite ==
  ASSUME NEW s \in Seq(Letters), NEW c
  PROVE  /\ IsFiniteSet({i \in DOMAIN s : s[i] = c}) /\ Occurrences(s, c) \in Nat
<1>1. IsFiniteSet(1 .. Len(s)) /\ DOMAIN s = 1 .. Len(s)
  BY FS_Interval
<1>2. IsFiniteSet({i \in DOMAIN s : s[i] = c})
  BY <1>1, FS_Subset
<1> QED BY <1>2, FS_CardinalityType DEF Occurrences

(* Two texts behind each other hold what both of them hold. *)
LEMMA OccurrencesConcat ==
  ASSUME NEW s \in Seq(Letters), NEW t \in Seq(Letters), NEW c
  PROVE  Occurrences(s \o t, c) = Occurrences(s, c) + Occurrences(t, c)
<1> DEFINE m == Len(s)
           n == Len(t)
           P == {i \in DOMAIN s : s[i] = c}
           Q == {i \in DOMAIN t : t[i] = c}
           R == {i \in m + 1 .. m + n : t[i - m] = c}
           A == {i \in DOMAIN (s \o t) : (s \o t)[i] = c}
<1>1. m \in Nat /\ n \in Nat /\ DOMAIN s = 1 .. m /\ DOMAIN t = 1 .. n
  OBVIOUS
<1>2. /\ DOMAIN (s \o t) = 1 .. m + n
      /\ \A i \in 1 .. m : (s \o t)[i] = s[i]
      /\ \A i \in m + 1 .. m + n : (s \o t)[i] = t[i - m]
  BY ConcatProperties
<1>3. A = P \cup R
  <2>1. \A i : i \in 1 .. m + n <=> i \in 1 .. m \/ i \in m + 1 .. m + n
    BY <1>1
  <2>2. \A i : i \in A <=> i \in P \/ i \in R
    <3> HIDE DEF m, n
    <3> QED BY <1>1, <1>2, <2>1
  <2> QED BY <2>2
<1>4. P \cap R = {}
  <2>1. \A i : ~(i \in 1 .. m /\ i \in m + 1 .. m + n)
    BY <1>1
  <2>2. \A i \in P : i \in 1 .. m
    BY <1>1
  <2> HIDE DEF P
  <2> QED BY <2>1, <2>2
<1>5. IsFiniteSet(P) /\ IsFiniteSet(Q)
  BY OccurrencesFinite
<1>6. IsFiniteSet(R) /\ Cardinality(R) = Cardinality(Q)
  <2> DEFINE shift == [i \in Q |-> i + m]
  <2>1. \A i \in Q : i \in 1 .. n /\ t[i] = c
    BY <1>1
  <2>2. \A i \in Q : i + m \in R
    <3> SUFFICES ASSUME NEW i \in Q PROVE i + m \in R
      OBVIOUS
    <3>1. i \in 1 .. n /\ t[i] = c
      BY <2>1
    <3> HIDE DEF m, n
    <3>2. i + m \in m + 1 .. m + n /\ (i + m) - m = i
      BY <3>1, <1>1
    <3> QED BY <3>1, <3>2
  <2>3. \A j \in R : j - m \in Q /\ (j - m) + m = j
    <3> SUFFICES ASSUME NEW j \in R PROVE j - m \in Q /\ (j - m) + m = j
      OBVIOUS
    <3>1. j \in m + 1 .. m + n /\ t[j - m] = c
      OBVIOUS
    <3>2. j - m \in 1 .. n /\ (j - m) + m = j
      BY <3>1, <1>1
    <3> QED BY <3>1, <3>2, <1>1
  <2>4. \A i, j \in Q : i + m = j + m => i = j
    BY <2>1, <1>1
  <2>5. IsFiniteSet(R)
    <3>1. IsFiniteSet(m + 1 .. m + n)
      BY <1>1, FS_Interval
    <3> QED BY <3>1, FS_Subset
  <2> HIDE DEF Q, R, m
  <2>6. shift \in [Q -> R] /\ (\A i, j \in Q : shift[i] = shift[j] => i = j)
        /\ \A j \in R : \E i \in Q : shift[i] = j
    BY <2>2, <2>3, <2>4
  <2> HIDE DEF shift
  <2> QED BY <2>5, <2>6, ImageCardinality
<1>7. Cardinality(P \cup R) = Cardinality(P) + Cardinality(R)
  BY <1>4, <1>5, <1>6, DisjointCardinality
<1> QED BY <1>3, <1>6, <1>7 DEF Occurrences

(* The same of the two separators. *)
LEMMA Joined ==
  ASSUME NEW s \in Seq(Letters), NEW t \in Seq(Letters)
  PROVE  /\ s \o t \in Seq(Letters)
         /\ Occurrences(s \o t, Separator) = Occurrences(s, Separator) + Occurrences(t, Separator)
         /\ Occurrences(s \o t, Colon) = Occurrences(s, Colon) + Occurrences(t, Colon)
BY OccurrencesConcat, ConcatProperties

(* A text that was escaped holds neither of the two separators. *)
LEMMA EscapedHoldsNone ==
  ASSUME NEW s \in Seq(Characters)
  PROVE  /\ EscapeField(s) \in Seq(Letters)
         /\ Occurrences(EscapeField(s), Separator) = 0 /\ Occurrences(EscapeField(s), Colon) = 0
<1> DEFINE e == EscapeField(s)
<1>1. DOMAIN s = 1 .. Len(s) /\ Len(s) \in Nat /\ \A i \in DOMAIN s : s[i] \in Characters
  OBVIOUS
<1>2. Separator # "%3A" /\ Separator # "%3B" /\ Colon # "%3A" /\ Colon # "%3B"
  BY DEF Separator, Colon
<1>3. DOMAIN e = DOMAIN s /\ \A i \in DOMAIN s : e[i] =
        IF s[i] = Colon THEN "%3A" ELSE IF s[i] = Separator THEN "%3B" ELSE s[i]
  BY DEF EscapeField
<1> HIDE DEF e
<1>4. \A i \in DOMAIN e : e[i] \in Letters /\ e[i] # Separator /\ e[i] # Colon
  BY <1>1, <1>2, <1>3 DEF Letters
<1>5. e \in Seq(Letters)
  <2>1. e = [i \in 1 .. Len(s) |-> e[i]]
    BY <1>1, <1>3 DEF e, EscapeField
  <2> QED BY <1>1, <1>3, <1>4, <2>1
<1>6. {i \in DOMAIN e : e[i] = Separator} = {} /\ {i \in DOMAIN e : e[i] = Colon} = {}
  BY <1>4
<1> QED BY <1>5, <1>6, FS_EmptySet DEF e, Occurrences

(* A text of one or two tokens. *)
LEMMA OccurrencesOne ==
  ASSUME NEW x \in Letters, NEW c
  PROVE  <<x>> \in Seq(Letters) /\ Occurrences(<<x>>, c) = IF x = c THEN 1 ELSE 0
<1>1. {i \in DOMAIN <<x>> : <<x>>[i] = c} = IF x = c THEN {1} ELSE {}
  OBVIOUS
<1>2. Cardinality({1}) = 1 /\ Cardinality({}) = 0
  BY FS_Singleton, FS_EmptySet
<1> QED BY <1>1, <1>2 DEF Occurrences

(* A result has two colons, and one more before an error. *)
LEMMA FormatResultHolds ==
  ASSUME NEW r \in Results
  PROVE  /\ FormatResult(r) \in Seq(Letters)
         /\ Occurrences(FormatResult(r), Separator) = 0
         /\ Occurrences(FormatResult(r), Colon) = IF r.error = NoError THEN 2 ELSE 3
<1> DEFINE name == EscapeField(r.name)
           err == EscapeField(r.error)
           tail == IF r.error = NoError THEN <<>> ELSE <<Colon>> \o err
<1>1. Separator # Colon /\ Separator # "id" /\ Separator # "success" /\ Colon # "id" /\ Colon # "success"
  BY DEF Separator, Colon
<1>2. {"id", "success", Separator, Colon} \subseteq Letters
  BY DEF Letters
<1>3. /\ name \in Seq(Letters) /\ Occurrences(name, Separator) = 0 /\ Occurrences(name, Colon) = 0
  BY EscapedHoldsNone DEF Results
<1> DEFINE id == <<"id", Colon>>
           ok == <<Colon, "success">>
<1>4. id \in Seq(Letters) /\ Occurrences(id, Separator) = 0 /\ Occurrences(id, Colon) = 1
  <2>1. id = <<"id">> \o <<Colon>>
    OBVIOUS
  <2>2. <<"id">> \in Seq(Letters) /\ Occurrences(<<"id">>, Separator) = 0 /\ Occurrences(<<"id">>, Colon) = 0
    BY <1>1, <1>2, OccurrencesOne
  <2>3. <<Colon>> \in Seq(Letters) /\ Occurrences(<<Colon>>, Separator) = 0 /\ Occurrences(<<Colon>>, Colon) = 1
    BY <1>1, <1>2, OccurrencesOne
  <2>4. /\ <<"id">> \o <<Colon>> \in Seq(Letters)
        /\ Occurrences(<<"id">> \o <<Colon>>, Separator) = Occurrences(<<"id">>, Separator) + Occurrences(<<Colon>>, Separator)
        /\ Occurrences(<<"id">> \o <<Colon>>, Colon) = Occurrences(<<"id">>, Colon) + Occurrences(<<Colon>>, Colon)
    BY <2>2, <2>3, Joined
  <2> HIDE DEF id
  <2> QED BY <2>1, <2>2, <2>3, <2>4
<1>5. ok \in Seq(Letters) /\ Occurrences(ok, Separator) = 0 /\ Occurrences(ok, Colon) = 1
  <2>1. ok = <<Colon>> \o <<"success">>
    OBVIOUS
  <2>2. <<"success">> \in Seq(Letters) /\ Occurrences(<<"success">>, Separator) = 0 /\ Occurrences(<<"success">>, Colon) = 0
    BY <1>1, <1>2, OccurrencesOne
  <2>3. <<Colon>> \in Seq(Letters) /\ Occurrences(<<Colon>>, Separator) = 0 /\ Occurrences(<<Colon>>, Colon) = 1
    BY <1>1, <1>2, OccurrencesOne
  <2>4. /\ <<Colon>> \o <<"success">> \in Seq(Letters)
        /\ Occurrences(<<Colon>> \o <<"success">>, Separator) = Occurrences(<<Colon>>, Separator) + Occurrences(<<"success">>, Separator)
        /\ Occurrences(<<Colon>> \o <<"success">>, Colon) = Occurrences(<<Colon>>, Colon) + Occurrences(<<"success">>, Colon)
    BY <2>2, <2>3, Joined
  <2> HIDE DEF ok
  <2> QED BY <2>1, <2>2, <2>3, <2>4
<1>6. /\ tail \in Seq(Letters) /\ Occurrences(tail, Separator) = 0
      /\ Occurrences(tail, Colon) = IF r.error = NoError THEN 0 ELSE 1
  <2>1. CASE r.error = NoError
    <3>1. tail = <<>> /\ <<>> \in Seq(Letters)
      BY <2>1
    <3>2. \A c : Occurrences(<<>>, c) = 0
      <4>1. \A c : {i \in DOMAIN <<>> : <<>>[i] = c} = {}
        OBVIOUS
      <4> QED BY <4>1, FS_EmptySet DEF Occurrences
    <3> QED BY <2>1, <3>1, <3>2
  <2>2. CASE r.error # NoError
    <3>1. err \in Seq(Letters) /\ Occurrences(err, Separator) = 0 /\ Occurrences(err, Colon) = 0
      BY <2>2, EscapedHoldsNone DEF Results
    <3>2. <<Colon>> \in Seq(Letters) /\ Occurrences(<<Colon>>, Separator) = 0 /\ Occurrences(<<Colon>>, Colon) = 1
      BY <1>1, <1>2, OccurrencesOne
    <3>3. tail = <<Colon>> \o err
      BY <2>2
    <3> HIDE DEF err
    <3>4. /\ <<Colon>> \o err \in Seq(Letters)
          /\ Occurrences(<<Colon>> \o err, Separator) = Occurrences(<<Colon>>, Separator) + Occurrences(err, Separator)
          /\ Occurrences(<<Colon>> \o err, Colon) = Occurrences(<<Colon>>, Colon) + Occurrences(err, Colon)
      BY <3>1, <3>2, Joined
    <3> HIDE DEF tail
    <3> QED BY <2>2, <3>1, <3>2, <3>3, <3>4
  <2> QED BY <2>1, <2>2
<1>7. FormatResult(r) = id \o name \o ok \o tail
  BY DEF FormatResult
<1> HIDE DEF id, name, ok, tail
<1>8. /\ id \o name \in Seq(Letters) /\ Occurrences(id \o name, Separator) = 0
      /\ Occurrences(id \o name, Colon) = 1
  BY <1>3, <1>4, Joined
<1>9. /\ id \o name \o ok \in Seq(Letters) /\ Occurrences(id \o name \o ok, Separator) = 0
      /\ Occurrences(id \o name \o ok, Colon) = 2
  <2> DEFINE h == id \o name
  <2>1. h \in Seq(Letters) /\ Occurrences(h, Separator) = 0 /\ Occurrences(h, Colon) = 1
    BY <1>8
  <2> HIDE DEF h
  <2>2. /\ h \o ok \in Seq(Letters)
        /\ Occurrences(h \o ok, Separator) = Occurrences(h, Separator) + Occurrences(ok, Separator)
        /\ Occurrences(h \o ok, Colon) = Occurrences(h, Colon) + Occurrences(ok, Colon)
    BY <1>5, <2>1, Joined
  <2>3. h \o ok \in Seq(Letters) /\ Occurrences(h \o ok, Separator) = 0 /\ Occurrences(h \o ok, Colon) = 2
    BY <1>5, <2>1, <2>2
  <2> QED BY <2>3 DEF h
<1> DEFINE all == id \o name \o ok
<1> HIDE DEF all
<1>10. /\ all \o tail \in Seq(Letters) /\ Occurrences(all \o tail, Separator) = 0
       /\ Occurrences(all \o tail, Colon) = IF r.error = NoError THEN 2 ELSE 3
  <2>1. all \in Seq(Letters) /\ Occurrences(all, Separator) = 0 /\ Occurrences(all, Colon) = 2
    BY <1>9 DEF all
  <2> QED BY <2>1, <1>6, Joined
<1> QED BY <1>7, <1>10 DEF all

(* A list of results is formatted one by one. *)
LEMMA FormatKeeps ==
  ASSUME NEW txt \in Seq(Letters), NEW rs \in Seq(Results), NEW k \in 1 .. Len(rs)
  PROVE  txt \o (IF k = 1 THEN <<>> ELSE <<Separator>>) \o FormatResult(rs[k]) \in Seq(Letters)
<1> DEFINE sep == IF k = 1 THEN <<>> ELSE <<Separator>>
<1>1. sep \in Seq(Letters)
  <2>1. Separator \in Letters
    BY DEF Letters
  <2>2. <<>> \in Seq(Letters) /\ <<Separator>> \in Seq(Letters)
    BY <2>1
  <2> QED BY <2>2
<1>2. FormatResult(rs[k]) \in Seq(Letters)
  BY FormatResultHolds
<1> HIDE DEF sep
<1>3. txt \o sep \in Seq(Letters)
  BY <1>1
<1>4. txt \o sep \o FormatResult(rs[k]) \in Seq(Letters)
  BY <1>2, <1>3, Joined
<1> QED BY <1>4 DEF sep

(* What the recursion of FormatResults gives. *)
LEMMA FormatResultsUnfolds ==
  ASSUME NEW rs \in Seq(Results)
  PROVE  \E u \in [0 .. Len(rs) -> Seq(Letters)] :
           /\ u[0] = <<>> /\ FormatResults(rs) = u[Len(rs)]
           /\ \A k \in 1 .. Len(rs) : u[k] = u[k - 1] \o (IF k = 1 THEN <<>> ELSE <<Separator>>) \o FormatResult(rs[k])
<1> DEFINE n == Len(rs)
           T == Seq(Letters)
           S(t, k) == t \o (IF k = 1 THEN <<>> ELSE <<Separator>>) \o FormatResult(rs[k])
           W(w) == w = [k \in 0 .. n |-> IF k = 0 THEN <<>> ELSE S(w[k - 1], k)]
           g == [p \in (1 .. n) \X T |-> S(p[2], p[1])]
<1>1. n \in Nat /\ <<>> \in T
  OBVIOUS
<1>2. \A k \in 1 .. n : \A t \in T : S(t, k) \in T
  BY FormatKeeps
<1> HIDE DEF S
<1>3. g \in StepFunctions(n, T) /\ \A k \in 1 .. n : \A t \in T : g[<<k, t>>] = S(t, k)
  <2> HIDE DEF T
  <2> QED BY <1>2 DEF StepFunctions
<1> HIDE DEF g, n, T
<1>4. PICK v \in [0 .. n -> T] : v[0] = <<>> /\ \A k \in 1 .. n : v[k] = g[<<k, v[k - 1]>>]
  <2>1. HasScan(T, <<>>, n, g)
    BY <1>1, <1>3, ScanExists
  <2> QED BY <2>1 DEF HasScan
<1>5. \A k \in 1 .. n : k - 1 \in 0 .. n /\ k \in 0 .. n /\ k # 0
  BY <1>1
<1>6. \A k \in 1 .. n : v[k] = S(v[k - 1], k)
  BY <1>3, <1>4, <1>5
<1>7. W(v)
  <2>1. \A k \in 0 .. n : k = 0 \/ k \in 1 .. n
    BY <1>1
  <2>2. \A k \in 0 .. n : v[k] = IF k = 0 THEN <<>> ELSE S(v[k - 1], k)
    BY <2>1, <1>4, <1>6
  <2> QED BY <2>2, <1>4
<1> DEFINE u == CHOOSE w : W(w)
<1>8. W(u)
  BY <1>7
<1>9. FormatResults(rs) = u[n]
  BY DEF FormatResults, n, S
<1> HIDE DEF u
<1>10. DOMAIN u = 0 .. n /\ u[0] = <<>> /\ \A k \in 1 .. n : u[k] = S(u[k - 1], k)
  <2>1. 0 \in 0 .. n
    BY <1>1
  <2> QED BY <2>1, <1>5, <1>8
<1>11. \A k \in 0 .. n : u[k] \in T
  <2> DEFINE G == {m \in 0 .. n : u[m] \in T}
  <2>1. 0 \in G
    BY <1>1, <1>10
  <2>2. \A k \in 1 .. n : k - 1 \in G => k \in G
    BY <1>2, <1>5, <1>10
  <2> HIDE DEF G
  <2>3. \A k \in 0 .. n : k \in G
    BY <2>1, <2>2, <1>1, UpTo
  <2> QED BY <2>3 DEF G
<1>12. u \in [0 .. n -> T]
  <2>1. u = [k \in 0 .. n |-> u[k]]
    BY <1>8, <1>10
  <2> QED BY <2>1, <1>11
<1> QED BY <1>9, <1>10, <1>12 DEF n, T, S

(* The positions of the results with an error among the first k. *)
Failed(rs, k) == {i \in 1 .. k : rs[i].error # NoError}

(* What the reader of a result string counts. *)
LEMMA FormatResultsHolds ==
  ASSUME NEW rs \in Seq(Results)
  PROVE  /\ rs # <<>> => Occurrences(FormatResults(rs), Separator) = Len(rs) - 1
         /\ Occurrences(FormatResults(rs), Colon) = 2 * Len(rs) + Cardinality(Failed(rs, Len(rs)))
<1> DEFINE n == Len(rs)
<1>1. PICK u \in [0 .. n -> Seq(Letters)] :
        /\ u[0] = <<>> /\ FormatResults(rs) = u[n]
        /\ \A k \in 1 .. n : u[k] = u[k - 1] \o (IF k = 1 THEN <<>> ELSE <<Separator>>) \o FormatResult(rs[k])
  BY FormatResultsUnfolds
<1> DEFINE G == {k \in 0 .. n :
                  /\ Occurrences(u[k], Separator) = IF k = 0 THEN 0 ELSE k - 1
                  /\ Occurrences(u[k], Colon) = 2 * k + Cardinality(Failed(rs, k))}
<1>2. n \in Nat /\ 0 \in 0 .. n /\ n \in 0 .. n /\ (rs # <<>> => n # 0)
  OBVIOUS
<1>3. \A k \in 0 .. n : IsFiniteSet(Failed(rs, k)) /\ Cardinality(Failed(rs, k)) \in Nat
  <2> SUFFICES ASSUME NEW k \in 0 .. n PROVE IsFiniteSet(Failed(rs, k)) /\ Cardinality(Failed(rs, k)) \in Nat
    OBVIOUS
  <2>1. IsFiniteSet(1 .. k)
    BY <1>2, FS_Interval
  <2>2. Failed(rs, k) \subseteq 1 .. k
    BY DEF Failed
  <2> QED BY <2>1, <2>2, FS_Subset, FS_CardinalityType
<1>4. \A c : Occurrences(<<>>, c) = 0
  <2>1. \A c : {i \in DOMAIN <<>> : <<>>[i] = c} = {}
    OBVIOUS
  <2> QED BY <2>1, FS_EmptySet DEF Occurrences
<1>5. 0 \in G
  <2>1. Failed(rs, 0) = {}
    BY DEF Failed
  <2>2. Cardinality(Failed(rs, 0)) = 0
    BY <2>1, FS_EmptySet
  <2> QED BY <1>1, <1>2, <1>4, <2>2
<1> HIDE DEF n
<1>6. ASSUME NEW k \in 1 .. n, k - 1 \in G PROVE k \in G
  <2> DEFINE sep == IF k = 1 THEN <<>> ELSE <<Separator>>
             t == u[k - 1]
             one == FormatResult(rs[k])
             e == Cardinality(Failed(rs, k - 1))
  <2>0. k \in Nat /\ k # 0 /\ k - 1 \in 0 .. n /\ k \in 0 .. n /\ (k - 1 = 0 <=> k = 1)
    BY <1>2
  <2>1. /\ t \in Seq(Letters) /\ e \in Nat /\ Occurrences(t, Separator) = (IF k = 1 THEN 0 ELSE k - 2)
        /\ Occurrences(t, Colon) = 2 * (k - 1) + e
    BY <2>0, <1>3, <1>6
  <2>2. /\ sep \in Seq(Letters) /\ Occurrences(sep, Separator) = (IF k = 1 THEN 0 ELSE 1)
        /\ Occurrences(sep, Colon) = 0
    <3>1. Separator \in Letters /\ Separator # Colon
      BY DEF Letters, Separator, Colon
    <3>2. /\ <<Separator>> \in Seq(Letters) /\ Occurrences(<<Separator>>, Separator) = 1
          /\ Occurrences(<<Separator>>, Colon) = 0
      BY <3>1, OccurrencesOne
    <3> QED BY <1>4, <3>2
  <2>3. /\ one \in Seq(Letters) /\ Occurrences(one, Separator) = 0
        /\ Occurrences(one, Colon) = IF rs[k].error = NoError THEN 2 ELSE 3
    BY FormatResultHolds DEF n
  <2>4. Cardinality(Failed(rs, k)) = IF rs[k].error = NoError THEN e ELSE e + 1
    <3>1. \A i : i \in 1 .. k <=> i \in 1 .. k - 1 \/ i = k
      BY <2>0
    <3>2. k \notin 1 .. k - 1
      BY <2>0
    <3>3. CASE rs[k].error = NoError
      <4>1. \A i : i \in Failed(rs, k) <=> i \in Failed(rs, k - 1)
        BY <3>1, <3>3 DEF Failed
      <4>2. Failed(rs, k) = Failed(rs, k - 1)
        BY <4>1
      <4> QED BY <3>3, <4>2
    <3>4. CASE rs[k].error # NoError
      <4>1. \A i : i \in Failed(rs, k) <=> i \in Failed(rs, k - 1) \/ i = k
        BY <3>1, <3>4 DEF Failed
      <4>2. Failed(rs, k) = Failed(rs, k - 1) \cup {k} /\ k \notin Failed(rs, k - 1)
        BY <4>1, <3>2 DEF Failed
      <4> QED BY <1>3, <2>0, <3>4, <4>2, FS_AddElement
    <3> QED BY <3>3, <3>4
  <2>5. u[k] = t \o sep \o one
    BY <1>1
  <2> HIDE DEF sep, t, one, e
  <2>6. /\ t \o sep \in Seq(Letters) /\ Occurrences(t \o sep, Separator) = k - 1
        /\ Occurrences(t \o sep, Colon) = 2 * (k - 1) + e
    <3>1. /\ t \o sep \in Seq(Letters)
          /\ Occurrences(t \o sep, Separator) = Occurrences(t, Separator) + Occurrences(sep, Separator)
          /\ Occurrences(t \o sep, Colon) = Occurrences(t, Colon) + Occurrences(sep, Colon)
      BY <2>1, <2>2, Joined
    <3> QED BY <2>0, <2>1, <2>2, <3>1
  <2> DEFINE h == t \o sep
  <2> HIDE DEF h
  <2>7. /\ Occurrences(h \o one, Separator) = Occurrences(h, Separator) + Occurrences(one, Separator)
        /\ Occurrences(h \o one, Colon) = Occurrences(h, Colon) + Occurrences(one, Colon)
    BY <2>3, <2>6, Joined DEF h
  <2>8. Occurrences(h, Separator) = k - 1 /\ Occurrences(h, Colon) = 2 * (k - 1) + e /\ u[k] = h \o one
    BY <2>5, <2>6 DEF h
  <2>9. Occurrences(u[k], Separator) = k - 1 /\ Occurrences(u[k], Colon) = 2 * k + Cardinality(Failed(rs, k))
    <3>1. e \in Nat
      BY <2>1
    <3> QED BY <2>0, <2>3, <2>4, <2>7, <2>8, <3>1
  <2> QED BY <2>0, <2>9
<1> HIDE DEF G
<1>7. n \in G
  BY <1>2, <1>5, <1>6, UpTo
<1> QED BY <1>1, <1>2, <1>7 DEF G, n

(* What parse_params makes of a value is what was meant with it. *)
LEMMA ParsedIsMeant ==
  ASSUME NEW v \in Texts PROVE ValueArrives(v, ParseValue(Trim(v)))
<1> DEFINE w == Trim(v)
<1>1. v.text \in TextClasses /\ v.number \in Int /\ IntBound \in Nat /\ IntBound # 0
  BY CApiAssumption, IntAssumption
<1>2. w.text = v.text /\ w.number = v.number /\ w.blanks = FALSE
  <2>1. v = [text |-> v.text, number |-> v.number, blanks |-> v.blanks]
    BY CApiAssumption
  <2> QED BY <2>1 DEF Trim
<1> HIDE DEF w
<1>3. CASE v.text = "numeral"
  <2>1. ParseValue(w) = <<"int", CastToInt(v.number)>>
    BY <1>2, <1>3 DEF ParseValue
  <2>2. v.number \in -IntBound .. IntBound - 1 => CastToInt(v.number) = v.number
    <3> SUFFICES ASSUME v.number \in -IntBound .. IntBound - 1 PROVE CastToInt(v.number) = v.number
      OBVIOUS
    <3> DEFINE m == v.number + IntBound
    <3>1. m \in Nat /\ m < 2 * IntBound
      BY <1>1
    <3>2. m % (2 * IntBound) = m
      BY <3>1, <1>1
    <3> QED BY <3>2, <1>1 DEF CastToInt
  <2> QED BY <1>3, <2>1, <2>2 DEF ValueArrives, w
<1>4. CASE v.text = "fraction"
  <2>1. ParseValue(w) = <<"double", v.number>>
    BY <1>2, <1>4 DEF ParseValue
  <2> QED BY <1>4, <2>1 DEF ValueArrives, w
<1>5. CASE v.text \in {"true", "TRUE"}
  <2>1. ParseValue(w) = <<"bool", TRUE>>
    BY <1>2, <1>5 DEF ParseValue
  <2> QED BY <1>5, <2>1 DEF ValueArrives, w
<1>6. CASE v.text \in {"false", "FALSE"}
  <2>1. ParseValue(w) = <<"bool", FALSE>>
    BY <1>2, <1>6 DEF ParseValue
  <2> QED BY <1>6, <2>1 DEF ValueArrives, w
<1>7. CASE v.text \in {"", "word"}
  <2>1. ParseValue(w) = <<"string", w>>
    BY <1>2, <1>7 DEF ParseValue
  <2>2. ParseValue(w)[1] = "string" /\ ParseValue(w)[2] = w
    BY <2>1
  <2>3. ValueArrives(v, ParseValue(w))
    BY <1>2, <1>7, <2>2 DEF ValueArrives
  <2> QED BY <2>3 DEF w
<1> QED BY <1>1, <1>3, <1>4, <1>5, <1>6, <1>7 DEF TextClasses

(* The C interface: the invariant. *)

(* An address without an engine has no types, and the types of an engine are *)
(* those registered since it was created.                                    *)
RegistriesInv ==
  /\ engineAt \in [EngineAddresses -> Nat]
  /\ DOMAIN registeredTypes = EngineAddresses /\ DOMAIN typeRegistry = EngineAddresses
  /\ created \in Nat
  /\ \A p \in EngineAddresses : \A r \in registeredTypes[p] \cup typeRegistry[p] :
       r[1] = engineAt[p] /\ engineAt[p] # 0

(* What is read exactly is read at least. *)
LEMMA ExactIsAtLeast ==
  ASSUME NEW txt \in Seq(Tokens), NEW fs \in Seq(ObjectFields), NEW bad, ReadsAsMeant(txt, fs, bad)
  PROVE  ReadsAtLeast(txt, fs)
<1>1. Len(fs) \in Nat
  OBVIOUS
<1> QED BY <1>1 DEF ReadsAsMeant, ReadsAtLeast

(* The strings in progress. *)
StringsInv ==
  /\ params \in Seq(Tokens) /\ meant \in Seq(ObjectFields)
  /\ garbled \in BOOLEAN /\ split \in BOOLEAN
  /\ ReadsAtLeast(params, meant) /\ (~split => ReadsAsMeant(params, meant, garbled))
  /\ ResultsSplitBack

(* The inductive invariant of the C interface. *)
CApiInv == RegistriesInv /\ StringsInv

(* Nothing is registered and nothing was said at first. *)
LEMMA CApiInvInit == CApiInit => CApiInv
<1> SUFFICES ASSUME CApiInit PROVE CApiInv
  OBVIOUS
<1>1. RegistriesInv
  BY DEF CApiInit, RegistriesInv
<1>2. params = <<>> /\ meant = <<>> /\ garbled = FALSE /\ split = FALSE
      /\ results = [of |-> <<>>, text |-> <<>>]
  BY DEF CApiInit
<1>3. <<>> \in Seq(Tokens) /\ <<>> \in Seq(ObjectFields) /\ Len(<<>>) = 0
  OBVIOUS
<1>4. ReadsAsMeant(<<>>, <<>>, FALSE) /\ ReadsAtLeast(<<>>, <<>>)
  <2>1. ReadsAsMeant(<<>>, <<>>, FALSE)
    BY ReadNothing DEF ReadsAsMeant, NothingRead
  <2> QED BY <1>3, <2>1, ExactIsAtLeast
<1>5. ResultsSplitBack
  <2>1. {i \in DOMAIN <<>> : <<>>[i] = Colon} = {} /\ {i \in DOMAIN <<>> : <<>>[i].error # NoError} = {}
    OBVIOUS
  <2> QED BY <1>2, <1>3, <2>1, FS_EmptySet DEF ResultsSplitBack, Occurrences
<1> QED BY <1>1, <1>2, <1>3, <1>4, <1>5 DEF CApiInv, StringsInv

(* An engine comes, goes, or gets a type: the strings stay. *)
LEMMA RegistriesKept ==
  ASSUME CApiInv, NEW p \in EngineAddresses,
         \/ EngineCreate(p) \/ EngineDestroy(p)
         \/ \E t \in TypeNames : EngineRegisterType(p, t) \/ RegisterType(p, t)
  PROVE  CApiInv'
<1>1. StringsInv' /\ created' \in Nat
  <2>1. params' = params /\ meant' = meant /\ garbled' = garbled /\ split' = split /\ results' = results
    BY DEF EngineCreate, EngineDestroy, EngineRegisterType, RegisterType, stringVars
  <2>2. created' \in Nat
    <3>1. created \in Nat
      BY DEF CApiInv, RegistriesInv
    <3>2. created' = created \/ created' = created + 1
      BY DEF EngineCreate, EngineDestroy, EngineRegisterType, RegisterType
    <3> QED BY <3>1, <3>2
  <2>3. ResultsSplitBack'
    BY <2>1 DEF CApiInv, StringsInv, ResultsSplitBack
  <2>4. ReadsAtLeast(params, meant)' /\ (~split => ReadsAsMeant(params, meant, garbled))'
    BY <2>1 DEF CApiInv, StringsInv, ReadsAsMeant, ReadsAtLeast
  <2> QED BY <2>1, <2>2, <2>3, <2>4 DEF CApiInv, StringsInv
<1>2. CASE EngineCreate(p)
  <2>1. created + 1 \in Nat /\ created + 1 # 0
    BY DEF CApiInv, RegistriesInv
  <2>2. registeredTypes[p] \cup typeRegistry[p] = {}
    BY <1>2 DEF EngineCreate, CApiInv, RegistriesInv
  <2>3. RegistriesInv'
    BY <1>1, <1>2, <2>1, <2>2 DEF EngineCreate, CApiInv, RegistriesInv
  <2> QED BY <1>1, <2>3 DEF CApiInv
<1>3. CASE EngineDestroy(p)
  <2>1. RegistriesInv'
    BY <1>1, <1>3 DEF EngineDestroy, Cleanup, CApiInv, RegistriesInv
  <2> QED BY <1>1, <2>1 DEF CApiInv
<1>4. ASSUME NEW t \in TypeNames, EngineRegisterType(p, t) \/ RegisterType(p, t) PROVE CApiInv'
  <2>1. <<engineAt[p], t>>[1] = engineAt[p]
    OBVIOUS
  <2>2. CASE EngineRegisterType(p, t)
    <3>1. RegistriesInv'
      BY <1>1, <2>2, <2>1 DEF EngineRegisterType, CApiInv, RegistriesInv
    <3> QED BY <1>1, <3>1 DEF CApiInv
  <2>3. CASE RegisterType(p, t)
    <3>1. RegistriesInv'
      BY <1>1, <2>3, <2>1 DEF RegisterType, CApiInv, RegistriesInv
    <3> QED BY <1>1, <3>1 DEF CApiInv
  <2> QED BY <1>4, <2>2, <2>3
<1> QED BY <1>2, <1>3, <1>4

(* A string that grows, is given up or is made of results. *)
LEMMA StringsKept ==
  ASSUME CApiInv,
         \/ FreeParams
         \/ \E p \in EngineAddresses :
              \/ WorkflowExecute(p)
              \/ \E fields \in FieldValues :
                   AddObjectParam(p, fields) \/ \E t \in TypeNames : AddTypedParam(p, t, fields)
  PROVE  CApiInv'
<1>1. RegistriesInv'
  <2>1. UNCHANGED <<engineAt, created, registeredTypes, typeRegistry>>
    BY DEF FreeParams, WorkflowExecute, AddObjectParam, AddTypedParam
  <2> QED BY <2>1 DEF CApiInv, RegistriesInv
<1>2. /\ params \in Seq(Tokens) /\ meant \in Seq(ObjectFields)
      /\ garbled \in BOOLEAN /\ split \in BOOLEAN
      /\ ReadsAtLeast(params, meant) /\ (~split => ReadsAsMeant(params, meant, garbled))
      /\ ResultsSplitBack
  BY DEF CApiInv, StringsInv
<1>3. ASSUME params' \in Seq(Tokens), meant' \in Seq(ObjectFields), garbled' \in BOOLEAN,
             split' \in BOOLEAN, ReadsAtLeast(params', meant'),
             ~split' => ReadsAsMeant(params', meant', garbled'), UNCHANGED results
      PROVE  CApiInv'
  <2>1. ResultsSplitBack'
    BY <1>2, <1>3 DEF ResultsSplitBack
  <2>2. ReadsAtLeast(params, meant)' /\ (~split => ReadsAsMeant(params, meant, garbled))'
    BY <1>3 DEF ReadsAsMeant, ReadsAtLeast
  <2> QED BY <1>1, <1>3, <2>1, <2>2 DEF CApiInv, StringsInv
<1>4. CASE FreeParams
  <2>1. <<>> \in Seq(Tokens) /\ <<>> \in Seq(ObjectFields) /\ Len(<<>>) = 0
    OBVIOUS
  <2>2. ReadsAsMeant(<<>>, <<>>, FALSE)
    BY <2>1, ReadNothing DEF ReadsAsMeant, NothingRead
  <2>3. ReadsAtLeast(<<>>, <<>>)
    BY <2>1, <2>2, ExactIsAtLeast
  <2> QED BY <1>3, <1>4, <2>1, <2>2, <2>3 DEF FreeParams
<1>5. ASSUME NEW p \in EngineAddresses, WorkflowExecute(p) PROVE CApiInv'
  <2>1. UNCHANGED <<params, meant, garbled, split>>
    BY <1>5 DEF WorkflowExecute
  <2>2. CASE UNCHANGED results
    BY <1>2, <1>3, <2>1, <2>2
  <2>3. CASE \E rs \in ResultLists : results' = [of |-> rs, text |-> FormatResults(rs)]
    <3>1. PICK rs \in ResultLists : results' = [of |-> rs, text |-> FormatResults(rs)]
      BY <2>3
    <3>2. rs \in Seq(Results) /\ DOMAIN rs = 1 .. Len(rs)
      <4>1. ResultLists \subseteq Seq(Results)
        BY CApiAssumption DEF Results
      <4>2. rs \in Seq(Results)
        BY <4>1
      <4> QED BY <4>2
    <3>3. Failed(rs, Len(rs)) = {i \in DOMAIN rs : rs[i].error # NoError}
      BY <3>2 DEF Failed
    <3>4. results'.of = rs /\ results'.text = FormatResults(rs)
      BY <3>1
    <3>5. ResultsSplitBack'
      BY <3>2, <3>3, <3>4, FormatResultsHolds DEF ResultsSplitBack
    <3>6. ReadsAtLeast(params, meant)' /\ (~split => ReadsAsMeant(params, meant, garbled))'
      BY <1>2, <2>1 DEF ReadsAsMeant, ReadsAtLeast
    <3> QED BY <1>1, <1>2, <2>1, <3>5, <3>6 DEF CApiInv, StringsInv
  <2> QED BY <1>5, <2>2, <2>3 DEF WorkflowExecute
<1>6. ASSUME NEW p \in EngineAddresses, NEW fields \in FieldValues,
             AddObjectParam(p, fields) \/ \E t \in TypeNames : AddTypedParam(p, t, fields)
      PROVE  CApiInv'
  <2>1. fields \in Seq(ObjectFields)
    BY CApiAssumption
  <2>2. meant \o fields \in Seq(ObjectFields)
    BY <1>2, <2>1
  <2>3. ASSUME NEW txt \in Seq(Tokens), NEW typed \in BOOLEAN, NEW bad \in BOOLEAN,
               ReadsAtLeast(txt, meant), ~split => ReadsAsMeant(txt, meant, bad),
               params' = Appended(txt, fields, typed), Mean(fields), garbled' = bad,
               UNCHANGED results
        PROVE  CApiInv'
    <3>1. params' \in Seq(Tokens) /\ ReadsAtLeast(params', meant)
      BY <1>2, <2>1, <2>3, AppendedReadsOn
    <3>2. split' \in BOOLEAN /\ (split' <=> split \/ Splits(fields))
          /\ meant' = IF split' THEN meant ELSE meant \o fields
      BY <1>2, <2>3 DEF Mean, Splits
    <3>3. CASE split'
      BY <1>2, <1>3, <2>3, <3>1, <3>2, <3>3
    <3>4. CASE ~split'
      <4>1. ReadsAsMeant(params', meant', bad) /\ meant' = meant \o fields
        BY <1>2, <2>1, <2>3, <3>2, <3>4, AppendedReads
      <4>2. ReadsAtLeast(params', meant')
        BY <2>2, <3>1, <4>1, ExactIsAtLeast
      <4> QED BY <1>3, <2>2, <2>3, <3>1, <3>2, <4>1, <4>2
    <3> QED BY <3>3, <3>4
  <2>4. CASE AddObjectParam(p, fields)
    <3> DEFINE bad == garbled \/ params # <<>>
               txt == IF params = <<>> THEN params ELSE Append(params, Semicolon)
    <3>1. bad \in BOOLEAN /\ txt \in Seq(Tokens) /\ Semicolon \in Tokens
      BY <1>2, FieldTokenParts
    <3>2. ReadsAtLeast(txt, meant) /\ (~split => ReadsAsMeant(txt, meant, bad))
      <4>1. CASE params = <<>>
        BY <1>2, <4>1
      <4>2. CASE params # <<>>
        <5>1. ReadTokens(txt) = ReadToken(ReadTokens(params), Semicolon)
          BY <1>2, <4>2, <3>1, ReadAppend
        <5>2. ReadTokens(txt).found = ReadTokens(params).found
          BY <5>1, FieldTokenParts DEF ReadToken
        <5>3. ReadsAtLeast(txt, meant)
          BY <1>2, <4>2, <3>1, ReadsOn
        <5> HIDE DEF txt
        <5> QED BY <1>2, <4>2, <5>2, <5>3 DEF ReadsAsMeant
      <4> QED BY <4>1, <4>2
    <3>3. params' = Appended(txt, fields, FALSE) /\ Mean(fields) /\ garbled' = bad /\ UNCHANGED results
      BY <2>4 DEF AddObjectParam
    <3> HIDE DEF txt, bad
    <3> QED BY <2>3, <3>1, <3>2, <3>3
  <2>5. ASSUME NEW t \in TypeNames, AddTypedParam(p, t, fields) PROVE CApiInv'
    <3>1. UNCHANGED <<garbled, results>>
      BY <2>5 DEF AddTypedParam
    <3>2. CASE params' = Appended(params, fields, TRUE) /\ Mean(fields)
      BY <1>2, <2>3, <3>1, <3>2
    <3>3. CASE UNCHANGED <<params, meant, split>>
      BY <1>2, <1>3, <3>1, <3>3
    <3> QED BY <2>5, <3>2, <3>3 DEF AddTypedParam
  <2> QED BY <1>6, <2>4, <2>5
<1> QED BY <1>4, <1>5, <1>6

(* Every step keeps the invariant. *)
LEMMA CApiInvStep == CApiInv /\ [CApiNext]_capiVars => CApiInv'
<1> SUFFICES ASSUME CApiInv, [CApiNext]_capiVars PROVE CApiInv'
  OBVIOUS
<1>1. CASE UNCHANGED capiVars
  <2>1. RegistriesInv'
    BY <1>1 DEF capiVars, CApiInv, RegistriesInv
  <2>2. ResultsSplitBack'
    BY <1>1 DEF capiVars, CApiInv, StringsInv, ResultsSplitBack
  <2>3. ReadsAtLeast(params, meant)' /\ (~split => ReadsAsMeant(params, meant, garbled))'
    BY <1>1 DEF capiVars, CApiInv, StringsInv, ReadsAsMeant, ReadsAtLeast
  <2> QED BY <1>1, <2>1, <2>2, <2>3 DEF capiVars, CApiInv, StringsInv
<1>2. CASE CApiNext
  BY <1>2, RegistriesKept, StringsKept DEF CApiNext
<1> QED BY <1>1, <1>2

(* The invariant says that what crosses the interface arrives. *)
LEMMA CApiInvImplies == CApiInv => CallersGetTheirOwn
<1> SUFFICES ASSUME CApiInv PROVE CallersGetTheirOwn
  OBVIOUS
<1>1. NoInheritedTypes
  BY DEF CApiInv, RegistriesInv, NoInheritedTypes
<1>2. ParametersArrive
  <2> DEFINE found == ReadTokens(params).found
  <2>1. meant \in Seq(ObjectFields) /\ ReadsAtLeast(params, meant)
        /\ (~split => ReadsAsMeant(params, meant, garbled))
    BY DEF CApiInv, StringsInv
  <2>2. Len(found) >= Len(meant) /\ (~split => Len(found) = Len(meant))
    BY <2>1 DEF ReadsAtLeast, ReadsAsMeant
  <2>3. ASSUME NEW n \in DOMAIN meant
        PROVE  /\ found[n].key = Prefixed(meant[n].name)
               /\ ValueArrives(meant[n].value, found[n].value)
               /\ ~garbled /\ ~split => found[n].inFront = 0
    <3>1. meant[n].value \in Texts
      <4>1. meant[n] \in ObjectFields
        BY <2>1
      <4> QED BY <4>1, OwnToken
    <3>2. found[n].key = Prefixed(meant[n].name)
          /\ found[n].value = ParseValue(Trim(meant[n].value))
      BY <2>1 DEF ReadsAtLeast
    <3>3. ~garbled /\ ~split => found[n].inFront = 0
      BY <2>1 DEF ReadsAsMeant
    <3> QED BY <3>1, <3>2, <3>3, ParsedIsMeant
  <2> HIDE DEF found
  <2> QED BY <2>2, <2>3 DEF ParametersArrive, ParseParams, found
<1> QED BY <1>1, <1>2 DEF CApiInv, StringsInv, CallersGetTheirOwn

(* Types and interface step on their own. *)
LEMMA DataInvStep == (BindingInv /\ CApiInv) /\ [LuaNext]_luaVars => (BindingInv /\ CApiInv)'
<1> SUFFICES ASSUME BindingInv, CApiInv, [LuaNext]_luaVars PROVE BindingInv' /\ CApiInv'
  OBVIOUS
<1>1. [BindingNext]_bindingVars
  BY DEF LuaNext, luaVars, Rules1, Registry1, Host1, Sandbox1, Types1, CApi1, Aot1, Screening1,
         Values1, Rest
<1>2. [CApiNext]_capiVars
  BY DEF LuaNext, luaVars, Rules1, Registry1, Host1, Sandbox1, Types1, CApi1, Aot1, Screening1,
         Values1, Rest
<1> QED
  BY <1>1, <1>2, BindingInvStep, CApiInvStep

(* For any types, names, fields, methods, declarations, resets, engines,     *)
(* parameters and results: a method that a script kept is alive and is the   *)
(* one bound under its name; once bindTypes has run, a type has all its      *)
(* methods, each the newest, and all its fields; a script reads what was     *)
(* last stored in a field; no engine of the C interface has the types of an  *)
(* earlier one at its address; a result string has as many separators as     *)
(* the results it is of need; and a parameter string is read back as the     *)
(* fields that were put in, integers of int's range and texts without the    *)
(* blanks around them as they were given, except that behind an object that  *)
(* was added to a string names may have separators in front, and that from   *)
(* the call on that added a value with a ';' nothing is claimed of the rest. *)
THEOREM DataArrives == LuaSpec => []ApplicationDataArrives
<1>1. LuaInit => BindingInv /\ CApiInv
  BY BindingInvInit, CApiInvInit DEF LuaInit
<1>2. (BindingInv /\ CApiInv) /\ [LuaNext]_luaVars => (BindingInv /\ CApiInv)'
  BY DataInvStep
<1>3. BindingInv /\ CApiInv => ApplicationDataArrives
  BY BindingInvImplies, CApiInvImplies DEF ApplicationDataArrives
<1> QED
  BY <1>1, <1>2, <1>3, PTL DEF LuaSpec
==============================================================================
