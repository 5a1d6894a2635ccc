----------------------------- MODULE LuaRegistry -----------------------------
(***************************************************************************)
(* What a LuaEngine and its LuaBridge3Backend own inside a Lua state:      *)
(* compiled chunks, coroutine threads, the values handed out to C++, and   *)
(* the closures of the action callbacks.  All of them are slots of the Lua *)
(* registry, handed out by luaL_ref and given back by luaL_unref, which    *)
(* reuses them.  resetState closes the state and opens another one; values *)
(* may outlive it.                                                         *)
(*                                                                         *)
(* luaStateMutex_ makes an operation atomic.  A reset from inside a        *)
(* callback, which closes the state under the running script, is left out. *)
(***************************************************************************)
EXTENDS Integers, Sequences, FiniteSets, FiniteSetsExt, Functions, Maps

CONSTANTS
  MaxEngineRefs,    \* bound: nextRefId_
  MaxValues,        \* bound: LuaValues held by C++ at once
  MaxStates,        \* bound: Lua states opened
  CallbackNames,
  Handlers,         \* the functions registered for them; Stub is one
  Stub

ASSUME RegistryAssumption == 
  /\ Stub \in Handlers /\ MaxEngineRefs \in Nat /\ MaxValues \in Nat
  /\ MaxStates \in Nat \ {0}

VARIABLES
  luaState,     \* which Lua state pImpl_->L is
  slots,        \* registry slots in use in that state
  compiled,     \* compiled_: backend id -> slot (the id of ref r is r)
  coroutines,   \* coroutines_: slot of the thread -> "ready" or "dead"
  engineRefs,   \* refToBackendId_
  handles,      \* coroutineHandles_: ref -> slot of the thread
  nextRefId,
  held,         \* LuaBridgeValues: [state, slot]
  dead,         \* the states whose alive flag is false
  handlers,     \* actionHandlers_, a vector
  handlerIds,   \* actionHandlerIds_
  closures,     \* global name in the Lua state -> handler id, its upvalue
  callbacks,    \* ActionCallbacks::handlers_
  boundAs       \* history: the handler at the last bindActions

registryVars == <<luaState, slots, compiled, coroutines, engineRefs, handles,
                  nextRefId, held, dead, handlers, handlerIds, closures, callbacks, boundAs>>
actionVars == <<handlers, handlerIds, closures, callbacks, boundAs>>
chunkVars == <<compiled, coroutines, engineRefs, handles, nextRefId>>

NoEntries == [x \in {} |-> 0]

RegistryInit ==
  /\ luaState = 1 /\ slots = {} /\ held = {} /\ dead = {}
  /\ compiled = NoEntries /\ coroutines = NoEntries
  /\ engineRefs = {} /\ handles = NoEntries /\ nextRefId = 1
  /\ handlers = <<>> /\ handlerIds = NoEntries /\ closures = NoEntries
  /\ callbacks = NoEntries /\ boundAs = NoEntries

(* luaL_ref takes a freed slot before it grows the registry. *)
FreeSlot(used) == Min(1 .. (Cardinality(used) + 1) \ used)

(* LuaBridgeValue::valid: the flag is the one of the state it was made in.   *)
Valid(v) == v.state \notin dead

-----------------------------------------------------------------------------
(* bindActions: an existing name keeps its slot in the vector. *)
BindOne(name, h) ==
  IF name \in DOMAIN handlerIds
    THEN /\ handlers' = [handlers EXCEPT ![handlerIds[name]] = h]
         /\ handlerIds' = handlerIds
         /\ closures' = MapInsert(closures, name, handlerIds[name])
    ELSE /\ handlers' = Append(handlers, h)
         /\ handlerIds' = MapInsert(handlerIds, name, Len(handlers) + 1)
         /\ closures' = MapInsert(closures, name, Len(handlers) + 1)

(* registerAction and discoverCallbacks, which stubs the names it does not   *)
(* know.  The closures are bound by the next compileAction, or at once.      *)
RegisterAction(name, h) ==
  /\ callbacks' = MapInsert(callbacks, name, h)
  /\ UNCHANGED <<luaState, slots, held, dead, handlers, handlerIds, closures,
                 boundAs, chunkVars>>

DiscoverCallbacks(name) ==
  /\ callbacks' = IF name \in DOMAIN callbacks THEN callbacks
                  ELSE MapInsert(callbacks, name, Stub)
  /\ UNCHANGED <<luaState, slots, held, dead, handlers, handlerIds, closures,
                 boundAs, chunkVars>>

(* forEachHandler visits a map in no order: one name is bound per step.      *)
BindActions(name) ==
  /\ name \in DOMAIN callbacks
  /\ BindOne(name, callbacks[name])
  /\ boundAs' = MapInsert(boundAs, name, callbacks[name])
  /\ UNCHANGED <<luaState, slots, held, dead, callbacks, chunkVars>>

-----------------------------------------------------------------------------
(* compileExpression and compileAction of the backend: the chunk gets a slot *)
(* before the one it replaces is given back.                                 *)
WithChunk(id) ==
  LET s == FreeSlot(slots)
      replaced == IF id \in DOMAIN compiled THEN {compiled[id]} ELSE {}
  IN [slots |-> (slots \cup {s}) \ replaced, compiled |-> MapInsert(compiled, id, s)]

(* The engine's: a reference is used up even when the chunk does not load. *)
CompileRef(loads) ==
  /\ nextRefId <= MaxEngineRefs
  /\ nextRefId' = nextRefId + 1
  /\ IF loads
       THEN LET stored == WithChunk(nextRefId)
            IN /\ slots' = stored.slots /\ compiled' = stored.compiled
               /\ engineRefs' = engineRefs \cup {nextRefId}
       ELSE UNCHANGED <<slots, compiled, engineRefs>>
  /\ UNCHANGED <<luaState, coroutines, handles, held, dead, actionVars>>

(* createCoroutine: a thread, in a slot of its own, that runs the chunk. *)
CreateCoroutine(stored) ==
  LET t == FreeSlot(stored.slots)
  IN /\ slots' = stored.slots \cup {t} /\ compiled' = stored.compiled
     /\ coroutines' = MapInsert(coroutines, t, "ready")
     /\ handles' = MapInsert(handles, nextRefId, t)
CompileCoroutine ==
  /\ nextRefId <= MaxEngineRefs
  /\ CreateCoroutine(WithChunk(nextRefId))
  /\ engineRefs' = engineRefs \cup {nextRefId}
  /\ nextRefId' = nextRefId + 1
  /\ UNCHANGED <<luaState, held, dead, actionVars>>

(* resumeCoroutine: it yields, ends or fails; a finished thread only fails.  *)
(* await repeats it until it ends, and leaves the thread where it is.        *)
Resumed(thread) == IF coroutines[thread] = "ready" THEN {"ready", "dead"} ELSE {"dead"}
Resume(r) ==
  /\ r \in DOMAIN handles /\ handles[r] \in DOMAIN coroutines
  /\ \E after \in Resumed(handles[r]) :
       coroutines' = [coroutines EXCEPT ![handles[r]] = after]
  /\ UNCHANGED <<luaState, slots, compiled, engineRefs, handles, nextRefId, held, dead,
                 actionVars>>

(* releaseRef: removeCompiled, then closeCoroutine, each with its slot. *)
RemoveCompiled(r) == MapErase(compiled, {r})
CloseCoroutine(threads) == MapErase(coroutines, threads)
ThreadOf(r) == IF r \in DOMAIN handles THEN {handles[r]} ELSE {}
ReleaseRef(r) ==
  /\ r \in engineRefs
  /\ slots' = slots \ ({compiled[r]} \cup ThreadOf(r))
  /\ compiled' = RemoveCompiled(r) /\ coroutines' = CloseCoroutine(ThreadOf(r))
  /\ engineRefs' = engineRefs \ {r} /\ handles' = MapErase(handles, {r})
  /\ UNCHANGED <<luaState, nextRefId, held, dead, actionVars>>

(* makeNil ... createTable, getGlobal, evaluate: a value with a slot of its  *)
(* own; its destructor, and a move into it, give the slot back if valid.     *)
MakeValue ==
  /\ Cardinality(held) < MaxValues
  /\ held' = held \cup {[state |-> luaState, slot |-> FreeSlot(slots)]}
  /\ slots' = slots \cup {FreeSlot(slots)}
  /\ UNCHANGED <<luaState, dead, chunkVars, actionVars>>

DestroyValue(v) ==
  /\ v \in held
  /\ held' = held \ {v}
  /\ slots' = IF Valid(v) THEN slots \ {v.slot} ELSE slots
  /\ UNCHANGED <<luaState, dead, chunkVars, actionVars>>

(* A bug: the flag of the closed state is not cleared. *)
ResetForgetsFlag ==
  /\ luaState < MaxStates
  /\ engineRefs' = {} /\ handles' = NoEntries /\ nextRefId' = 1
  /\ compiled' = NoEntries /\ coroutines' = NoEntries /\ slots' = {}
  /\ handlers' = <<>> /\ handlerIds' = NoEntries /\ closures' = NoEntries
  /\ boundAs' = NoEntries
  /\ dead' = dead /\ luaState' = luaState + 1
  /\ UNCHANGED <<held, callbacks>>

(* resetState and LuaBridge3Backend::reset; the first two registries are the *)
(* engine's, the rest the backend's.  bindActions then binds every callback. *)
ResetRegistry ==
  /\ luaState < MaxStates
  /\ engineRefs' = {} /\ handles' = NoEntries /\ nextRefId' = 1
  /\ compiled' = NoEntries /\ coroutines' = NoEntries /\ slots' = {}
  /\ handlers' = <<>> /\ handlerIds' = NoEntries /\ closures' = NoEntries
  /\ boundAs' = NoEntries
  /\ dead' = dead \cup {luaState} /\ luaState' = luaState + 1
  /\ UNCHANGED <<held, callbacks>>

RegistryNext ==
  \/ \E n \in CallbackNames :
       (\E h \in Handlers : RegisterAction(n, h)) \/ DiscoverCallbacks(n) \/ BindActions(n)
  \/ (\E loads \in BOOLEAN : CompileRef(loads)) \/ CompileCoroutine
  \/ \E r \in 1 .. MaxEngineRefs : Resume(r) \/ ReleaseRef(r)
  \/ MakeValue \/ (\E v \in held : DestroyValue(v))
  \/ ResetRegistry
RegistrySpec == RegistryInit /\ [][RegistryNext]_registryVars

-----------------------------------------------------------------------------
RegistryTypeOK ==
  /\ luaState \in 1 .. MaxStates /\ nextRefId \in 1 .. MaxEngineRefs + 1
  /\ slots \subseteq Nat \ {0}
  /\ Range(compiled) \subseteq slots /\ DOMAIN coroutines \subseteq slots
  /\ held \subseteq [state : 1 .. MaxStates, slot : Nat \ {0}]
  /\ dead \subseteq 1 .. MaxStates
  /\ handlers \in Seq(Handlers) /\ Range(closures) \subseteq DOMAIN handlers

(* Every slot of the registry has exactly one owner: a chunk, a thread or a   *)
(* value of this state.  Nothing leaks, and a value that outlives resetState  *)
(* never frees a slot of the new state.                                       *)
OneOwnerPerSlot ==
  LET mine == {v \in held : v.state = luaState}
      values == {v.slot : v \in mine}
  IN /\ slots = Range(compiled) \cup DOMAIN coroutines \cup values
     /\ Cardinality(slots) = Cardinality(DOMAIN compiled) + Cardinality(DOMAIN coroutines)
                               + Cardinality(mine)

(* A reference of the engine always finds its chunk, and a coroutine its      *)
(* thread; no thread stays behind without a reference.                        *)
RefsResolve ==
  /\ engineRefs = DOMAIN compiled
  /\ DOMAIN handles \subseteq engineRefs
  /\ Range(handles) = DOMAIN coroutines

(* A closure calls the handler its name had when it was bound, and the vector *)
(* of handlers does not grow with every bindActions.                          *)
ClosuresCallTheirHandler ==
  /\ \A n \in DOMAIN closures : handlers[closures[n]] = boundAs[n]
  /\ Len(handlers) = Cardinality(DOMAIN closures)

(* Through compilations, releases, values that outlive a reset and new      *)
(* bindings, the registry of the state and the tables of engine and backend *)
(* agree: no slot is leaked or shared, no reference dangles.                *)
RegistryAgrees == RegistryTypeOK /\ OneOwnerPerSlot /\ RefsResolve /\ ClosuresCallTheirHandler
=============================================================================
