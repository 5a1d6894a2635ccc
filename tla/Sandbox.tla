------------------------------ MODULE Sandbox ------------------------------
(***************************************************************************)
(* SandboxManager and SandboxGuard on Lua states that are opened and       *)
(* closed at a few addresses.  A state has one hook slot and one           *)
(* allocator; the engine that opens a state may have put its timeout hook  *)
(* into the slot.  The manager keeps an entry per address and a pointer to *)
(* it in the registry of the state.                                        *)
(***************************************************************************)
EXTENDS Integers, Sequences

CONSTANTS
  Addresses,      \* where lua_newstate may put a state
  MemoryLimits,   \* values of maxMemoryBytes_, 0 for unlimited
  BlockSizes,     \* sizes of blocks
  MaxOpened,      \* bound: states opened
  MaxGrowth       \* bound: bytes

ASSUME SandboxAssumption ==
  /\ MemoryLimits \subseteq Nat /\ BlockSizes \subseteq Nat \ {0}
  /\ MaxOpened \in Nat /\ MaxGrowth \in Nat

NoEntry == [id |-> 0, memUsed |-> 0, memLimit |-> 0, ceiling |-> 0,
            chained |-> "none"]
ClosedState == [own |-> "none", hook |-> "none", alloc |-> 0, registry |-> 0, grown |-> 0]

Hooks == {"none", "timeout"}
StateEntries == [id : 0 .. MaxOpened, memUsed : Nat, memLimit : Nat, ceiling : Nat, chained : Hooks]
LuaStates == [own : Hooks, hook : Hooks \cup {"sandbox"}, alloc : 0 .. MaxOpened,
              registry : 0 .. MaxOpened, grown : Int]
SandboxGuards == [at : Addresses, was : BOOLEAN]

VARIABLES
  lua,        \* lua[a]: the open state at address a, or ClosedState; own is the hook
              \* it was opened with, alloc the entry its allocator works for
  isOpen,     \* addresses with an open state
  entries,    \* sandboxedStates_[a], or NoEntry
  opened,     \* states opened so far; the id of a state
  nextEntry,  \* ids of SandboxStateData
  enabled, maxMemory,  \* the configuration
  guards,     \* SandboxGuards in scope: [at, was], the innermost last
  misused     \* addresses where the entry of a closed state was used on a new one

sandboxVars == <<lua, isOpen, entries, opened, nextEntry, enabled, maxMemory, guards, misused>>

SandboxInit ==
  /\ lua = [a \in Addresses |-> ClosedState] /\ isOpen = {}
  /\ entries = [a \in Addresses |-> NoEntry]
  /\ opened = 0 /\ nextEntry = 1 /\ guards = <<>> /\ misused = {}
  /\ enabled = TRUE /\ maxMemory \in MemoryLimits

(* luaL_newstate, and setupEnvironment when it is an engine's state.  A state *)
(* may be closed without removeSandbox.                                       *)
OpenState(a, own) ==
  /\ a \notin isOpen /\ opened < MaxOpened
  /\ isOpen' = isOpen \cup {a} /\ opened' = opened + 1
  /\ lua' = [lua EXCEPT ![a] = [ClosedState EXCEPT !.own = own, !.hook = own]]
  /\ misused' = misused \ {a}
  /\ UNCHANGED <<entries, nextEntry, enabled, maxMemory, guards>>
CloseState(a) ==
  /\ a \in isOpen /\ \A i \in DOMAIN guards : guards[i].at # a
  /\ isOpen' = isOpen \ {a} /\ lua' = [lua EXCEPT ![a] = ClosedState]
  /\ UNCHANGED <<entries, opened, nextEntry, enabled, maxMemory, guards, misused>>

ConfigureSandbox(on, limit) ==
  /\ enabled' = on /\ maxMemory' = limit
  /\ UNCHANGED <<lua, isOpen, entries, opened, nextEntry, guards, misused>>

(* isSandboxed looks at the address only, applySandbox at the registry too.  *)
IsSandboxed(a) == entries[a] # NoEntry
IsStale(a) == IsSandboxed(a) /\ lua[a].registry # entries[a].id

(* setInstructionLimit: the hook in the slot is remembered, unless it is the *)
(* sandbox's own.                                                            *)
Chained(a) == IF lua[a].hook = "sandbox" THEN "none" ELSE lua[a].hook

(* applySandbox, with setMemoryLimit and setInstructionLimit. *)
Applied(a) ==
  /\ entries' = [entries EXCEPT ![a] =
       [id |-> nextEntry, memUsed |-> 0, memLimit |-> maxMemory,
        ceiling |-> maxMemory, chained |-> Chained(a)]]
  /\ lua' = [lua EXCEPT ![a].registry = nextEntry, ![a].hook = "sandbox",
                        ![a].alloc = nextEntry, ![a].grown = 0]
  /\ nextEntry' = nextEntry + 1
ApplySandbox(a) ==
  /\ a \in isOpen /\ nextEntry <= MaxOpened
  /\ IF ~enabled \/ (IsSandboxed(a) /\ ~IsStale(a))
       THEN UNCHANGED <<lua, entries, nextEntry>> ELSE Applied(a)

(* removeSandbox puts back the hook and the allocator of the entry. *)
Restored(a) == entries[a].chained

(* A bug: the registry keeps pointing to the entry. *)
RemoveSandboxKeepsPointer(a) ==
  /\ a \in isOpen
  /\ IF IsSandboxed(a)
       THEN /\ lua' = [lua EXCEPT ![a].hook = Restored(a), ![a].alloc = 0]
            /\ entries' = [entries EXCEPT ![a] = NoEntry]
            /\ misused' = IF IsStale(a) THEN misused \cup {a} ELSE misused
       ELSE UNCHANGED <<lua, entries, misused>>

RemoveSandbox(a) ==
  /\ a \in isOpen
  /\ IF IsSandboxed(a)
       THEN /\ lua' = [lua EXCEPT ![a].hook = Restored(a), ![a].registry = 0, ![a].alloc = 0]
            /\ entries' = [entries EXCEPT ![a] = NoEntry]
            /\ misused' = IF IsStale(a) THEN misused \cup {a} ELSE misused
       ELSE UNCHANGED <<lua, entries, misused>>

(* setMemoryLimit and setInstructionLimit on their own. *)
Ceiling(old, new) == IF old = 0 \/ new = 0 THEN 0 ELSE IF new > old THEN new ELSE old
SetMemoryLimit(a, limit) ==
  /\ a \in isOpen /\ IsSandboxed(a)
  /\ entries' = [entries EXCEPT ![a].memLimit = limit, ![a].ceiling = Ceiling(@, limit)]
  /\ UNCHANGED <<lua, isOpen, opened, nextEntry, enabled, maxMemory, guards, misused>>
SetInstructionLimit(a, unlimited) ==
  /\ a \in isOpen /\ IsSandboxed(a)
  /\ LET chained == IF entries[a].chained = "none" THEN Chained(a) ELSE entries[a].chained IN
       /\ entries' = [entries EXCEPT ![a].chained = chained]
       /\ lua' = [lua EXCEPT ![a].hook =
            IF unlimited /\ chained = "none" THEN "none" ELSE "sandbox"]
  /\ misused' = IF IsStale(a) THEN misused \cup {a} ELSE misused
  /\ UNCHANGED <<isOpen, opened, nextEntry, enabled, maxMemory, guards>>

SandboxState(a) == ApplySandbox(a) /\ UNCHANGED <<isOpen, opened, enabled, maxMemory, guards, misused>>
UnsandboxState(a) ==
  /\ RemoveSandbox(a) /\ \A i \in DOMAIN guards : guards[i].at # a
  /\ UNCHANGED <<isOpen, opened, nextEntry, enabled, maxMemory, guards>>

(* A guard undoes what it did and leaves an outer sandbox alone. *)
GuardEnters(a) ==
  /\ a \in isOpen /\ Len(guards) < 2
  /\ guards' = Append(guards, [at |-> a, was |-> IsSandboxed(a)])
  /\ IF IsSandboxed(a) THEN UNCHANGED <<lua, entries, nextEntry>> ELSE ApplySandbox(a)
  /\ UNCHANGED <<isOpen, opened, enabled, maxMemory, misused>>
GuardLeaves ==
  /\ guards # <<>>
  /\ LET g == guards[Len(guards)] IN
       IF g.was THEN UNCHANGED <<lua, entries, misused>> ELSE RemoveSandbox(g.at)
  /\ guards' = SubSeq(guards, 1, Len(guards) - 1)
  /\ UNCHANGED <<isOpen, opened, nextEntry, enabled, maxMemory>>

(* sandboxLimitAlloc.  A block is new, or one of size old the state already  *)
(* had, perhaps from before the sandbox; the count of used bytes saturates.  *)
Freed(isNew, old) == IF isNew THEN 0 ELSE old
AllocAt(a, isNew, old, new) ==
  /\ a \in isOpen /\ lua[a].alloc # 0 /\ lua[a].alloc = entries[a].id
  /\ LET e == entries[a]
         freed == Freed(isNew, old)
         used == (IF freed <= e.memUsed THEN e.memUsed - freed ELSE 0) + new
         grown == lua[a].grown + new - IF isNew THEN 0 ELSE old IN
       /\ grown \in -MaxGrowth .. MaxGrowth
       /\ new = 0 \/ e.memLimit = 0 \/ used <= e.memLimit
       /\ entries' = [entries EXCEPT ![a].memUsed = used]
       /\ lua' = [lua EXCEPT ![a].grown = grown]
  /\ UNCHANGED <<isOpen, opened, nextEntry, enabled, maxMemory, guards, misused>>

(* The hooks that run when the count hook of state a fires:                  *)
(* sandboxInstructionHook finds its entry through the registry.              *)
HooksRun(a) ==
  IF lua[a].hook = "sandbox" /\ lua[a].registry # 0
    THEN {"sandbox", entries[a].chained} ELSE {lua[a].hook}

SandboxNext ==
  \/ \E a \in Addresses : \/ \E own \in Hooks : OpenState(a, own)
                          \/ CloseState(a) \/ SandboxState(a) \/ UnsandboxState(a) \/ GuardEnters(a)
                          \/ \E limit \in MemoryLimits : SetMemoryLimit(a, limit)
                          \/ \E unlimited \in BOOLEAN : SetInstructionLimit(a, unlimited)
                          \/ \E isNew \in BOOLEAN, old \in BlockSizes, new \in BlockSizes \cup {0} :
                               AllocAt(a, isNew, old, new)
  \/ GuardLeaves
  \/ \E on \in BOOLEAN, limit \in MemoryLimits : ConfigureSandbox(on, limit)
SandboxSpec == SandboxInit /\ [][SandboxNext]_sandboxVars

-----------------------------------------------------------------------------
SandboxTypeOK ==
  /\ lua \in [Addresses -> LuaStates] /\ entries \in [Addresses -> StateEntries]
  /\ isOpen \subseteq Addresses /\ misused \subseteq Addresses
  /\ opened \in 0 .. MaxOpened /\ nextEntry \in Nat \ {0}
  /\ enabled \in BOOLEAN /\ maxMemory \in MemoryLimits
  /\ guards \in Seq(SandboxGuards)

(* "installing this hook on an engine's state would silently disable timeouts *)
(* ... To keep both working": the hook a state was opened with runs as long   *)
(* as the state lives, through any order of sandboxes, guards and limits, and *)
(* alone once the sandbox is gone.  Only removeSandbox or a new limit on a    *)
(* state whose address still has the entry of an earlier state disturbs it.   *)
OwnHookKeepsRunning ==
  \A a \in isOpen \ misused :
    /\ lua[a].own \in HooksRun(a)
    /\ lua[a].registry = 0 => lua[a].hook = lua[a].own

(* A sandboxed state points to the entry the manager has for its address; the *)
(* hook and the allocator never work with the data of a state that is gone.   *)
DataBelongsToState ==
  \A a \in isOpen \ misused :
    /\ lua[a].registry # 0 => lua[a].registry = entries[a].id
    /\ lua[a].alloc = lua[a].registry
    /\ lua[a].hook = "sandbox" => lua[a].registry # 0

(* The used bytes stay within the highest limit that was in force, and the    *)
(* state has not grown by more since it was sandboxed: blocks from before,    *)
(* whose release the count cannot see, only make it err on the other side.    *)
GrowthIsCapped ==
  \A a \in isOpen :
    lua[a].registry # 0 =>
      /\ lua[a].grown <= entries[a].memUsed
      /\ entries[a].ceiling # 0 => entries[a].memUsed <= entries[a].ceiling

(* The limits of the sandbox and the timeout of the engine stay in force on  *)
(* every open state, whatever states had its address before.                 *)
LimitsStayInForce == SandboxTypeOK /\ OwnHookKeepsRunning /\ DataBelongsToState /\ GrowthIsCapped
=============================================================================
