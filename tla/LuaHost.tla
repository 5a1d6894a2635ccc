------------------------------ MODULE LuaHost ------------------------------
(***************************************************************************)
(* What LuaEngine sets up around the run of a script and takes down after  *)
(* it: the parameters as globals of the one Lua state, the thread's        *)
(* current context, and the deadline the hook looks at.  A callback of the *)
(* script may enter the engine again (luaStateMutex_ is recursive), so     *)
(* runs are nested on a stack of frames.  Runs are numbered; a global, the *)
(* context and the deadline are told apart by the run that set them.       *)
(***************************************************************************)
EXTENDS Integers, Sequences

CONSTANTS
  GlobalNames,  \* names of parameters and of globals of the host
  MaxRuns,      \* bound: runs of scripts
  MaxDepth      \* bound: nesting

ASSUME HostAssumption == MaxRuns \in Nat /\ MaxDepth \in Nat

Nil == 0
Host == -1      \* a value the host set with setGlobal

VARIABLES
  luaGlobals,  \* luaGlobals[n]: Nil, Host, or the run whose parameter it is
  tracked,     \* globals_ of the backend
  frames,      \* the runs in progress, the innermost last
  context,     \* currentContext_: the run whose context it points to
  deadline,    \* g_deadline: the run whose deadline it points to, or 0
  expired,     \* runs whose deadline has passed
  ended        \* ended[r]: how run r ended and what it had set

hostVars == <<luaGlobals, tracked, frames, context, deadline, expired, ended>>

RunKinds == {"expression", "action", "coroutine"}
NotEnded == [how |-> "none", late |-> FALSE, objects |-> {}, kind |-> "expression"]
EndedRuns == [how : {"none", "ok", "RuleTimeoutException", "runtime_error"}, late : BOOLEAN,
              objects : SUBSET GlobalNames, kind : RunKinds]
RunFrames == [run : 1 .. MaxRuns, kind : RunKinds, plain : SUBSET GlobalNames,
           objects : SUBSET GlobalNames, timed : BOOLEAN, saved : 0 .. MaxRuns,
           nested : BOOLEAN]

HostInit ==
  /\ luaGlobals = [n \in GlobalNames |-> Nil] /\ tracked = {}
  /\ frames = <<>> /\ context = 0 /\ deadline = 0 /\ expired = {}
  /\ ended = <<>>

Top == frames[Len(frames)]
SetAll(names, v) == [n \in GlobalNames |-> IF n \in names THEN v ELSE luaGlobals[n]]

(* The caller's frame, once a run is nested in it. *)
Interrupted == [i \in DOMAIN frames |->
                  IF i = Len(frames) THEN [frames[i] EXCEPT !.nested = TRUE] ELSE frames[i]]

(* setupContextTable: the thread's pointer moves to the new run's context.   *)
SetupContextTable(run) == run

(* evaluateExpression, executeAction and resumeCoroutine up to the script:   *)
(* the context, the parameters of registered types, the deadline when there  *)
(* is a positive timeout, then the other parameters.  A coroutine has no     *)
(* timeout, and sets its parameters through setGlobal, which tracks them.    *)
Enter(kind, plain, objects, timed) ==
  /\ Len(frames) < MaxDepth /\ Len(ended) < MaxRuns
  /\ plain \cap objects = {} /\ (kind = "coroutine" => ~timed)
  /\ LET run == Len(ended) + 1 IN
       /\ context' = SetupContextTable(run)
       /\ luaGlobals' = SetAll(plain \cup objects, run)
       /\ frames' = Append(Interrupted,
            [run |-> run, kind |-> kind, plain |-> plain, objects |-> objects,
             timed |-> timed, saved |-> deadline, nested |-> FALSE])
       /\ deadline' = IF timed THEN run ELSE deadline
  /\ tracked' = IF kind = "coroutine" THEN tracked \cup plain ELSE tracked
  /\ ended' = Append(ended, NotEnded)
  /\ UNCHANGED expired

(* A bug: the guard forgets the deadline it displaced. *)
DeadlineGuardClears(frame) == 0

(* ~DeadlineGuard *)
DeadlineGuard(frame) == frame.saved

End(how) ==
  /\ frames' = SubSeq(frames, 1, Len(frames) - 1)
  /\ deadline' = DeadlineGuard(Top)
  /\ ended' = [ended EXCEPT ![Top.run] =
       [how |-> how, late |-> Top.run \in expired, objects |-> Top.objects, kind |-> Top.kind]]
  /\ UNCHANGED <<context, expired>>

(* The script ran to its end: the globals are cleared, then the deadline of  *)
(* this run is looked at.                                                    *)
Leave ==
  /\ frames # <<>>
  /\ luaGlobals' = SetAll(Top.plain \cup Top.objects, Nil)
  /\ tracked' = IF Top.kind = "coroutine" THEN tracked \cup Top.plain ELSE tracked
  /\ End(IF Top.timed /\ Top.run \in expired THEN "RuleTimeoutException" ELSE "ok")

(* What lua_pcall clears when the script fails.  An error of a coroutine is  *)
(* thrown out of resumeCoroutine before anything is cleared.                 *)
ClearedOnError(frame) == IF frame.kind = "coroutine" THEN {} ELSE frame.plain

(* The script fails by itself or in a callback, or the hook raises "execution *)
(* timed out"; the exception skips the clearing of the objects.               *)
LeaveByError ==
  /\ frames # <<>>
  /\ luaGlobals' = SetAll(ClearedOnError(Top), Nil)
  /\ End("runtime_error")
  /\ UNCHANGED tracked
HookRaises == deadline \in expired /\ LeaveByError

(* setGlobal and clearGlobals of the host, at any time.                      *)
SetGlobal(n) ==
  /\ luaGlobals' = SetAll({n}, Host) /\ tracked' = tracked \cup {n}
  /\ UNCHANGED <<frames, context, deadline, expired, ended>>
ClearGlobals ==
  /\ luaGlobals' = SetAll(tracked, Nil) /\ tracked' = {}
  /\ UNCHANGED <<frames, context, deadline, expired, ended>>

(* Time passes a deadline. *)
Expire ==
  /\ \E i \in DOMAIN frames : frames[i].timed /\ expired' = expired \cup {frames[i].run}
  /\ UNCHANGED <<luaGlobals, tracked, frames, context, deadline, ended>>

HostNext ==
  \/ \E kind \in RunKinds, plain, objects \in SUBSET GlobalNames, timed \in BOOLEAN :
       Enter(kind, plain, objects, timed)
  \/ Leave \/ LeaveByError \/ HookRaises
  \/ (\E n \in GlobalNames : SetGlobal(n)) \/ ClearGlobals \/ Expire
HostSpec == HostInit /\ [][HostNext]_hostVars

-----------------------------------------------------------------------------
HostTypeOK ==
  /\ luaGlobals \in [GlobalNames -> {Host, Nil} \cup 1 .. MaxRuns]
  /\ tracked \subseteq GlobalNames /\ expired \subseteq 1 .. MaxRuns
  /\ frames \in Seq(RunFrames)
  /\ context \in 0 .. MaxRuns /\ deadline \in 0 .. MaxRuns
  /\ ended \in Seq(EndedRuns) /\ Len(ended) <= MaxRuns

TimedRuns == {i \in DOMAIN frames : frames[i].timed}
Running(r) == \E i \in DOMAIN frames : frames[i].run = r

(* "Saves and restores the previous deadline rather than clearing it": after *)
(* any nesting of runs with and without a timeout, with whatever ending, the *)
(* hook looks at the deadline of the innermost run that has one, and after   *)
(* the outermost at none.                                                    *)
DeadlineIsInnermost ==
  IF TimedRuns = {} THEN deadline = 0
  ELSE \E i \in TimedRuns : deadline = frames[i].run /\ \A j \in TimedRuns : j <= i

(* A parameter outlives its run only when the script failed, and then it is  *)
(* an object of a registered type or belongs to a coroutine: no run that     *)
(* succeeded leaves a value for the next rule to find.                       *)
LeftoversOnlyFromFailures ==
  \A n \in GlobalNames :
    LET r == luaGlobals[n] IN
      r > 0 /\ ~Running(r) =>
        /\ ended[r].how = "runtime_error"
        /\ n \in ended[r].objects \/ ended[r].kind = "coroutine"

(* A script sees its own context and its own parameters, not those of a rule *)
(* that ran before it or of its caller, as long as no run was nested in it   *)
(* and the host left the globals alone.  After a nested run it does not: the *)
(* context and the parameters of the same names are not put back.            *)
SeesOwnInputs ==
  frames # <<>> /\ ~Top.nested =>
    /\ context = Top.run
    /\ \A n \in Top.plain \cup Top.objects : luaGlobals[n] \in {Top.run, Host, Nil}

(* A run whose deadline has passed never reports success, also when the      *)
(* deadline passed in a nested run that had a later one of its own.          *)
OverdueNeverSucceeds == \A r \in DOMAIN ended : ended[r].late => ended[r].how # "ok"

(* Runs of scripts, one after the other or one inside the other, do not mix: *)
(* each has its own inputs and deadline, and leaves nothing it should not.   *)
RunsDoNotMix ==
  HostTypeOK /\ DeadlineIsInnermost /\ LeftoversOnlyFromFailures /\ SeesOwnInputs
    /\ OverdueNeverSucceeds
=============================================================================
