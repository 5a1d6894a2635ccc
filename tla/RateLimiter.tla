----------------------------- MODULE RateLimiter ----------------------------
(***************************************************************************)
(* RateLimiter and its use by Rule::execute.  A rule is looked up under    *)
(* its id and, when that allows it, under its name, in two calls of        *)
(* isAllowed; each is atomic under statesMutex_, the pair is not.          *)
(***************************************************************************)
EXTENDS Integers, Sequences, FiniteSets

CONSTANTS
  Callers,        \* threads that execute the rule
  LimitKeys,      \* the keys one execution is checked under, in order
  Second, Minute, \* lengths of the two windows, in ticks of the clock
  Limits,         \* records [perSecond, perMinute, burst], 0 for unlimited
  NoLimit,        \* no configuration for the key
  MaxClock,       \* bound: the clock
  MaxAttempts     \* bound: executions

ASSUME LimiterAssumption ==
  /\ Second \in Nat \ {0} /\ Minute \in Nat /\ Second <= Minute
  /\ MaxClock \in Nat /\ MaxAttempts \in Nat
  /\ Len(LimitKeys) \in Nat \ {0} /\ DOMAIN LimitKeys = 1 .. Len(LimitKeys)
  /\ NoLimit \notin Limits

VARIABLES
  clock,         \* steady_clock
  limits,        \* limits[k]: config of states_[k]
  secondWindow,  \* secondWindow[k], minuteWindow[k]: time stamps, oldest first
  minuteWindow,
  at,            \* at[c]: the key caller c checks next, 0 when it is idle
  log,           \* log[k]: when executions were let through under k's limit
  attempts

limiterVars == <<clock, limits, secondWindow, minuteWindow, at, log, attempts>>

LimiterKeys == DOMAIN LimitKeys
IsEnabled(c) == c # NoLimit /\ (c.perSecond > 0 \/ c.perMinute > 0)

LimiterInit ==
  /\ clock = 0 /\ limits = [k \in LimiterKeys |-> NoLimit]
  /\ secondWindow = [k \in LimiterKeys |-> <<>>] /\ minuteWindow = [k \in LimiterKeys |-> <<>>]
  /\ at = [c \in Callers |-> 0] /\ log = [k \in LimiterKeys |-> <<>>] /\ attempts = 0

(* cleanupOldEntries pops from the front while the stamp is too old. *)
Popped(window, length) ==
  {i \in DOMAIN window : \A j \in 1 .. i : window[j] < clock - length}
Fresh(window, length) == SubSeq(window, Cardinality(Popped(window, length)) + 1, Len(window))

(* The limit of one second is the burst size when there is one. *)
Burst(c) == IF c.burst > 0 THEN c.burst ELSE c.perSecond

(* A bug: off by one. *)
AdmitsOneMore(k) ==
  LET c == limits[k] IN
    /\ c.perSecond > 0 => Len(Fresh(secondWindow[k], Second)) <= Burst(c)
    /\ c.perMinute > 0 => Len(Fresh(minuteWindow[k], Minute)) <= c.perMinute

Admits(k) ==
  LET c == limits[k] IN
    /\ c.perSecond > 0 => Len(Fresh(secondWindow[k], Second)) < Burst(c)
    /\ c.perMinute > 0 => Len(Fresh(minuteWindow[k], Minute)) < c.perMinute

(* isAllowed: an unconfigured key is left alone, a disabled one only cleaned, *)
(* and an execution that is let through is recorded in both windows.          *)
Recorded(window, k, length, ok) ==
  IF limits[k] = NoLimit THEN window
  ELSE [window EXCEPT ![k] = IF ok /\ IsEnabled(limits[k])
                               THEN Append(Fresh(@, length), clock) ELSE Fresh(@, length)]

CheckRate(c) ==
  /\ at[c] = 0 /\ attempts < MaxAttempts
  /\ attempts' = attempts + 1
  /\ at' = [at EXCEPT ![c] = 1]
  /\ UNCHANGED <<clock, limits, secondWindow, minuteWindow, log>>

(* The first key that refuses ends the execution; the keys before it have    *)
(* recorded it all the same.                                                 *)
IsAllowed(c) ==
  /\ at[c] > 0
  /\ LET k == at[c]
         ok == IsEnabled(limits[k]) => Admits(k) IN
       /\ secondWindow' = Recorded(secondWindow, k, Second, ok)
       /\ minuteWindow' = Recorded(minuteWindow, k, Minute, ok)
       /\ log' = [log EXCEPT ![k] = IF ok /\ IsEnabled(limits[k])
                                      THEN Append(@, clock) ELSE @]
       /\ at' = [at EXCEPT ![c] = IF ok /\ k < Len(LimitKeys) THEN k + 1 ELSE 0]
  /\ UNCHANGED <<clock, limits, attempts>>

(* configure replaces the limits of a key and keeps its windows; remove and  *)
(* reset drop both.                                                          *)
Configure(k, c) ==
  /\ limits[k] # c
  /\ limits' = [limits EXCEPT ![k] = c]
  /\ UNCHANGED <<clock, secondWindow, minuteWindow, at, log, attempts>>

DropStates(keys) ==
  /\ limits' = [k \in LimiterKeys |-> IF k \in keys THEN NoLimit ELSE limits[k]]
  /\ secondWindow' = [k \in LimiterKeys |-> IF k \in keys THEN <<>> ELSE secondWindow[k]]
  /\ minuteWindow' = [k \in LimiterKeys |-> IF k \in keys THEN <<>> ELSE minuteWindow[k]]
  /\ log' = [k \in LimiterKeys |-> IF k \in keys THEN <<>> ELSE log[k]]
  /\ UNCHANGED <<clock, at, attempts>>
RemoveLimit(k) == DropStates({k})
ResetLimits == DropStates(LimiterKeys)

(* The metrics clean the windows before they count. *)
CurrentExecutions(k) ==
  /\ limits[k] # NoLimit
  /\ secondWindow' = [secondWindow EXCEPT ![k] = Fresh(@, Second)]
  /\ minuteWindow' = [minuteWindow EXCEPT ![k] = Fresh(@, Minute)]
  /\ UNCHANGED <<clock, limits, at, log, attempts>>

LimiterTick ==
  /\ clock < MaxClock /\ clock' = clock + 1
  /\ UNCHANGED <<limits, secondWindow, minuteWindow, at, log, attempts>>

LimiterNext ==
  \/ \E c \in Callers : CheckRate(c) \/ IsAllowed(c)
  \/ \E k \in LimiterKeys, l \in Limits : Configure(k, l)
  \/ \E k \in LimiterKeys : RemoveLimit(k) \/ CurrentExecutions(k)
  \/ ResetLimits \/ LimiterTick
LimiterSpec == LimiterInit /\ [][LimiterNext]_limiterVars

-----------------------------------------------------------------------------
LimiterTypeOK ==
  /\ clock \in 0 .. MaxClock /\ limits \in [LimiterKeys -> Limits \cup {NoLimit}]
  /\ secondWindow \in [LimiterKeys -> Seq(Nat)] /\ minuteWindow \in [LimiterKeys -> Seq(Nat)]
  /\ at \in [Callers -> 0 .. Len(LimitKeys)] /\ attempts \in 0 .. MaxAttempts
  /\ log \in [LimiterKeys -> Seq(Nat)]

InLast(k, length) == Cardinality({i \in DOMAIN log[k] : log[k][i] >= clock - length})

UnderTheLimit(k) ==
  LET c == limits[k] IN
    /\ c.perSecond > 0 => InLast(k, Second) < Burst(c)
    /\ c.perMinute > 0 => InLast(k, Minute) < c.perMinute

(* However configure, the metrics and the checks under the other key         *)
(* interleave, an execution is let through if, and only if, the executions   *)
(* let through before it, in the second and in the minute that end now, are  *)
(* fewer than the limits in force: cleaning forgets nothing that counts, and *)
(* keeps nothing that no longer does.                                        *)
AdmitsUpToTheLimit ==
  [][\A c \in Callers :
       at[c] > 0 /\ at'[c] # at[c] /\ IsEnabled(limits[at[c]]) =>
         (log'[at[c]] # log[at[c]] <=> UnderTheLimit(at[c]))]_limiterVars
=============================================================================
