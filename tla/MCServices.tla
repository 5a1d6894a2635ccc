------------------------------ MODULE MCServices -----------------------------
(* What a rule and its callers keep beside the execution: the result cache,  *)
(* the rate limiter, memory pools, versions, counters and adaptive execution.*)
(* They share no state: service says which of them a behaviour is about, the *)
(* others stay as they begin and may come to an end.                         *)
(*                                                                           *)
(* Three keys for two cache entries, two types of values that print alike; a *)
(* rule limited under its id and its name; two rules with two configurations.*)
EXTENDS RuleCache, RateLimiter, MemoryPools, RuleVersioning, PerformanceCounters,
        AdaptiveExecution, TLC

VARIABLE service

Symmetry == Permutations(Threads) \cup Permutations(Texts) \cup Permutations(Types)
MCLimitKeys == <<"id", "name">>
MCLimits == {[perSecond |-> 1, perMinute |-> 3, burst |-> 2],
             [perSecond |-> 0, perMinute |-> 2, burst |-> 1]}
MCTrackedRules == <<1, 2>>
MCConfigs == {[body |-> "x", priority |-> 0], [body |-> "y", priority |-> 1]}

MCRuleCount == [small |-> 2, large |-> 4]

servicesVars == <<vars, limiterVars, memVars, versionVars, counterVars, adaptiveVars, service>>

ServicesInit ==
  /\ Init /\ LimiterInit /\ MemInit /\ VersioningInit /\ CountersInit
  /\ AdaptiveInit
  /\ service \in {"cache", "limiter", "versions", "counters", "adaptive"} \cup Pools
  /\ \A r \in TrackedIds : config[r].body = "x"

Cache1 == service = "cache" /\ Next
  /\ UNCHANGED <<limiterVars, memVars, versionVars, counterVars, adaptiveVars, service>>
Limiter1 == service = "limiter" /\ LimiterNext
  /\ UNCHANGED <<vars, memVars, versionVars, counterVars, adaptiveVars, service>>
Memory1 == service \in Pools /\ PoolNext(service)
  /\ UNCHANGED <<vars, limiterVars, versionVars, counterVars, adaptiveVars, service>>
Versions1 == service = "versions" /\ VersioningNext
  /\ UNCHANGED <<vars, limiterVars, memVars, counterVars, adaptiveVars, service>>
Counters1 == service = "counters" /\ CountersNext
  /\ UNCHANGED <<vars, limiterVars, memVars, versionVars, adaptiveVars, service>>
Adaptive1 == service = "adaptive" /\ AdaptiveNext
  /\ UNCHANGED <<vars, limiterVars, memVars, versionVars, counterVars, service>>
Rest == service # "cache" /\ UNCHANGED servicesVars

ServicesNext == Cache1 \/ Limiter1 \/ Memory1 \/ Versions1 \/ Counters1 \/ Adaptive1 \/ Rest
ServicesSpec == ServicesInit /\ [][ServicesNext]_servicesVars

(* The numbers that executions leave behind, in the windows of the limiter,  *)
(* in the counters and in the learned threshold, stay true.                  *)
StatisticsHold == LimiterTypeOK /\ CountersAreTrue /\ LearningIsBounded

(* Each step of the bounded services decides right: an eviction takes what   *)
(* expires first, and the limiter admits exactly up to the limit.            *)
StepsRespectLimits == EvictsFirstToExpire /\ AdmitsUpToTheLimit
=============================================================================
