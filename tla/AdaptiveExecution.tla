-------------------------- MODULE AdaptiveExecution --------------------------
(***************************************************************************)
(* Workflow::executeAdaptive: sequential up to a threshold of rules,       *)
(* parallel beyond it.  With auto-detection every CheckEvery-th call of a  *)
(* thread, whatever workflow it is for, runs the workflow both ways,       *)
(* averages the times and moves the threshold.  One thread uses the        *)
(* workflows; the fields are not guarded against a second one.             *)
(***************************************************************************)
EXTENDS Integers, Sequences

CONSTANTS
  Workflows,
  RuleCount,      \* rules.size() of each
  CheckEvery,     \* 100 in the code
  SizeBits,       \* width of size_t
  Least, Most,    \* 2 and 20, between which a threshold is moved
  Default,        \* 4
  SetTo,          \* arguments of setAdaptiveThreshold
  Times,          \* durations of an execution
  MaxSamples      \* bound: measurements per workflow

ASSUME AdaptiveAssumption ==
  /\ RuleCount \in [Workflows -> Nat] /\ CheckEvery \in Nat \ {0} /\ Times \subseteq Nat
  /\ SizeBits \in Nat /\ 2^SizeBits \in Nat
  /\ Least \in 1 .. 2 /\ Most \in Least .. 2^SizeBits - 2 /\ Default \in Least .. Most
  /\ SetTo \subseteq 0 .. 2^SizeBits - 1 /\ MaxSamples \in Nat

VARIABLES
  threshold, autoDetect,
  checkCounter,          \* thread_local, modulo CheckEvery
  sequential, parallel,  \* [total, runs]: the average is total / runs
  chosen,                \* history: what was last set, or Default
  lastRun                \* history: [workflow, how] of the last call, how a sequence

adaptiveVars == <<threshold, autoDetect, checkCounter, sequential, parallel, chosen, lastRun>>

AdaptiveInit ==
  /\ threshold = [w \in Workflows |-> Default] /\ chosen = threshold
  /\ autoDetect = [w \in Workflows |-> FALSE]
  /\ checkCounter = 0
  /\ sequential = [w \in Workflows |-> [total |-> 0, runs |-> 0]] /\ parallel = sequential
  /\ lastRun = [workflow |-> "none", how |-> <<>>]

SetAdaptiveThreshold(w, n) ==
  /\ threshold' = [threshold EXCEPT ![w] = n] /\ chosen' = [chosen EXCEPT ![w] = n]
  /\ lastRun' = [workflow |-> "none", how |-> <<>>]
  /\ UNCHANGED <<autoDetect, checkCounter, sequential, parallel>>

EnableAutoDetection(w) ==
  /\ autoDetect' = [autoDetect EXCEPT ![w] = ~@]
  /\ UNCHANGED <<threshold, checkCounter, sequential, parallel, chosen, lastRun>>

(* The arithmetic of size_t wraps: one less than 0 is the largest threshold. *)
Smaller(a, b) == IF a < b THEN a ELSE b
Larger(a, b) == IF a > b THEN a ELSE b
Raised(n) == Smaller((n + 1) % 2^SizeBits, Most)

(* A bug: the lower limit is missing. *)
LoweredUnbounded(n) == (n - 1) % 2^SizeBits

Lowered(n) == Larger((n - 1) % 2^SizeBits, Least)

Sampled(sample, time) == [total |-> sample.total + time, runs |-> sample.runs + 1]

(* a is on average more than a fifth faster than b. *)
Faster(a, b) == 10 * a.total * b.runs < 8 * b.total * a.runs
Adjusted(n, seq, par) ==
  IF Faster(seq, par) THEN Raised(n) ELSE IF Faster(par, seq) THEN Lowered(n) ELSE n

Mode(w) == IF RuleCount[w] <= threshold[w] THEN "sequential" ELSE "parallel"

Counted(w) == IF autoDetect[w] /\ RuleCount[w] > 2 THEN (checkCounter + 1) % CheckEvery
              ELSE checkCounter
Measures(w) == autoDetect[w] /\ RuleCount[w] > 2 /\ Counted(w) = 0

Plain(w) ==
  /\ ~Measures(w)
  /\ checkCounter' = Counted(w) /\ lastRun' = [workflow |-> w, how |-> <<Mode(w)>>]
  /\ UNCHANGED <<threshold, autoDetect, sequential, parallel, chosen>>

(* The measuring call runs all rules, and their actions, twice.  An exception *)
(* of the sequential execution ends the call, counted and without a sample;   *)
(* one of the parallel execution leaves the sequential sample in the average. *)
Measured(w, seqTime, parTime) ==
  /\ Measures(w) /\ sequential[w].runs < MaxSamples
  /\ checkCounter' = Counted(w)
  /\ sequential' = [sequential EXCEPT ![w] = Sampled(@, seqTime)]
  /\ parallel' = [parallel EXCEPT ![w] = Sampled(@, parTime)]
  /\ threshold' = [threshold EXCEPT ![w] = Adjusted(@, sequential'[w], parallel'[w])]
  /\ lastRun' = [workflow |-> w, how |-> <<"sequential", "parallel">>]
  /\ UNCHANGED <<autoDetect, chosen>>
SequentialThrows(w) ==
  /\ Measures(w)
  /\ checkCounter' = Counted(w)
  /\ lastRun' = [workflow |-> w, how |-> <<"sequential">>]
  /\ UNCHANGED <<threshold, autoDetect, sequential, parallel, chosen>>
MeasuringThrows(w, seqTime) ==
  /\ Measures(w) /\ sequential[w].runs < MaxSamples
  /\ checkCounter' = Counted(w)
  /\ sequential' = [sequential EXCEPT ![w] = Sampled(@, seqTime)]
  /\ lastRun' = [workflow |-> w, how |-> <<"sequential">>]
  /\ UNCHANGED <<threshold, autoDetect, parallel, chosen>>

AdaptiveNext ==
  \E w \in Workflows :
    \/ (\E n \in SetTo : SetAdaptiveThreshold(w, n)) \/ EnableAutoDetection(w)
    \/ Plain(w) \/ SequentialThrows(w)
    \/ \E s \in Times : MeasuringThrows(w, s) \/ \E p \in Times : Measured(w, s, p)
AdaptiveSpec == AdaptiveInit /\ [][AdaptiveNext]_adaptiveVars

-----------------------------------------------------------------------------
AdaptiveTypeOK ==
  /\ threshold \in [Workflows -> 0 .. 2^SizeBits - 1] /\ autoDetect \in [Workflows -> BOOLEAN]
  /\ checkCounter \in 0 .. CheckEvery - 1

(* Whatever the measurements and failures, learning stays between what was   *)
(* chosen and the limits.  Left out are the choices 0 and the largest size_t, *)
(* with which a step down, or up, wraps around to the other.                 *)
LearnedThresholdInRange ==
  \A w \in Workflows :
    chosen[w] \in 1 .. 2^SizeBits - 2 =>
      threshold[w] \in Smaller(Least, chosen[w]) .. Larger(Most, chosen[w])

(* Learning goes one step per completed measurement; a measurement that      *)
(* fails half-way moves nothing.                                             *)
LearningIsGradual ==
  \A w \in Workflows :
    chosen[w] \in 1 .. Most =>
      /\ threshold[w] <= chosen[w] + parallel[w].runs
      /\ threshold[w] >= chosen[w] - parallel[w].runs

(* A workflow of no more rules than the smallest threshold starts threads,   *)
(* for a measurement too, only when its threshold was set below its size.    *)
SmallStaysSequential ==
  \A w \in Workflows :
    (/\ lastRun.workflow = w /\ RuleCount[w] <= Least
     /\ \E i \in DOMAIN lastRun.how : lastRun.how[i] = "parallel")
      => chosen[w] < RuleCount[w]

(* Whatever is measured, chosen or thrown, the threshold is learned step by  *)
(* step within its limits, and small workflows start no threads.             *)
LearningIsBounded ==
  AdaptiveTypeOK /\ LearnedThresholdInRange /\ LearningIsGradual /\ SmallStaysSequential
=============================================================================
