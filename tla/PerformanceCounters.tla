------------------------- MODULE PerformanceCounters ------------------------
(***************************************************************************)
(* PerformanceCounters: one atomic counter per event, but no lock over     *)
(* them.  Threads record executions, a thread may reset the counters and a *)
(* reader computes a rate, all of them counter by counter.  Of the         *)
(* counters the model keeps those the success and cache rates use.         *)
(***************************************************************************)
EXTENDS Integers, Sequences

CONSTANTS
  Recorders,   \* threads that call recordExecution
  MaxRecords,  \* bound: executions recorded
  MaxResets    \* bound: calls of reset

ASSUME CountersAssumption == MaxRecords \in Nat /\ MaxResets \in Nat

VARIABLES
  counters,   \* executed, successful, failed, cached
  recording,  \* recording[t]: counters thread t has yet to add one to
  resetting,  \* counters reset has yet to store 0 to
  torn,       \* a reset has met a recording in progress
  reading,    \* what getSuccessRate has loaded of the executed counter, or -1
  rate,       \* the last rate, as <<numerator, denominator>>
  overlapped, \* recordings and resets begun since the reader's first load
  records, resets

counterVars == <<counters, recording, resetting, torn, reading, rate, overlapped,
                 records, resets>>

CounterNames == {"executed", "successful", "failed", "cached"}

CountersInit ==
  /\ counters = [n \in CounterNames |-> 0]
  /\ recording = [t \in Recorders |-> <<>>] /\ resetting = <<>> /\ torn = FALSE
  /\ reading = -1 /\ rate = <<0, 1>> /\ overlapped = FALSE
  /\ records = 0 /\ resets = 0

Busy == resetting # <<>> \/ \E t \in Recorders : recording[t] # <<>>

(* recordExecution: the total first, then the outcome, then the cache hit.   *)
Increments(success, cached) ==
  LET outcome == IF success THEN "successful" ELSE "failed" IN
    IF cached THEN <<"executed", outcome, "cached">> ELSE <<"executed", outcome>>

RecordExecution(t) ==
  /\ recording[t] = <<>> /\ records < MaxRecords
  /\ \E success, cached \in BOOLEAN :
       recording' = [recording EXCEPT ![t] = Increments(success, cached)]
  /\ records' = records + 1
  /\ torn' = (torn \/ resetting # <<>>)
  /\ overlapped' = TRUE
  /\ UNCHANGED <<counters, resetting, reading, rate, resets>>

FetchAdd(t) ==
  /\ recording[t] # <<>>
  /\ counters' = [counters EXCEPT ![Head(recording[t])] = @ + 1]
  /\ recording' = [recording EXCEPT ![t] = Tail(@)]
  /\ UNCHANGED <<resetting, torn, reading, rate, overlapped, records, resets>>

ResetCounters ==
  /\ resetting = <<>> /\ resets < MaxResets
  /\ resetting' = <<"executed", "successful", "failed", "cached">>
  /\ resets' = resets + 1
  /\ torn' = (torn \/ \E t \in Recorders : recording[t] # <<>>)
  /\ overlapped' = TRUE
  /\ UNCHANGED <<counters, recording, reading, rate, records>>

StoreZero ==
  /\ resetting # <<>>
  /\ counters' = [counters EXCEPT ![Head(resetting)] = 0]
  /\ resetting' = Tail(resetting)
  /\ UNCHANGED <<recording, torn, reading, rate, overlapped, records, resets>>

(* getSuccessRate and getCacheHitRate load the total first and the other     *)
(* counter second; a total of zero gives a rate of zero.                     *)
LoadExecuted ==
  /\ reading = -1
  /\ overlapped' = Busy
  /\ IF counters["executed"] = 0
       THEN rate' = <<0, 1>> /\ UNCHANGED reading
       ELSE reading' = counters["executed"] /\ UNCHANGED rate
  /\ UNCHANGED <<counters, recording, resetting, torn, records, resets>>

LoadPart(n) ==
  /\ reading # -1
  /\ rate' = <<counters[n], reading>> /\ reading' = -1
  /\ UNCHANGED <<counters, recording, resetting, torn, overlapped, records, resets>>
GetSuccessRate == LoadPart("successful")
GetCacheHitRate == LoadPart("cached")

CountersNext ==
  \/ \E t \in Recorders : RecordExecution(t) \/ FetchAdd(t)
  \/ ResetCounters \/ StoreZero
  \/ LoadExecuted \/ GetSuccessRate \/ GetCacheHitRate
CountersSpec == CountersInit /\ [][CountersNext]_counterVars

-----------------------------------------------------------------------------
CountersTypeOK ==
  /\ counters \in [CounterNames -> Nat]
  /\ recording \in [Recorders -> Seq(CounterNames)] /\ resetting \in Seq(CounterNames)
  /\ torn \in BOOLEAN /\ overlapped \in BOOLEAN
  /\ reading \in -1 .. MaxRecords /\ rate \in Nat \X (Nat \ {0})

(* When nothing is in progress, every execution is counted once and has one  *)
(* outcome, unless a reset has ever met a recording: that recording is then   *)
(* counted in part, and the counters disagree until the next quiet reset.     *)
CountersAgreeAtRest ==
  ~Busy /\ ~torn =>
    /\ counters["executed"] = counters["successful"] + counters["failed"]
    /\ counters["cached"] <= counters["executed"]

(* "ratio (0.0 to 1.0)": true of a rate nothing overlapped with.  A recording *)
(* that falls between the two loads can push it past 1.                       *)
QuietRateIsARatio == reading = -1 /\ ~overlapped /\ ~torn => rate[1] <= rate[2]

(* Once nobody is recording, the counters tell one story.                    *)
CountersAreTrue == CountersTypeOK /\ CountersAgreeAtRest /\ QuietRateIsARatio
=============================================================================
