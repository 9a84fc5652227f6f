--------------------------- MODULE MeasurementsProofs --------------------------
(* Proofs about Collector, for any checks, intervals, workers and callers, and about *)
(* NetworkState, for any clients and any number of bytes.                            *)
EXTENDS Collector, NetworkState, DataTheorems, TLAPS

-----------------------------------------------------------------------------
(* RunsOnce: runningChecks has every check that a worker is running.       *)

Busy(w) == workerPc[w] \in {"run", "ran"}

WorkerMaps ==
    /\ workerPc = [w \in Workers |-> workerPc[w]]
    /\ workerCheck = [w \in Workers |-> workerCheck[w]]
BusyIsRunning == \A w \in Workers : Busy(w) => workerCheck[w] \in runningChecks
RunInv == WorkerMaps /\ BusyIsRunning /\ RunsOnce

\* The steps that leave the workers and runningChecks as they are.
LEMMA RunStutter ==
    ASSUME RunInv, UNCHANGED <<workerPc, workerCheck, runningChecks>>
    PROVE  RunInv'
BY DEF RunInv, WorkerMaps, BusyIsRunning, RunsOnce, Busy

\* A worker that is not running a check receives one.
LEMMA RunReceive ==
    ASSUME RunInv, NEW w \in Workers, NEW c, Receive(w, c),
           UNCHANGED runningChecks
    PROVE  RunInv'
BY DEF RunInv, WorkerMaps, BusyIsRunning, RunsOnce, Busy, Receive

\* A worker step: begin, run, remove and the rest.
LEMMA RunWorker ==
    ASSUME RunInv, NEW w \in Workers, WorkerOwnStep(w) \/ WorkRan(w)
    PROVE  RunInv'
<1>1. CASE WorkBegin(w)
  <2>1. CASE workerCheck[w] \in runningChecks
    BY <1>1, <2>1 DEF RunInv, WorkerMaps, BusyIsRunning, RunsOnce, Busy, WorkBegin, WorkerStep
  <2>2. CASE workerCheck[w] \notin runningChecks
    BY <1>1, <2>2 DEF RunInv, WorkerMaps, BusyIsRunning, RunsOnce, Busy, WorkBegin, WorkerStep
  <2> QED BY <2>1, <2>2
<1>2. CASE WorkRan(w)
  BY <1>2 DEF RunInv, WorkerMaps, BusyIsRunning, RunsOnce, Busy, WorkRan, WorkerStep
<1>3. CASE WorkRemove(w)
  BY <1>3 DEF RunInv, WorkerMaps, BusyIsRunning, RunsOnce, Busy, WorkRemove, WorkerStep
<1>4. CASE WorkLock(w)
  BY <1>4 DEF RunInv, WorkerMaps, BusyIsRunning, RunsOnce, Busy, WorkLock, WorkerStep
<1>5. CASE WorkAsk(w)
  BY <1>5 DEF RunInv, WorkerMaps, BusyIsRunning, RunsOnce, Busy, WorkAsk, WorkerStep
<1>6. CASE WorkAdd(w)
  BY <1>6 DEF RunInv, WorkerMaps, BusyIsRunning, RunsOnce, Busy, WorkAdd, WorkerStep
<1>7. CASE WorkUnlock(w)
  BY <1>7 DEF RunInv, WorkerMaps, BusyIsRunning, RunsOnce, Busy, WorkUnlock, WorkerStep
<1>8. CASE WorkExit(w)
  BY <1>8 DEF RunInv, WorkerMaps, BusyIsRunning, RunsOnce, Busy, WorkExit, WorkerStep
<1> QED BY <1>1, <1>2, <1>3, <1>4, <1>5, <1>6, <1>7, <1>8 DEF WorkerOwnStep

\* The workers RunCheck adds are idle.
LEMMA RunRunCheck ==
    ASSUME RunInv, NEW a \in Callers, NEW c \in Checks, RunCheck(a, c)
    PROVE  RunInv'
<1>1. CASE RunOnce(c)
  BY <1>1 DEF RunInv, WorkerMaps, BusyIsRunning, RunsOnce, Busy, RunCheck, RunOnce
<1>2. CASE RunPeriodic(c)
  BY <1>2 DEF RunInv, WorkerMaps, BusyIsRunning, RunsOnce, Busy, RunCheck, RunPeriodic, UpdateNumWorkers
<1> QED BY <1>1, <1>2 DEF RunCheck

\* A step of the other goroutines leaves the workers alone, or hands a check over.
LEMMA RunOthers ==
    ASSUME RunInv,
           \/ \E a \in Callers, c \in Checks : StopCheckBegin(a, c)
           \/ \E a \in Callers : StopCheckStep(a)
           \/ \E q \in Intervals : QueueStep(q) \/ QueueSend(q)
           \/ \E c \in Checks : OnceSend(c) \/ OnceCancelled(c)
           \/ StopBegin \/ StopStep \/ LoopStep
    PROVE  RunInv'
<1>1. CASE \E a \in Callers, c \in Checks : StopCheckBegin(a, c)
  BY <1>1, RunStutter DEF StopCheckBegin, runVars, workerVars
<1>2. ASSUME NEW a \in Callers, StopCheckStep(a) PROVE RunInv'
  <2>1. UNCHANGED <<workerPc, workerCheck, runningChecks>>
    BY <1>2 DEF StopCheckStep, StopCheckGet, StopCheckScheduler, StopCheckCancel, StopCheckRunner,
       StopCheckStopped, StopCheckCancelCheck, StopCheckDelete, runVars, workerVars
  <2> QED BY <2>1, RunStutter
<1>3. ASSUME NEW q \in Intervals, QueueStep(q) PROVE RunInv'
  BY <1>3, RunStutter DEF QueueStep, QueueTick, QueueAsk, QueueBucketDone, runVars, workerVars
<1>4. ASSUME NEW q \in Intervals, QueueSend(q) PROVE RunInv'
  BY <1>4, RunReceive DEF QueueSend
<1>5. ASSUME NEW c \in Checks, OnceSend(c) PROVE RunInv'
  BY <1>5, RunReceive DEF OnceSend
<1>6. ASSUME NEW c \in Checks, OnceCancelled(c) PROVE RunInv'
  BY <1>6, RunStutter DEF OnceCancelled, runVars, workerVars
<1>7. CASE StopBegin \/ StopStep
  BY <1>7, RunStutter DEF StopBegin, StopStep, StopCancelOneTime, StopWaitOneTime, StopHalted,
     StopClosePending, StopEnd, runVars, workerVars
<1>8. CASE LoopStep
  BY <1>8, RunStutter DEF LoopStep, StopQueuesLock, StopQueuesEnd, StopQueue, QueueStopped,
     runVars, workerVars
<1> QED BY <1>1, <1>2, <1>3, <1>4, <1>5, <1>6, <1>7, <1>8

\* A check is run by one worker at a time, in every behaviour of the collector.
THEOREM RunsOnceCorrect == Spec => []RunsOnce
<1>1. Init => RunInv
  BY DEF Init, RunInv, WorkerMaps, BusyIsRunning, RunsOnce, Busy
<1>2. RunInv /\ [Next]_vars => RunInv'
  <2> SUFFICES ASSUME RunInv, [Next]_vars PROVE RunInv'
    OBVIOUS
  <2>1. CASE UNCHANGED vars
    BY <2>1, RunStutter DEF vars, runVars, workerVars
  <2>2. CASE \E a \in Callers, c \in Checks : RunCheck(a, c)
    BY <2>2, RunRunCheck
  <2>3. CASE \E w \in Workers : WorkerOwnStep(w) \/ WorkRan(w)
    BY <2>3, RunWorker
  <2> QED BY <2>1, <2>2, <2>3, RunOthers DEF Next
<1>3. RunInv => RunsOnce
  BY DEF RunInv
<1> QED BY <1>1, <1>2, <1>3, PTL DEF Spec

-----------------------------------------------------------------------------
(* NoSendOnClosed: what Stop has waited for stays so.                      *)

StoppedSenders ==
    /\ queuePc = [q \in Intervals |-> queuePc[q]]
    /\ loop # "running" => stop # "up"
    /\ pendingClosed => stop \in {"closed", "down"}
    /\ stop \in {"waitHalted", "stopRunner", "closed", "down"} => enqueueing = {}
    /\ stop \in {"stopRunner", "closed", "down"} => loop = "ended"
    /\ loop \in {"halted", "ended"} => \A q \in Intervals : queuePc[q] = "off"

StopDefs == <<stop, loop, pendingClosed, enqueueing, queuePc>>

LEMMA StopStutter ==
    ASSUME StoppedSenders, UNCHANGED StopDefs
    PROVE  StoppedSenders'
BY DEF StoppedSenders, StopDefs

\* A queue that is not running does not start again, once Stop has begun.
LEMMA StopQueues ==
    ASSUME StoppedSenders, NEW q \in Intervals, QueueStep(q) \/ QueueSend(q)
    PROVE  StoppedSenders'
<1>1. CASE QueueTick(q)
  BY <1>1 DEF StoppedSenders, QueueTick, runVars, onceVars
<1>2. CASE QueueAsk(q)
  <2>1. CASE Head(queueJobs[q]) \in checkToQueue
    BY <1>2, <2>1 DEF StoppedSenders, QueueAsk, runVars, onceVars
  <2>2. CASE Head(queueJobs[q]) \notin checkToQueue
    BY <1>2, <2>2 DEF StoppedSenders, QueueAsk, runVars, onceVars
  <2> QED BY <2>1, <2>2
<1>3. CASE QueueBucketDone(q)
  BY <1>3 DEF StoppedSenders, QueueBucketDone, runVars, onceVars
<1>4. CASE QueueSend(q)
  BY <1>4 DEF StoppedSenders, QueueSend, onceVars
<1> QED BY <1>1, <1>2, <1>3, <1>4 DEF QueueStep

\* The steps of Stop and of stopQueues.
LEMMA StopSteps ==
    ASSUME StoppedSenders, StopBegin \/ StopStep \/ LoopStep
    PROVE  StoppedSenders'
<1>1. CASE StopBegin
  BY <1>1 DEF StoppedSenders, StopBegin, queueVars, onceVars, runVars
<1>2. CASE StopStep
  <2>1. CASE StopCancelOneTime
    BY <2>1 DEF StoppedSenders, StopCancelOneTime, queueVars, runVars
  <2>2. CASE StopWaitOneTime
    BY <2>2 DEF StoppedSenders, StopWaitOneTime, schedVars, queueVars, onceVars, runVars
  <2>3. CASE StopHalted
    BY <2>3 DEF StoppedSenders, StopHalted, queueVars, onceVars, runVars
  <2>4. CASE StopClosePending
    BY <2>4 DEF StoppedSenders, StopClosePending, schedVars, queueVars, onceVars
  <2>5. CASE StopEnd
    BY <2>5 DEF StoppedSenders, StopEnd, schedVars, queueVars, onceVars, runVars
  <2> QED BY <1>2, <2>1, <2>2, <2>3, <2>4, <2>5 DEF StopStep
<1>3. CASE LoopStep
  <2>1. CASE StopQueuesLock
    BY <2>1 DEF StoppedSenders, StopQueuesLock, queueVars, onceVars, runVars
  <2>2. CASE StopQueuesEnd
    BY <2>2 DEF StoppedSenders, StopQueuesEnd, queueVars, onceVars, runVars
  <2>3. ASSUME NEW q \in Intervals, StopQueue(q) PROVE StoppedSenders'
    BY <2>3 DEF StoppedSenders, StopQueue, onceVars, runVars
  <2>4. ASSUME NEW q \in Intervals, QueueStopped(q) PROVE StoppedSenders'
    BY <2>4 DEF StoppedSenders, QueueStopped, onceVars, runVars
  <2> QED BY <1>3, <2>1, <2>2, <2>3, <2>4 DEF LoopStep
<1> QED BY <1>1, <1>2, <1>3

\* RunCheck starts queues and one-time goroutines only before Stop begins; a
\* one-time goroutine ends when it has sent its check or is cancelled.
LEMMA StopSenders ==
    ASSUME StoppedSenders,
           \/ \E a \in Callers, c \in Checks : RunCheck(a, c)
           \/ \E c \in Checks : OnceSend(c) \/ OnceCancelled(c)
    PROVE  StoppedSenders'
<1>1. ASSUME NEW a \in Callers, NEW c \in Checks, RunCheck(a, c) PROVE StoppedSenders'
  <2>1. CASE RunOnce(c)
    BY <1>1, <2>1 DEF StoppedSenders, RunCheck, RunOnce, queueVars
  <2>2. CASE RunPeriodic(c)
    BY <1>1, <2>2 DEF StoppedSenders, RunCheck, RunPeriodic
  <2> QED BY <1>1, <2>1, <2>2 DEF RunCheck
<1>2. ASSUME NEW c \in Checks, OnceSend(c) \/ OnceCancelled(c) PROVE StoppedSenders'
  BY <1>2 DEF StoppedSenders, OnceSend, OnceCancelled, queueVars, runVars
<1> QED BY <1>1, <1>2

\* Callers of StopCheck and workers neither send nor stop anything.
LEMMA StopOthers ==
    ASSUME StoppedSenders,
           \/ \E a \in Callers, c \in Checks : StopCheckBegin(a, c)
           \/ \E a \in Callers : StopCheckStep(a)
           \/ \E w \in Workers : WorkerOwnStep(w) \/ WorkRan(w)
    PROVE  StoppedSenders'
<1>1. CASE \E a \in Callers, c \in Checks : StopCheckBegin(a, c)
  BY <1>1, StopStutter DEF StopCheckBegin, StopDefs, schedVars, queueVars, onceVars, runVars
<1>2. ASSUME NEW a \in Callers, StopCheckStep(a) PROVE StoppedSenders'
  <2>1. UNCHANGED StopDefs
    BY <1>2 DEF StopCheckStep, StopCheckGet, StopCheckScheduler, StopCheckCancel, StopCheckRunner,
       StopCheckStopped, StopCheckCancelCheck, StopCheckDelete, StopDefs, schedVars, queueVars, onceVars, runVars
  <2> QED BY <2>1, StopStutter
<1>3. ASSUME NEW w \in Workers, WorkerOwnStep(w) \/ WorkRan(w) PROVE StoppedSenders'
  <2>1. UNCHANGED StopDefs
    BY <1>3 DEF WorkerOwnStep, WorkBegin, WorkRan, WorkRemove, WorkLock, WorkAsk, WorkAdd, WorkUnlock,
       WorkExit, StopDefs, schedVars, queueVars, onceVars
  <2> QED BY <2>1, StopStutter
<1> QED BY <1>1, <1>2, <1>3

\* When pending is closed all of its senders have ended, whatever Stop interrupted.
THEOREM NoSendOnClosedCorrect == Spec => []NoSendOnClosed
<1>1. Init => StoppedSenders
  BY DEF Init, StoppedSenders
<1>2. StoppedSenders /\ [Next]_vars => StoppedSenders'
  <2> SUFFICES ASSUME StoppedSenders, [Next]_vars PROVE StoppedSenders'
    OBVIOUS
  <2>1. CASE UNCHANGED vars
    BY <2>1, StopStutter DEF vars, StopDefs, schedVars, queueVars, onceVars, runVars
  <2> QED BY <2>1, StopQueues, StopSteps, StopSenders, StopOthers DEF Next
<1>3. StoppedSenders => NoSendOnClosed
  BY DEF StoppedSenders, NoSendOnClosed
<1> QED BY <1>1, <1>2, <1>3, PTL DEF Spec

-----------------------------------------------------------------------------
(* NoStaleStats, for a collector that only autodiscovery calls.  A worker   *)
(* asks whether the check is scheduled and adds its stats with r.m held;    *)
(* StopCheck unschedules the check before it waits for r.m, and removes the *)
(* stats afterwards.                                                        *)

Stopping == callPc[Autodiscovery] \in {"runner", "stopping", "cancelCheck", "delete"}
Stopped == callId[Autodiscovery]

StatsMaps ==
    /\ callPc = [a \in Callers |-> callPc[a]]
    /\ callId = [a \in Callers |-> callId[a]]
    /\ workerPc = [w \in Workers |-> workerPc[w]]
    /\ workerCheck = [w \in Workers |-> workerCheck[w]]
\* Who has r.m: the worker that asks and adds, or the caller that waits for the check.
HoldsRmu ==
    /\ \A w \in Workers : workerPc[w] \in {"ask", "add", "unlock"} => rmu = w
    /\ callPc[Autodiscovery] = "stopping" => rmu = Autodiscovery
ScheduledIsKnown == checkToQueue \subseteq checks
StoppedIsUnscheduled == Stopping => Stopped \notin checkToQueue
\* Stats are added for known checks, and not for one past Runner.StopCheck.
AddsKnown ==
    \A w \in Workers : workerPc[w] = "add" =>
        /\ workerCheck[w] \in checks
        /\ callPc[Autodiscovery] \in {"stopping", "cancelCheck", "delete"} => workerCheck[w] # Stopped
DeletedHasNone == callPc[Autodiscovery] = "delete" => Stopped \notin stats

StatsInv ==
    /\ StatsMaps /\ HoldsRmu /\ ScheduledIsKnown /\ StoppedIsUnscheduled /\ AddsKnown
    /\ DeletedHasNone /\ NoStaleStats

\* What StatsInv is about.
statsVars == <<checks, callPc, callId, checkToQueue, workerPc, workerCheck, rmu, stats>>

LEMMA StatsStutter ==
    ASSUME StatsInv, UNCHANGED statsVars
    PROVE  StatsInv'
BY DEF StatsInv, StatsMaps, HoldsRmu, ScheduledIsKnown, StoppedIsUnscheduled, AddsKnown,
   DeletedHasNone, NoStaleStats, Stopping, Stopped, statsVars

\* A worker that is idle receives a check, or workers are added or end.
LEMMA StatsWorkerPc ==
    ASSUME StatsInv, UNCHANGED <<checks, callPc, callId, checkToQueue, rmu, stats>>,
           workerPc' = [w \in Workers |-> workerPc'[w]],
           workerCheck' = [w \in Workers |-> workerCheck'[w]],
           \A w \in Workers : workerPc'[w] \in {"ask", "add", "unlock"} =>
                /\ workerPc'[w] = workerPc[w]
                /\ workerCheck'[w] = workerCheck[w]
    PROVE  StatsInv'
BY DEF StatsInv, StatsMaps, HoldsRmu, ScheduledIsKnown, StoppedIsUnscheduled, AddsKnown,
   DeletedHasNone, NoStaleStats, Stopping, Stopped

\* RunCheck: the check is known and scheduled; no StopCheck is under way.
LEMMA StatsRunCheck ==
    ASSUME Callers = {Autodiscovery}, StatsInv, NEW a \in Callers, NEW c \in Checks, RunCheck(a, c)
    PROVE  StatsInv'
<1>0. a = Autodiscovery /\ callPc[Autodiscovery] = "idle"
  BY DEF RunCheck
<1>1. CASE RunOnce(c)
  BY <1>0, <1>1 DEF RunCheck, RunOnce, StatsInv, StatsMaps, HoldsRmu, ScheduledIsKnown,
     StoppedIsUnscheduled, AddsKnown, DeletedHasNone, NoStaleStats, Stopping, Stopped, callVars, jobVars
<1>2. CASE RunPeriodic(c)
  BY <1>0, <1>2 DEF RunCheck, RunPeriodic, UpdateNumWorkers, StatsInv, StatsMaps, HoldsRmu,
     ScheduledIsKnown, StoppedIsUnscheduled, AddsKnown, DeletedHasNone, NoStaleStats, Stopping, Stopped, callVars
<1> QED BY <1>1, <1>2 DEF RunCheck

\* The steps of StopCheck.
LEMMA StatsStopCheck ==
    ASSUME Callers = {Autodiscovery}, StatsInv, NEW a \in Callers,
           StopCheckStep(a) \/ \E c \in Checks : StopCheckBegin(a, c)
    PROVE  StatsInv'
<1>0. a = Autodiscovery /\ Autodiscovery \notin Workers /\ NoOne \notin Workers
  BY ActorsAssumption
<1> USE <1>0 DEF StatsInv, StatsMaps, HoldsRmu, ScheduledIsKnown, StoppedIsUnscheduled, AddsKnown,
        DeletedHasNone, NoStaleStats, Stopping, Stopped, Call, Return, schedVars, runVars, workerVars, jobVars
<1>1. CASE \E c \in Checks : StopCheckBegin(a, c)
  BY <1>1 DEF StopCheckBegin
<1>2. CASE StopCheckGet(a)
  BY <1>2 DEF StopCheckGet
<1>3. CASE StopCheckScheduler(a)
  BY <1>3 DEF StopCheckScheduler
<1>4. CASE StopCheckCancel(a)
  BY <1>4 DEF StopCheckCancel
<1>5. CASE StopCheckRunner(a)
  <2>1. \/ callPc'[a] = "panic" /\ UNCHANGED rmu
        \/ callPc'[a] = "stopping" /\ rmu' = a /\ rmu = NoOne
        \/ callPc'[a] = "cancelCheck" /\ rmu' = rmu /\ rmu = NoOne
    BY <1>5 DEF StopCheckRunner
  <2>2. /\ callPc' = [callPc EXCEPT ![a] = callPc'[a]] /\ callPc[a] = "runner"
        /\ UNCHANGED <<checks, callId, checkToQueue, workerPc, workerCheck, stats>>
    BY <1>5 DEF StopCheckRunner
  <2> QED BY <2>1, <2>2
<1>6. CASE StopCheckStopped(a)
  BY <1>6 DEF StopCheckStopped
<1>7. CASE StopCheckCancelCheck(a)
  BY <1>7 DEF StopCheckCancelCheck
<1>8. CASE StopCheckDelete(a)
  BY <1>8 DEF StopCheckDelete
<1> QED BY <1>1, <1>2, <1>3, <1>4, <1>5, <1>6, <1>7, <1>8 DEF StopCheckStep

\* The steps of a worker.
LEMMA StatsWorker ==
    ASSUME StatsInv, NEW w \in Workers, WorkerOwnStep(w) \/ WorkRan(w)
    PROVE  StatsInv'
<1>0. Autodiscovery \notin Workers /\ NoOne \notin Workers /\ NoOne # Autodiscovery
  BY ActorsAssumption
<1> USE <1>0 DEF StatsInv, StatsMaps, HoldsRmu, ScheduledIsKnown, StoppedIsUnscheduled, AddsKnown,
        DeletedHasNone, NoStaleStats, Stopping, Stopped, WorkerStep, callVars, schedVars, jobVars
<1>1. CASE WorkBegin(w)
  BY <1>1 DEF WorkBegin
<1>2. CASE WorkRan(w)
  BY <1>2 DEF WorkRan
<1>3. CASE WorkRemove(w)
  BY <1>3 DEF WorkRemove
<1>4. CASE WorkLock(w)
  BY <1>4 DEF WorkLock
<1>5. CASE WorkAsk(w)
  BY <1>5 DEF WorkAsk
<1>6. CASE WorkAdd(w)
  BY <1>6 DEF WorkAdd
<1>7. CASE WorkUnlock(w)
  BY <1>7 DEF WorkUnlock
<1>8. CASE WorkExit(w)
  BY <1>8 DEF WorkExit
<1> QED BY <1>1, <1>2, <1>3, <1>4, <1>5, <1>6, <1>7, <1>8 DEF WorkerOwnStep

\* The senders hand a check to an idle worker; the other steps are about queues and Stop.
LEMMA StatsOthers ==
    ASSUME StatsInv,
           \/ \E q \in Intervals : QueueStep(q) \/ QueueSend(q)
           \/ \E c \in Checks : OnceSend(c) \/ OnceCancelled(c)
           \/ StopBegin \/ StopStep \/ LoopStep
    PROVE  StatsInv'
<1>1. ASSUME NEW w \in Workers, NEW c, Receive(w, c),
             UNCHANGED <<checks, callPc, callId, checkToQueue, rmu, stats>>
      PROVE  StatsInv'
  BY <1>1, StatsWorkerPc DEF Receive, StatsInv, StatsMaps
<1>2. ASSUME NEW q \in Intervals, QueueSend(q) PROVE StatsInv'
  BY <1>1, <1>2 DEF QueueSend, callVars, jobVars
<1>3. ASSUME NEW c \in Checks, OnceSend(c) PROVE StatsInv'
  BY <1>1, <1>3 DEF OnceSend, callVars, jobVars
<1>4. ASSUME NEW q \in Intervals, QueueStep(q) PROVE StatsInv'
  BY <1>4, StatsStutter DEF QueueStep, QueueTick, QueueAsk, QueueBucketDone, callVars, jobVars,
     runVars, workerVars, statsVars
<1>5. ASSUME NEW c \in Checks, OnceCancelled(c) PROVE StatsInv'
  BY <1>5, StatsStutter DEF OnceCancelled, callVars, jobVars, runVars, workerVars, statsVars
<1>6. CASE StopBegin \/ StopStep
  BY <1>6, StatsStutter DEF StopBegin, StopStep, StopCancelOneTime, StopWaitOneTime, StopHalted,
     StopClosePending, StopEnd, callVars, schedVars, jobVars, runVars, workerVars, statsVars
<1>7. CASE LoopStep
  BY <1>7, StatsStutter DEF LoopStep, StopQueuesLock, StopQueuesEnd, StopQueue, QueueStopped,
     callVars, jobVars, runVars, workerVars, statsVars
<1> QED BY <1>2, <1>3, <1>4, <1>5, <1>6, <1>7

\* A check that StopCheck has removed has no stats, however late its worker is done
\* with it, when autodiscovery alone calls the collector (its MetaScheduler makes one
\* call at a time).
THEOREM StatsOfKnownChecks == Callers = {Autodiscovery} => (Spec => []NoStaleStats)
<1> SUFFICES ASSUME Callers = {Autodiscovery} PROVE Spec => []NoStaleStats
  OBVIOUS
<1>1. Init => StatsInv
  BY ActorsAssumption DEF Init, StatsInv, StatsMaps, HoldsRmu, ScheduledIsKnown, StoppedIsUnscheduled,
     AddsKnown, DeletedHasNone, NoStaleStats, Stopping, Stopped
<1>2. StatsInv /\ [Next]_vars => StatsInv'
  <2> SUFFICES ASSUME StatsInv, [Next]_vars PROVE StatsInv'
    OBVIOUS
  <2>1. CASE UNCHANGED vars
    BY <2>1, StatsStutter DEF vars, callVars, schedVars, jobVars, runVars, workerVars, statsVars
  <2>2. CASE \E a \in Callers, c \in Checks : RunCheck(a, c)
    BY <2>2, StatsRunCheck
  <2>3. CASE \E a \in Callers : StopCheckStep(a) \/ \E c \in Checks : StopCheckBegin(a, c)
    BY <2>3, StatsStopCheck
  <2>4. CASE \E w \in Workers : WorkerOwnStep(w) \/ WorkRan(w)
    BY <2>4, StatsWorker
  <2> QED BY <2>1, <2>2, <2>3, <2>4, StatsOthers DEF Next
<1>3. StatsInv => NoStaleStats
  BY DEF StatsInv
<1> QED BY <1>1, <1>2, <1>3, PTL DEF Spec

-----------------------------------------------------------------------------
(* ScheduledHasJob, for any callers: two of them can leave a second job of a *)
(* check behind, but a scheduled check never loses its last one.             *)

JobTypes ==
    /\ checkToQueue \subseteq Checks \ OneTime
    /\ buckets = [q \in Intervals |-> buckets[q]]
    /\ schedulingBucketIdx = [q \in Intervals |-> schedulingBucketIdx[q]]
    /\ \A q \in Intervals :
          /\ buckets[q] \in [BucketsOf(q) -> Seq(Checks)]
          /\ \A b \in BucketsOf(q) : Len(buckets[q][b]) <= MaxJobs
          /\ schedulingBucketIdx[q] \in BucketsOf(q)

HasJob(bs, q, c) == \E b \in BucketsOf(q) : \E i \in DOMAIN bs[q][b] : bs[q][b][i] = c
ScheduledIsQueued == \A c \in checkToQueue : HasJob(buckets, Interval[c], c)

JobInv == JobTypes /\ ScheduledIsQueued

LEMMA JobStutter ==
    ASSUME JobInv, UNCHANGED jobVars
    PROVE  JobInv'
BY DEF JobInv, JobTypes, ScheduledIsQueued, HasJob, jobVars

\* The bound on the jobs of a bucket is kept: JobsOf sees all of them.
LEMMA JobsSeen ==
    ASSUME JobInv
    PROVE  ScheduledHasJob
<1> SUFFICES ASSUME NEW c \in checkToQueue PROVE JobsOf(c, Interval[c]) # {}
  BY DEF ScheduledHasJob
<1> DEFINE q == Interval[c]
<1>1. q \in Intervals
  BY ChecksAssumption DEF JobInv, JobTypes
<1>2a. PICK b \in BucketsOf(q) : \E i \in DOMAIN buckets[q][b] : buckets[q][b][i] = c
  BY DEF JobInv, ScheduledIsQueued, HasJob
<1>2. PICK i \in DOMAIN buckets[q][b] : buckets[q][b][i] = c
  BY <1>2a
<1>3. buckets[q][b] \in Seq(Checks) /\ Len(buckets[q][b]) <= MaxJobs /\ MaxJobs \in Nat
  BY <1>1, ActorsAssumption DEF JobInv, JobTypes
<1>4. i \in 1..MaxJobs /\ i <= Len(buckets[q][b])
  BY <1>3
<1>5. <<b, i>> \in JobsOf(c, q)
  BY <1>2, <1>4 DEF JobsOf
<1> QED BY <1>5

\* addJob's next bucket is one of the queue's.
LEMMA NextBucketInRange ==
    ASSUME NEW nb \in Nat \ {0}, NEW i \in 0..(nb - 1)
    PROVE  NextSchedulingBucket(i, nb) \in 0..(nb - 1)
<1>1. SparseStep(nb) \in Nat
  BY DEF SparseStep
<1>2. i + SparseStep(nb) \in Nat
  BY <1>1
<1> HIDE DEF SparseStep
<1> QED BY <1>2 DEF NextSchedulingBucket

\* What taking the first job of a check out of a bucket keeps.
LEMMA RemoveFirstFacts ==
    ASSUME NEW S, NEW s \in Seq(S), NEW e
    PROVE  /\ RemoveFirst(s, e) \in Seq(S)
           /\ Len(RemoveFirst(s, e)) <= Len(s)
           /\ \A j \in DOMAIN s : s[j] # e => \E k \in DOMAIN RemoveFirst(s, e) : RemoveFirst(s, e)[k] = s[j]
<1>1. CASE \E i \in 1..Len(s) : s[i] = e
  <2> DEFINE I == {i \in 1..Len(s) : s[i] = e}
             m == Min(I)
  <2>1. I \in SUBSET (1..Len(s)) /\ I # {} /\ Len(s) \in Nat
    BY <1>1
  <2>2. m \in I
    <3> HIDE DEF I
    <3> QED BY <2>1, MinMax
  <2>3. RemoveFirst(s, e) = RemoveAt(s, m)
    BY <1>1, <2>1 DEF RemoveFirst, SelectInSeq
  <2>4. m \in DOMAIN s /\ s[m] = e
    BY <2>2
  <2> HIDE DEF m
  <2>5. /\ RemoveAt(s, m) \in Seq(S) /\ Len(RemoveAt(s, m)) = Len(s) - 1
        /\ \A j \in DOMAIN s : j # m => \E k \in DOMAIN RemoveAt(s, m) : RemoveAt(s, m)[k] = s[j]
    BY <2>4, RemoveAtFacts
  <2>6. \A j \in DOMAIN s : s[j] # e => \E k \in DOMAIN RemoveAt(s, m) : RemoveAt(s, m)[k] = s[j]
    BY <2>4, <2>5
  <2>7. Len(RemoveAt(s, m)) <= Len(s)
    BY <2>1, <2>5
  <2> HIDE DEF I
  <2> QED BY <2>3, <2>5, <2>6, <2>7
<1>2. CASE ~ \E i \in 1..Len(s) : s[i] = e
  <2>1. RemoveFirst(s, e) = s
    BY <1>2 DEF RemoveFirst
  <2> QED BY <2>1
<1> QED BY <1>1, <1>2

LEMMA AppendFacts ==
    ASSUME NEW S, NEW s \in Seq(S), NEW e \in S
    PROVE  /\ Append(s, e) \in Seq(S) /\ Len(Append(s, e)) = Len(s) + 1
           /\ Append(s, e)[Len(s) + 1] = e
           /\ \A j \in 1..Len(s) : Append(s, e)[j] = s[j]
OBVIOUS

\* RunCheck adds the job at the end of a bucket.
LEMMA JobRunCheck ==
    ASSUME JobInv, NEW a \in Callers, NEW c \in Checks, RunCheck(a, c)
    PROVE  JobInv'
<1>1. CASE RunOnce(c)
  BY <1>1, JobStutter DEF RunOnce
<1>2. CASE RunPeriodic(c)
  <2> DEFINE q == Interval[c]
             i == schedulingBucketIdx[q]
  <2>1. q \in Intervals /\ Buckets[q] \in Nat \ {0} /\ c \in Checks \ OneTime
    BY <1>2, ChecksAssumption DEF RunPeriodic
  <2>2. i \in BucketsOf(q) /\ buckets[q] \in [BucketsOf(q) -> Seq(Checks)]
    BY <2>1 DEF JobInv, JobTypes
  <2>3. Len(buckets[q][i]) < MaxJobs /\ MaxJobs \in Nat
    BY <1>2, ActorsAssumption DEF RunPeriodic
  <2>4. buckets' = [buckets EXCEPT ![q][i] = Append(@, c)]
    BY <1>2 DEF RunPeriodic
  <2> DEFINE new == Append(buckets[q][i], c)
  <2>5. /\ new \in Seq(Checks) /\ Len(new) <= MaxJobs
        /\ \A j \in DOMAIN buckets[q][i] : j \in DOMAIN new /\ new[j] = buckets[q][i][j]
        /\ \E j \in DOMAIN new : new[j] = c
    <3> DEFINE old == buckets[q][i]
    <3>1. old \in Seq(Checks) /\ Len(old) < MaxJobs /\ new = Append(old, c)
      BY <2>2, <2>3
    <3> HIDE DEF old, new
    <3>2. /\ new \in Seq(Checks) /\ Len(new) = Len(old) + 1 /\ new[Len(old) + 1] = c
          /\ \A j \in 1..Len(old) : new[j] = old[j]
      BY <3>1, AppendFacts
    <3>3. /\ DOMAIN old = 1..Len(old) /\ Len(old) \in Nat
          /\ DOMAIN new = 1..Len(new) /\ Len(new) \in Nat
      BY <3>1, <3>2
    <3>4. Len(new) <= MaxJobs
      BY <2>3, <3>1, <3>2, <3>3
    <3>5. \A j \in DOMAIN old : j \in DOMAIN new /\ new[j] = old[j]
      BY <3>2, <3>3
    <3>6. Len(old) + 1 \in DOMAIN new
      BY <3>2, <3>3
    <3> QED BY <3>2, <3>4, <3>5, <3>6 DEF old
  <2>6. \A r \in Intervals : \A b \in BucketsOf(r) :
            buckets'[r][b] = IF r = q /\ b = i THEN new ELSE buckets[r][b]
    BY <2>1, <2>2, <2>4 DEF JobInv, JobTypes
  <2>7. \A r \in Intervals : DOMAIN buckets'[r] = BucketsOf(r) /\ buckets'[r] = [b \in BucketsOf(r) |-> buckets'[r][b]]
    BY <2>1, <2>2, <2>4 DEF JobInv, JobTypes
  <2> HIDE DEF new
  <2>8. ASSUME NEW r \in Intervals PROVE /\ buckets'[r] \in [BucketsOf(r) -> Seq(Checks)]
                                        /\ \A b \in BucketsOf(r) : Len(buckets'[r][b]) <= MaxJobs
    <3>1. \A b \in BucketsOf(r) : buckets[r][b] \in Seq(Checks) /\ Len(buckets[r][b]) <= MaxJobs
      BY DEF JobInv, JobTypes
    <3>2. \A b \in BucketsOf(r) : buckets'[r][b] \in Seq(Checks) /\ Len(buckets'[r][b]) <= MaxJobs
      BY <2>5, <2>6, <3>1
    <3> QED BY <2>7, <3>2
  <2>9. schedulingBucketIdx' = [schedulingBucketIdx EXCEPT ![q] = NextSchedulingBucket(i, Buckets[q])]
    BY <1>2 DEF RunPeriodic
  <2>10. NextSchedulingBucket(i, Buckets[q]) \in BucketsOf(q)
    BY <2>1, <2>2, NextBucketInRange DEF BucketsOf
  <2>11. checkToQueue' = checkToQueue \cup {c}
    BY <1>2 DEF RunPeriodic
  <2>12. buckets' = [r \in Intervals |-> buckets'[r]]
    BY <2>4 DEF JobInv, JobTypes
  <2>13. JobTypes'
    BY <2>1, <2>8, <2>9, <2>10, <2>11, <2>12 DEF JobInv, JobTypes, BucketsOf
  <2>14. ASSUME NEW d \in checkToQueue' PROVE HasJob(buckets', Interval[d], d)
    <3>1. CASE d = c
      <4>1. buckets'[q][i] = new
        BY <2>1, <2>2, <2>6
      <4>2. \E j \in DOMAIN buckets'[q][i] : buckets'[q][i][j] = c
        BY <2>5, <4>1
      <4> QED BY <2>2, <3>1, <4>2 DEF HasJob
    <3>2. CASE d # c
      <4>1. d \in checkToQueue /\ Interval[d] \in Intervals
        BY <2>11, <3>2, ChecksAssumption DEF JobInv, JobTypes
      <4>2a. PICK b \in BucketsOf(Interval[d]) :
                \E j \in DOMAIN buckets[Interval[d]][b] : buckets[Interval[d]][b][j] = d
        BY <4>1 DEF JobInv, ScheduledIsQueued, HasJob
      <4>2. PICK j \in DOMAIN buckets[Interval[d]][b] : buckets[Interval[d]][b][j] = d
        BY <4>2a
      <4>3. j \in DOMAIN buckets'[Interval[d]][b] /\ buckets'[Interval[d]][b][j] = d
        BY <2>5, <2>6, <4>1, <4>2
      <4> QED BY <4>3 DEF HasJob
    <3> QED BY <3>1, <3>2
  <2> QED BY <2>13, <2>14 DEF JobInv, ScheduledIsQueued, HasJob, BucketsOf
<1> QED BY <1>1, <1>2 DEF RunCheck

\* Scheduler.Cancel takes a job away, and the check with it; the others keep theirs.
LEMMA JobCancel ==
    ASSUME JobInv, NEW a \in Callers, StopCheckCancel(a)
    PROVE  JobInv'
<1> DEFINE c == callId[a]
           q == Interval[c]
<1>1. CASE c \notin checkToQueue
  BY <1>1, JobStutter DEF StopCheckCancel, jobVars
<1>2. CASE c \in checkToQueue
  <2>1. q \in Intervals
    BY <1>2, ChecksAssumption DEF JobInv, JobTypes
  <2>2. checkToQueue' = checkToQueue \ {c} /\ buckets' = RemoveJob(q, c) /\ UNCHANGED schedulingBucketIdx
    BY <1>2 DEF StopCheckCancel
  <2> DEFINE m == Min({i \in BucketsOf(q) : Contains(buckets[q][i], c)})
  <2>3. buckets' = [buckets EXCEPT ![q][m] = RemoveFirst(@, c)]
    BY <2>2 DEF RemoveJob
  <2> HIDE DEF m
  <2>4. \A r \in Intervals : \A b \in BucketsOf(r) :
            buckets'[r][b] = IF r = q /\ b = m THEN RemoveFirst(buckets[r][b], c) ELSE buckets[r][b]
    BY <2>1, <2>3 DEF JobInv, JobTypes
  <2>5. \A r \in Intervals : buckets'[r] = [b \in BucketsOf(r) |-> buckets'[r][b]]
    BY <2>1, <2>3 DEF JobInv, JobTypes
  <2>6. buckets' = [r \in Intervals |-> buckets'[r]]
    BY <2>3 DEF JobInv, JobTypes
  <2>7. ASSUME NEW r \in Intervals, NEW b \in BucketsOf(r)
        PROVE  /\ buckets'[r][b] \in Seq(Checks) /\ Len(buckets'[r][b]) <= MaxJobs
               /\ \A j \in DOMAIN buckets[r][b] : buckets[r][b][j] # c =>
                     \E k \in DOMAIN buckets'[r][b] : buckets'[r][b][k] = buckets[r][b][j]
    <3>1. buckets[r][b] \in Seq(Checks) /\ Len(buckets[r][b]) <= MaxJobs /\ MaxJobs \in Nat
      BY ActorsAssumption DEF JobInv, JobTypes
    <3>2. CASE r = q /\ b = m
      <4>1. buckets'[r][b] = RemoveFirst(buckets[r][b], c)
        BY <2>4, <3>2
      <4>2. /\ RemoveFirst(buckets[r][b], c) \in Seq(Checks)
            /\ Len(RemoveFirst(buckets[r][b], c)) <= Len(buckets[r][b])
            /\ \A j \in DOMAIN buckets[r][b] : buckets[r][b][j] # c =>
                  \E k \in DOMAIN RemoveFirst(buckets[r][b], c) :
                      RemoveFirst(buckets[r][b], c)[k] = buckets[r][b][j]
        BY <3>1, RemoveFirstFacts
      <4>3. Len(RemoveFirst(buckets[r][b], c)) <= MaxJobs
        BY <3>1, <4>2
      <4> QED BY <4>1, <4>2, <4>3
    <3>3. CASE ~(r = q /\ b = m)
      BY <2>4, <3>1, <3>3
    <3> QED BY <3>2, <3>3
  <2>8. \A r \in Intervals : buckets'[r] \in [BucketsOf(r) -> Seq(Checks)]
    BY <2>5, <2>7
  <2>9. JobTypes'
    BY <2>2, <2>6, <2>7, <2>8 DEF JobInv, JobTypes, BucketsOf
  <2>10. ASSUME NEW d \in checkToQueue' PROVE HasJob(buckets', Interval[d], d)
    <3>1. d # c /\ d \in checkToQueue /\ Interval[d] \in Intervals
      BY <2>2, ChecksAssumption DEF JobInv, JobTypes
    <3>2a. PICK b \in BucketsOf(Interval[d]) :
                \E j \in DOMAIN buckets[Interval[d]][b] : buckets[Interval[d]][b][j] = d
      BY <3>1 DEF JobInv, ScheduledIsQueued, HasJob
    <3>2. PICK j \in DOMAIN buckets[Interval[d]][b] : buckets[Interval[d]][b][j] = d
      BY <3>2a
    <3>3. \E k \in DOMAIN buckets'[Interval[d]][b] : buckets'[Interval[d]][b][k] = d
      BY <2>7, <3>1, <3>2
    <3> QED BY <3>3 DEF HasJob
  <2> QED BY <2>9, <2>10 DEF JobInv, ScheduledIsQueued, HasJob, BucketsOf
<1> QED BY <1>1, <1>2

\* No other step touches the jobs or the scheduled checks.
LEMMA JobOthers ==
    ASSUME \/ \E a \in Callers, c \in Checks : StopCheckBegin(a, c)
           \/ \E a \in Callers : StopCheckStep(a) /\ ~StopCheckCancel(a)
           \/ \E q \in Intervals : QueueStep(q) \/ QueueSend(q)
           \/ \E c \in Checks : OnceSend(c) \/ OnceCancelled(c)
           \/ \E w \in Workers : WorkerOwnStep(w) \/ WorkRan(w)
           \/ StopBegin \/ StopStep \/ LoopStep
    PROVE  UNCHANGED jobVars
<1>1. CASE \E a \in Callers, c \in Checks : StopCheckBegin(a, c)
  BY <1>1 DEF StopCheckBegin, schedVars
<1>2. CASE \E a \in Callers : StopCheckStep(a) /\ ~StopCheckCancel(a)
  BY <1>2 DEF StopCheckStep, StopCheckGet, StopCheckScheduler, StopCheckRunner, StopCheckStopped,
     StopCheckCancelCheck, StopCheckDelete, schedVars
<1>3. CASE \E q \in Intervals : QueueStep(q) \/ QueueSend(q)
  BY <1>3 DEF QueueStep, QueueTick, QueueAsk, QueueBucketDone, QueueSend
<1>4. CASE \E c \in Checks : OnceSend(c) \/ OnceCancelled(c)
  BY <1>4 DEF OnceSend, OnceCancelled
<1>5. CASE \E w \in Workers : WorkerOwnStep(w) \/ WorkRan(w)
  BY <1>5 DEF WorkerOwnStep, WorkBegin, WorkRan, WorkRemove, WorkLock, WorkAsk, WorkAdd, WorkUnlock,
     WorkExit, schedVars
<1>6. CASE StopBegin \/ StopStep \/ LoopStep
  BY <1>6 DEF StopBegin, StopStep, StopCancelOneTime, StopWaitOneTime, StopHalted, StopClosePending,
     StopEnd, LoopStep, StopQueuesLock, StopQueuesEnd, StopQueue, QueueStopped, schedVars
<1> QED BY <1>1, <1>2, <1>3, <1>4, <1>5, <1>6

\* A scheduled check has a job in its queue, whichever callers run and stop checks
\* at the same time: it is run, and Cancel finds a job to remove.
THEOREM ScheduledChecksAreQueued == Spec => []ScheduledHasJob
<1>1. Init => JobInv
  <2> SUFFICES ASSUME Init PROVE JobInv
    OBVIOUS
  <2>1. \A q \in Intervals : 0 \in BucketsOf(q)
    BY ChecksAssumption DEF BucketsOf
  <2>2. \A q \in Intervals : buckets[q] = [b \in BucketsOf(q) |-> <<>>]
    BY DEF Init
  <2>3. \A q \in Intervals : \A b \in BucketsOf(q) : buckets[q][b] = <<>>
    BY <2>2
  <2>4. \A q \in Intervals : \A b \in BucketsOf(q) : Len(buckets[q][b]) <= MaxJobs
    BY <2>3, ActorsAssumption
  <2>5. \A q \in Intervals : buckets[q] \in [BucketsOf(q) -> Seq(Checks)]
    <3>1. <<>> \in Seq(Checks)
      OBVIOUS
    <3> QED BY <2>2, <3>1
  <2>6. JobTypes
    BY <2>1, <2>4, <2>5 DEF JobTypes, Init
  <2> QED BY <2>6 DEF JobInv, ScheduledIsQueued, Init
<1>2. JobInv /\ [Next]_vars => JobInv'
  <2> SUFFICES ASSUME JobInv, [Next]_vars PROVE JobInv'
    OBVIOUS
  <2>1. CASE UNCHANGED vars
    BY <2>1, JobStutter DEF vars, schedVars
  <2>2. CASE \E a \in Callers, c \in Checks : RunCheck(a, c)
    BY <2>2, JobRunCheck
  <2>3. CASE \E a \in Callers : StopCheckCancel(a)
    BY <2>3, JobCancel
  <2> QED BY <2>1, <2>2, <2>3, JobOthers, JobStutter DEF Next
<1>3. JobInv => ScheduledHasJob
  BY JobsSeen
<1> QED BY <1>1, <1>2, <1>3, PTL DEF Spec

-----------------------------------------------------------------------------
(* The tracer's account: what is stored of a batch of closed connections.   *)

Conns      == [present : {TRUE}, sent : Nat, est : Nat, epoch : Nat]
MaybeConn  == Conns \cup {None}
MaybeStats == [present : {TRUE}, totalSent : Nat, totalEst : Nat] \cup {None}
Clients    == [present : {TRUE}, stats : MaybeStats, closed : MaybeConn] \cup {None}

SentOf(conn) == IF conn.present THEN conn.sent ELSE 0
EstOf(conn)  == IF conn.present THEN conn.est ELSE 0
Told(st)     == IF st.present THEN st.totalSent ELSE 0

SentIn(b, s) == SumFunctionOnSet([k \in DOMAIN b |-> b[k].sent], s)
EstIn(b, s)  == SumFunctionOnSet([k \in DOMAIN b |-> b[k].est], s)

\* The connections of a batch were closed one after the other, after conn was.
Later(b)       == \A j, k \in DOMAIN b : j < k => b[j].epoch < b[k].epoch
After(b, conn) == conn.present => \A k \in DOMAIN b : conn.epoch < b[k].epoch

\* The closed connection of a client, and all the clients, after some of the batch.
ClosedBy(conn, b, s) ==
    IF s = {} THEN conn
    ELSE Conn(SentOf(conn) + SentIn(b, s), EstOf(conn) + EstIn(b, s), b[Max(s)].epoch)
Folded(cl, b, s) ==
    [c \in NsClients |-> IF cl[c].present
                         THEN ClientState(cl[c].stats, ClosedBy(cl[c].closed, b, s)) ELSE None]

LEMMA ConnFacts ==
    /\ ~None.present
    /\ \A x \in MaybeConn : /\ x.present \in BOOLEAN /\ (x.present <=> x \in Conns) /\ (~x.present => x = None)
                            /\ SentOf(x) \in Nat /\ EstOf(x) \in Nat
    /\ \A x \in Conns : /\ x.present /\ x.sent \in Nat /\ x.est \in Nat /\ x.epoch \in Nat
                        /\ SentOf(x) = x.sent /\ EstOf(x) = x.est
    /\ \A s, e, t \in Nat : Conn(s, e, t) \in Conns
    /\ \A s, e, t : LET x == Conn(s, e, t) IN x.present /\ x.sent = s /\ x.est = e /\ x.epoch = t
<1>1. ~None.present
  BY DEF None
<1>2. ASSUME NEW x \in Conns
      PROVE  /\ x.present = TRUE /\ x.sent \in Nat /\ x.est \in Nat /\ x.epoch \in Nat
             /\ SentOf(x) = x.sent /\ EstOf(x) = x.est
  BY DEF Conns, SentOf, EstOf
<1>3. SentOf(None) = 0 /\ EstOf(None) = 0
  BY <1>1 DEF SentOf, EstOf
<1>4. None.present = FALSE
  BY DEF None
<1>5. ASSUME NEW x \in MaybeConn
      PROVE  /\ x.present \in BOOLEAN /\ (x.present <=> x \in Conns) /\ (~x.present => x = None)
             /\ SentOf(x) \in Nat /\ EstOf(x) \in Nat
  <2>1. CASE x \in Conns
    BY <1>2, <2>1
  <2>2. CASE x = None
    <3>1. None \notin Conns
      BY <1>2, <1>4
    <3>2. None.present \in BOOLEAN
      BY <1>4
    <3> QED BY <1>1, <1>3, <2>2, <3>1, <3>2
  <2> QED BY <2>1, <2>2 DEF MaybeConn
<1>6. \A e, t, n \in Nat : Conn(e, t, n) \in Conns
  BY DEF Conn, Conns
<1>7. ASSUME NEW n, NEW e, NEW t
      PROVE  LET x == Conn(n, e, t) IN x.present /\ x.sent = n /\ x.est = e /\ x.epoch = t
  BY DEF Conn
<1> QED BY <1>1, <1>2, <1>5, <1>6, <1>7

LEMMA ClientFacts ==
    /\ \A x \in Clients : /\ x.present \in BOOLEAN /\ (~x.present => x = None)
                          /\ x.present => /\ x = ClientState(x.stats, x.closed)
                                          /\ x.stats \in MaybeStats /\ x.closed \in MaybeConn
    /\ \A st \in MaybeStats, conn \in MaybeConn : ClientState(st, conn) \in Clients
    /\ \A st, conn : LET x == ClientState(st, conn) IN x.present /\ x.stats = st /\ x.closed = conn
    /\ None \in Clients
<1> DEFINE Full == [present : {TRUE}, stats : MaybeStats, closed : MaybeConn]
<1>1. ASSUME NEW x \in Full
      PROVE  /\ x.present = TRUE /\ x = ClientState(x.stats, x.closed)
             /\ x.stats \in MaybeStats /\ x.closed \in MaybeConn
  BY DEF ClientState
<1>2. None.present = FALSE
  BY DEF None
<1>3. \A st \in MaybeStats, conn \in MaybeConn : ClientState(st, conn) \in Full
  BY DEF ClientState
<1> HIDE DEF Full
<1>4. Clients = Full \cup {None}
  BY DEF Clients, Full
<1>5. ASSUME NEW x \in Clients
      PROVE  /\ x.present \in BOOLEAN /\ (~x.present => x = None)
             /\ x.present => /\ x = ClientState(x.stats, x.closed)
                             /\ x.stats \in MaybeStats /\ x.closed \in MaybeConn
  <2>1. CASE x \in Full
    BY <1>1, <2>1
  <2>2. CASE x = None
    BY <1>2, <2>2
  <2> QED BY <1>4, <2>1, <2>2
<1>6. \A st, conn : LET x == ClientState(st, conn) IN x.present /\ x.stats = st /\ x.closed = conn
  BY DEF ClientState
<1> QED BY <1>3, <1>4, <1>5, <1>6

LEMMA StatsFacts ==
    /\ \A x \in MaybeStats : /\ x.present \in BOOLEAN /\ (~x.present => x = None) /\ Told(x) \in Nat
                             /\ x.present => x.totalSent \in Nat /\ x.totalEst \in Nat
    /\ \A s, e \in Nat : Stats(s, e) \in MaybeStats
    /\ \A s, e : LET x == Stats(s, e) IN x.present /\ x.totalSent = s /\ x.totalEst = e /\ Told(x) = s
    /\ None \in MaybeStats /\ Told(None) = 0
<1> DEFINE Full == [present : {TRUE}, totalSent : Nat, totalEst : Nat]
<1>1. ASSUME NEW x \in Full
      PROVE  x.present = TRUE /\ x.totalSent \in Nat /\ x.totalEst \in Nat /\ Told(x) \in Nat
  BY DEF Told
<1>2. None.present = FALSE /\ Told(None) = 0
  BY DEF None, Told
<1>3. \A s, e \in Nat : Stats(s, e) \in Full
  BY DEF Stats
<1>4. \A s, e : LET x == Stats(s, e) IN x.present /\ x.totalSent = s /\ x.totalEst = e /\ Told(x) = s
  BY DEF Stats, Told
<1> HIDE DEF Full
<1>5. MaybeStats = Full \cup {None}
  BY DEF MaybeStats, Full
<1>6. ASSUME NEW x \in MaybeStats
      PROVE  /\ x.present \in BOOLEAN /\ (~x.present => x = None) /\ Told(x) \in Nat
             /\ x.present => x.totalSent \in Nat /\ x.totalEst \in Nat
  <2>1. CASE x \in Full
    BY <1>1, <2>1
  <2>2. CASE x = None
    <3>1. Told(None) \in Nat
      BY <1>2
    <3>2. None.present \in BOOLEAN
      BY <1>2
    <3>3. ~None.present
      BY <1>2
    <3> QED BY <2>2, <3>1, <3>2, <3>3
  <2> QED BY <1>5, <2>1, <2>2
<1> QED BY <1>2, <1>3, <1>4, <1>5, <1>6

\* Sums over a batch.
LEMMA BatchSums ==
    ASSUME NEW b \in Seq(Conns), NEW s \in SUBSET DOMAIN b
    PROVE  /\ IsFiniteSet(s) /\ SentIn(b, s) \in Nat /\ EstIn(b, s) \in Nat
           /\ \A x \in s : /\ SentIn(b, s) = b[x].sent + SentIn(b, s \ {x})
                           /\ EstIn(b, s) = b[x].est + EstIn(b, s \ {x})
           /\ s = {} => SentIn(b, s) = 0 /\ EstIn(b, s) = 0
<1> DEFINE w == [k \in DOMAIN b |-> b[k].sent]
           v == [k \in DOMAIN b |-> b[k].est]
<1>1. /\ IsFiniteSet(DOMAIN b)
      /\ \A k \in DOMAIN b : b[k] \in Conns
  <2>1. DOMAIN b = 1..Len(b) /\ Len(b) \in Nat
    OBVIOUS
  <2> QED BY <2>1, FS_Interval
<1>2. IsFiniteSet(s)
  BY <1>1, FS_Subset
<1>3. \A k \in s : w[k] = b[k].sent /\ w[k] \in Nat /\ v[k] = b[k].est /\ v[k] \in Nat
  BY <1>1, ConnFacts
<1> HIDE DEF w, v
<1>4. SumFunctionOnSet(w, s) \in Nat /\ SumFunctionOnSet(v, s) \in Nat
  BY <1>2, <1>3, SumType
<1>5. ASSUME NEW x \in s
      PROVE  SumFunctionOnSet(w, s) = w[x] + SumFunctionOnSet(w, s \ {x})
  <2>1. \A k \in s : w[k] \in Nat
    BY <1>3
  <2> QED BY <1>2, <2>1, SumRemove
<1>6. ASSUME NEW x \in s
      PROVE  SumFunctionOnSet(v, s) = v[x] + SumFunctionOnSet(v, s \ {x})
  <2>1. \A k \in s : v[k] \in Nat
    BY <1>3
  <2> QED BY <1>2, <2>1, SumRemove
<1>7. SumFunctionOnSet(w, {}) = 0 /\ SumFunctionOnSet(v, {}) = 0
  BY SumEmpty
<1>8. SentIn(b, s) = SumFunctionOnSet(w, s) /\ EstIn(b, s) = SumFunctionOnSet(v, s)
      /\ \A x \in s : /\ SentIn(b, s \ {x}) = SumFunctionOnSet(w, s \ {x})
                      /\ EstIn(b, s \ {x}) = SumFunctionOnSet(v, s \ {x})
  BY DEF SentIn, EstIn, w, v
<1> QED BY <1>2, <1>3, <1>4, <1>5, <1>6, <1>7, <1>8

LEMMA BatchMax ==
    ASSUME NEW b \in Seq(Conns), NEW s \in SUBSET DOMAIN b, s # {}
    PROVE  Max(s) \in s /\ Max(s) \in DOMAIN b /\ b[Max(s)] \in Conns /\ \A x \in s : x <= Max(s)
<1>1. IsFiniteSet(s)
  BY BatchSums
<1>2. DOMAIN b = 1..Len(b) /\ Len(b) \in Nat
  OBVIOUS
<1>3. Numbers(s)
  BY <1>2 DEF Numbers
<1>4. Max(s) \in s /\ \A x \in s : x <= Max(s)
  BY <1>1, <1>3, FiniteMax
<1> QED BY <1>4

LEMMA ClosedNext ==
    ASSUME NEW conn \in MaybeConn, NEW b \in Seq(Conns), Later(b), After(b, conn),
           NEW s \in SUBSET DOMAIN b, s # {}
    PROVE  ClosedBy(conn, b, s) = MergeClosed(ClosedBy(conn, b, s \ {Max(s)}), b[Max(s)])
<1> DEFINE m == Max(s)
           r == s \ {m}
           x == b[m]
<1>1. m \in s /\ m \in DOMAIN b /\ x \in Conns /\ \A y \in s : y <= m
  BY BatchMax
<1>2. r \in SUBSET DOMAIN b
  OBVIOUS
<1>3. /\ SentIn(b, s) = x.sent + SentIn(b, r) /\ EstIn(b, s) = x.est + EstIn(b, r)
      /\ SentIn(b, r) \in Nat /\ EstIn(b, r) \in Nat
      /\ r = {} => SentIn(b, r) = 0 /\ EstIn(b, r) = 0
  BY <1>1, <1>2, BatchSums
<1>4. x.present /\ x.sent \in Nat /\ x.est \in Nat /\ x.epoch \in Nat /\ SentOf(conn) \in Nat /\ EstOf(conn) \in Nat
  BY <1>1, ConnFacts
<1>5. DOMAIN b \subseteq Nat
  OBVIOUS
<1>6. x = Conn(x.sent, x.est, x.epoch)
  BY <1>1 DEF Conns, Conn
<1>7. ClosedBy(conn, b, s) = Conn(SentOf(conn) + SentIn(b, s), EstOf(conn) + EstIn(b, s), x.epoch)
  BY DEF ClosedBy
<1>8. CASE r = {}
  <2>1. ClosedBy(conn, b, r) = conn
    BY <1>8 DEF ClosedBy
  <2>2. CASE conn.present
    <3>1. conn \in Conns /\ SentOf(conn) = conn.sent /\ EstOf(conn) = conn.est /\ conn.epoch \in Nat
      BY <2>2, ConnFacts
    <3>2. conn.epoch < x.epoch
      BY <1>1, <2>2 DEF After
    <3>3. ~(conn.epoch >= x.epoch)
      BY <1>4, <3>1, <3>2
    <3>4. MergeClosed(conn, x) = Conn(conn.sent + x.sent, conn.est + x.est, x.epoch)
      BY <2>2, <3>3 DEF MergeClosed
    <3>5. SentIn(b, s) = x.sent /\ EstIn(b, s) = x.est
      BY <1>3, <1>4, <1>8
    <3> QED BY <1>7, <2>1, <3>1, <3>4, <3>5
  <2>3. CASE ~conn.present
    <3>1. MergeClosed(conn, x) = x
      BY <2>3 DEF MergeClosed
    <3>2. SentOf(conn) = 0 /\ EstOf(conn) = 0
      BY <2>3 DEF SentOf, EstOf
    <3>3. SentOf(conn) + SentIn(b, s) = x.sent /\ EstOf(conn) + EstIn(b, s) = x.est
      BY <1>3, <1>4, <1>8, <3>2
    <3> QED BY <1>6, <1>7, <2>1, <3>1, <3>3
  <2> QED BY <2>2, <2>3
<1>9. CASE r # {}
  <2> DEFINE n == Max(r)
             y == ClosedBy(conn, b, r)
  <2>1. n \in r /\ n \in DOMAIN b /\ b[n] \in Conns
    BY <1>2, <1>9, BatchMax
  <2>2. n < m
    BY <1>1, <1>5, <2>1
  <2>3. b[n].epoch < x.epoch /\ b[n].epoch \in Nat
    BY <1>1, <2>1, <2>2, ConnFacts DEF Later
  <2>4. y = Conn(SentOf(conn) + SentIn(b, r), EstOf(conn) + EstIn(b, r), b[n].epoch)
    BY <1>9 DEF ClosedBy
  <2>5. /\ y.present /\ y.epoch = b[n].epoch
        /\ y.sent = SentOf(conn) + SentIn(b, r) /\ y.est = EstOf(conn) + EstIn(b, r)
    <3> HIDE DEF y
    <3> QED BY <2>4 DEF Conn
  <2>6. ~(y.epoch >= x.epoch)
    BY <1>4, <2>3, <2>5
  <2> HIDE DEF y, x
  <2>7. MergeClosed(y, x) = Conn(y.sent + x.sent, y.est + x.est, x.epoch)
    BY <2>5, <2>6 DEF MergeClosed
  <2> HIDE DEF r, m
  <2>8. y.sent + x.sent = SentOf(conn) + SentIn(b, s)
    BY <1>3, <1>4, <2>5
  <2>9. y.est + x.est = EstOf(conn) + EstIn(b, s)
    BY <1>3, <1>4, <2>5
  <2> QED BY <1>7, <2>7, <2>8, <2>9 DEF y, x, r, m
<1> QED BY <1>8, <1>9

\* FoldLeft is a recursive function of the sets of indices.
Folds(cl, b, g) ==
    g = [s \in SUBSET DOMAIN b |-> IF s = {} THEN cl ELSE Stored(g[s \ {Max(s)}], b[Max(s)])]

LEMMA FoldIsChosen ==
    ASSUME NEW cl, NEW b
    PROVE  FoldLeft(Stored, cl, b) = (CHOOSE g : Folds(cl, b, g))[DOMAIN b]
BY DEF FoldLeft, MapThenFoldSet, Folds

LEMMA FoldsAt ==
    ASSUME NEW cl, NEW b, NEW g, Folds(cl, b, g), NEW s \in SUBSET DOMAIN b
    PROVE  g[s] = IF s = {} THEN cl ELSE Stored(g[s \ {Max(s)}], b[Max(s)])
BY DEF Folds

LEMMA FoldsUnique ==
    ASSUME NEW cl, NEW b \in Seq(Conns), NEW g, NEW h, Folds(cl, b, g), Folds(cl, b, h)
    PROVE  g = h
<1> DEFINE S == DOMAIN b
           B == {s \in SUBSET S : g[s] # h[s]}
<1>0. IsFiniteSet(S)
  BY BatchSums
<1>1. CASE B # {}
  <2>1. B \in SUBSET SUBSET S
    OBVIOUS
  <2>2. PICK s \in B : \A t \in B : ~(t \subseteq s /\ t # s)
    <3> HIDE DEF B, S
    <3> QED BY <1>0, <1>1, <2>1, LeastSet
  <2>3. s # {}
    <3>1. {} \in SUBSET S
      OBVIOUS
    <3>2. g[{}] = cl /\ h[{}] = cl
      BY <3>1, FoldsAt
    <3> QED BY <3>2
  <2> DEFINE m == Max(s)
             t == s \ {m}
  <2>4. m \in s
    BY <2>2, <2>3, BatchMax
  <2> HIDE DEF m
  <2>5. t \in SUBSET S /\ t \notin B
    BY <2>2, <2>4
  <2>6. g[t] = h[t]
    BY <2>5
  <2>7. g[s] = Stored(g[t], b[m]) /\ h[s] = Stored(h[t], b[m])
    <3>1. s \in SUBSET DOMAIN b
      BY <2>2
    <3>2. g[s] = IF s = {} THEN cl ELSE Stored(g[s \ {Max(s)}], b[Max(s)])
      BY <3>1, FoldsAt
    <3>3. h[s] = IF s = {} THEN cl ELSE Stored(h[s \ {Max(s)}], b[Max(s)])
      BY <3>1, FoldsAt
    <3> QED BY <2>3, <3>2, <3>3 DEF m
  <2> QED BY <2>6, <2>7
<1>2. CASE B = {}
  <2>1. \A s \in SUBSET S : g[s] = h[s]
    BY <1>2
  <2>2. g = [s \in SUBSET S |-> g[s]] /\ h = [s \in SUBSET S |-> h[s]]
    BY DEF Folds
  <2> QED BY <2>1, <2>2
<1> QED BY <1>1, <1>2

LEMMA StoredFolds ==
    ASSUME NEW cl \in [NsClients -> Clients], NEW b \in Seq(Conns), Later(b),
           \A c \in NsClients : cl[c].present => After(b, cl[c].closed)
    PROVE  FoldLeft(Stored, cl, b) = Folded(cl, b, DOMAIN b)
<1> DEFINE S == DOMAIN b
           h == [s \in SUBSET S |-> Folded(cl, b, s)]
<1>1. ASSUME NEW c \in NsClients, cl[c].present
      PROVE  cl[c] = ClientState(cl[c].stats, cl[c].closed) /\ cl[c].closed \in MaybeConn
  BY <1>1, ClientFacts
<1>2. \A c \in NsClients : ~cl[c].present => cl[c] = None
  BY ClientFacts
<1>3. Folded(cl, b, {}) = cl
  <2>1. \A c \in NsClients : Folded(cl, b, {})[c] = cl[c]
    BY <1>1, <1>2 DEF Folded, ClosedBy
  <2> QED BY <2>1 DEF Folded
<1>4. ASSUME NEW s \in SUBSET S, s # {}
      PROVE  Folded(cl, b, s) = Stored(Folded(cl, b, s \ {Max(s)}), b[Max(s)])
  <2> DEFINE m == Max(s)
             t == s \ {m}
             f == Folded(cl, b, t)
  <2>1. ASSUME NEW c \in NsClients
        PROVE  Folded(cl, b, s)[c] = Stored(f, b[m])[c]
    <3>1. CASE cl[c].present
      <4>1. f[c] = ClientState(cl[c].stats, ClosedBy(cl[c].closed, b, t))
        BY <3>1 DEF Folded
      <4>2. f[c].present /\ f[c].stats = cl[c].stats /\ f[c].closed = ClosedBy(cl[c].closed, b, t)
        <5> HIDE DEF f
        <5> QED BY <4>1, ClientFacts
      <4> HIDE DEF f
      <4>3. Stored(f, b[m])[c] = ClientState(cl[c].stats, MergeClosed(ClosedBy(cl[c].closed, b, t), b[m]))
        BY <4>2 DEF Stored
      <4>4. ClosedBy(cl[c].closed, b, s) = MergeClosed(ClosedBy(cl[c].closed, b, t), b[m])
        BY <1>1, <1>4, <3>1, ClosedNext
      <4>5. Folded(cl, b, s)[c] = ClientState(cl[c].stats, ClosedBy(cl[c].closed, b, s))
        BY <3>1 DEF Folded
      <4> QED BY <4>3, <4>4, <4>5
    <3>2. CASE ~cl[c].present
      <4>1. f[c] = None /\ Folded(cl, b, s)[c] = None
        BY <3>2 DEF Folded
      <4>2. ~f[c].present
        BY <4>1 DEF None
      <4> HIDE DEF f
      <4> QED BY <4>1, <4>2 DEF Stored
    <3> QED BY <3>1, <3>2
  <2> HIDE DEF f, m
  <2>2. Folded(cl, b, s) = Stored(f, b[m])
    BY <2>1 DEF Folded, Stored
  <2> QED BY <2>2 DEF f, m
<1>5. Folds(cl, b, h)
  <2>1. ASSUME NEW s \in SUBSET S
        PROVE  h[s] = IF s = {} THEN cl ELSE Stored(h[s \ {Max(s)}], b[Max(s)])
    <3>1. CASE s = {}
      BY <1>3, <3>1
    <3>2. CASE s # {}
      <4>1. s \ {Max(s)} \in SUBSET S
        OBVIOUS
      <4>2. h[s] = Folded(cl, b, s) /\ h[s \ {Max(s)}] = Folded(cl, b, s \ {Max(s)})
        BY <4>1
      <4> HIDE DEF h
      <4> QED BY <1>4, <3>2, <4>2
    <3> QED BY <3>1, <3>2
  <2>2. h = [s \in SUBSET S |-> h[s]]
    OBVIOUS
  <2> HIDE DEF h
  <2> QED BY <2>1, <2>2 DEF Folds
<1> DEFINE iter == CHOOSE g : Folds(cl, b, g)
<1>6. Folds(cl, b, iter)
  BY <1>5
<1>7. S \in SUBSET S /\ h[S] = Folded(cl, b, S)
  OBVIOUS
<1> HIDE DEF iter, h
<1>8. iter = h
  BY <1>5, <1>6, FoldsUnique
<1>9. FoldLeft(Stored, cl, b) = iter[S]
  BY FoldIsChosen DEF iter
<1> QED BY <1>7, <1>8, <1>9

SentBy(b) == SentIn(b, DOMAIN b)

LEMMA BatchAppend ==
    ASSUME NEW b \in Seq(Conns), NEW x \in Conns
    PROVE  /\ Append(b, x) \in Seq(Conns) /\ SentBy(b) \in Nat
           /\ SentBy(Append(b, x)) = SentBy(b) + x.sent
           /\ DOMAIN Append(b, x) = DOMAIN b \cup {Len(b) + 1} /\ Len(b) \in Nat /\ DOMAIN b = 1..Len(b)
           /\ Append(b, x)[Len(b) + 1] = x /\ \A k \in DOMAIN b : Append(b, x)[k] = b[k]
<1> DEFINE a == Append(b, x)
           n == Len(b) + 1
           D == DOMAIN b
<1>1. /\ a \in Seq(Conns) /\ D = 1..Len(b) /\ DOMAIN a = D \cup {n} /\ Len(b) \in Nat
      /\ a[n] = x /\ \A k \in D : a[k] = b[k]
  OBVIOUS
<1> HIDE DEF a
<1>2. n \notin D /\ (D \cup {n}) \ {n} = D
  BY <1>1
<1> HIDE DEF n
<1>3. SentIn(a, D \cup {n}) = a[n].sent + SentIn(a, D)
  BY <1>1, <1>2, BatchSums
<1>4. SentIn(a, D) = SentIn(b, D)
  <2>1. IsFiniteSet(D)
    BY BatchSums
  <2> DEFINE w == [k \in DOMAIN a |-> a[k].sent]
             v == [k \in DOMAIN b |-> b[k].sent]
  <2>2. \A k \in D : w[k] = v[k]
    BY <1>1
  <2> HIDE DEF w, v
  <2>3. SumFunctionOnSet(w, D) = SumFunctionOnSet(v, D)
    BY <2>1, <2>2, SumSame
  <2> QED BY <2>3 DEF SentIn, w, v
<1>5. SentIn(b, D) \in Nat /\ x.sent \in Nat
  BY BatchSums, ConnFacts
<1> QED BY <1>1, <1>3, <1>4, <1>5 DEF SentBy, a, n

LEMMA BatchFirst ==
    ASSUME NEW b \in Seq(Conns), 1 \in DOMAIN b
    PROVE  /\ RemoveAt(b, 1) \in Seq(Conns) /\ b[1] \in Conns
           /\ SentBy(b) = b[1].sent + SentBy(RemoveAt(b, 1)) /\ SentBy(RemoveAt(b, 1)) \in Nat
           /\ \A k \in DOMAIN RemoveAt(b, 1) : k + 1 \in DOMAIN b /\ 1 < k + 1 /\ RemoveAt(b, 1)[k] = b[k + 1]
           /\ DOMAIN b \subseteq Nat /\ DOMAIN RemoveAt(b, 1) \subseteq Nat
<1> DEFINE a == RemoveAt(b, 1)
           D == DOMAIN a
           f == [k \in D |-> k + 1]
<1>1. /\ a \in Seq(Conns) /\ Len(a) = Len(b) - 1
      /\ \A j \in 1..(Len(b) - 1) : a[j] = IF j < 1 THEN b[j] ELSE b[j + 1]
  BY RemoveAtFacts
<1>2. DOMAIN b = 1..Len(b) /\ Len(b) \in Nat
  OBVIOUS
<1> HIDE DEF a
<1>3. D = 1..(Len(b) - 1)
  BY <1>1
<1>4. \A k \in D : k + 1 \in DOMAIN b /\ 1 < k + 1 /\ a[k] = b[k + 1]
  BY <1>1, <1>2, <1>3
<1>5. Renamed(f, D) = DOMAIN b \ {1}
  <2>1. \A x \in D : f[x] = x + 1 /\ f[x] \in DOMAIN b \ {1}
    BY <1>2, <1>3
  <2>2. \A y \in DOMAIN b \ {1} : y - 1 \in D /\ f[y - 1] = y
    BY <1>2, <1>3
  <2> HIDE DEF f, D
  <2> QED BY <2>1, <2>2 DEF Renamed
<1>6. IsFiniteSet(D)
  BY <1>1, BatchSums
<1> DEFINE w == [k \in DOMAIN a |-> a[k].sent]
           v == [k \in DOMAIN b |-> b[k].sent]
<1>7. \A k \in D : v[f[k]] = w[k] /\ w[k] \in Nat
  BY <1>1, <1>4, ConnFacts
<1>8. \A j, k \in D : f[j] = f[k] => j = k
  BY <1>3
<1> HIDE DEF w, v, f
<1>9. SumFunctionOnSet(v, Renamed(f, D)) = SumFunctionOnSet(w, D)
  BY <1>6, <1>7, <1>8, SumRenamed
<1>10. SentIn(b, DOMAIN b \ {1}) = SentIn(a, D)
  BY <1>5, <1>9 DEF SentIn, v, w
<1>11. SentIn(b, DOMAIN b) = b[1].sent + SentIn(b, DOMAIN b \ {1})
  BY BatchSums
<1>12. SentIn(a, D) \in Nat
  BY <1>1, BatchSums
<1> QED BY <1>1, <1>2, <1>3, <1>4, <1>10, <1>11, <1>12 DEF SentBy, a

-----------------------------------------------------------------------------
(* What a client is told. *)

LEMMA MinusFacts ==
    ASSUME NEW a \in Nat, NEW b \in Nat, b <= a
    PROVE  /\ Minus(a, b) \in Nat /\ Minus(a, b) <= a - b
           /\ a < Modulus => Minus(a, b) = a - b
<1> DEFINE d == a - b
<1>1. Modulus \in Nat \ {0} /\ d \in Nat
  BY NetworkAssumption
<1> HIDE DEF d
<1>2. PICK q \in Nat : d = q * Modulus + (d % Modulus)
  BY <1>1, Division
<1>3. d % Modulus \in 0..(Modulus - 1)
  BY <1>1, Division
<1>4. d % Modulus \in Nat /\ d % Modulus <= d
  <2> DEFINE p == q * Modulus
             r == d % Modulus
  <2>1. p \in Nat /\ r \in Nat /\ d = p + r
    BY <1>1, <1>2, <1>3
  <2> HIDE DEF p, r
  <2>2. r \in Nat /\ r <= d
    BY <1>1, <2>1
  <2> QED BY <2>2 DEF r
<1>5. ASSUME a < Modulus
      PROVE  d % Modulus = d
  <2>1. d \in 0..(Modulus - 1) /\ d = 0 * Modulus + d
    BY <1>1, <1>5 DEF d
  <2> QED BY <1>1, <2>1, Remainder
<1> QED BY <1>4, <1>5 DEF d, Minus

LEMMA UpdateFacts ==
    ASSUME NEW st \in MaybeStats, NEW conn \in Conns, Told(st) <= conn.sent
    PROVE  LET u == UpdateConnWithStats(st, conn) IN
           /\ u.sent \in Nat /\ u.sent <= conn.sent - Told(st) /\ u.stats \in MaybeStats
           /\ conn.sent < Modulus => u.sent = conn.sent - Told(st)
           /\ st.present => u.stats = Stats(conn.sent, conn.est)
<1>1. conn.sent \in Nat /\ conn.est \in Nat
  BY ConnFacts
<1> DEFINE u == UpdateConnWithStats(st, conn)
<1>2. CASE st.present
  <2>1. st.totalSent \in Nat /\ Told(st) = st.totalSent
    BY <1>2, StatsFacts DEF Told
  <2>2. HandleStatsUnderflow(st, conn) = st
    BY <1>1, <2>1 DEF HandleStatsUnderflow
  <2>3. u.sent = Minus(conn.sent, st.totalSent) /\ u.stats = Stats(conn.sent, conn.est)
    BY <1>2, <2>2 DEF UpdateConnWithStats
  <2>4. LET n == Minus(conn.sent, st.totalSent) IN
        /\ n \in Nat /\ n <= conn.sent - st.totalSent
        /\ conn.sent < Modulus => n = conn.sent - st.totalSent
    BY <1>1, <2>1, MinusFacts
  <2>5. Stats(conn.sent, conn.est) \in MaybeStats
    BY <1>1, StatsFacts
  <2> HIDE DEF u
  <2> QED BY <2>1, <2>3, <2>4, <2>5 DEF u
<1>3. CASE ~st.present
  <2>1. u.sent = conn.sent /\ u.stats = st
    BY <1>3 DEF UpdateConnWithStats
  <2>2. Told(st) = 0
    BY <1>3 DEF Told
  <2> QED BY <1>1, <1>3, <2>1, <2>2
<1> QED BY <1>2, <1>3

LEMMA CreatedFacts ==
    ASSUME NEW st \in MaybeStats
    PROVE  /\ Created(st) \in MaybeStats /\ Created(st).present /\ Told(Created(st)) = Told(st)
           /\ Created(st).totalSent = Told(st) /\ Told(st) \in Nat
<1>1. CASE st.present
  BY <1>1, StatsFacts DEF Created, Told
<1>2. CASE ~st.present
  <2>1. Created(st) = Stats(0, 0) /\ Told(st) = 0
    BY <1>2 DEF Created, Told
  <2> QED BY <2>1, StatsFacts
<1> QED BY <1>1, <1>2

\* The closed connection was closed before the active one was opened.
LEMMA MergeApart ==
    ASSUME NEW cl \in Clients, cl.present, NEW active \in MaybeConn,
           cl.closed.present /\ active.present => cl.closed.epoch < active.epoch,
           Told(cl.stats) <= SentOf(cl.closed) + SentOf(active)
    PROVE  LET u == MergeConnections(cl, active)
               n == SentOf(cl.closed) + SentOf(active)
           IN
           /\ u.sent \in Nat /\ u.sent <= n - Told(cl.stats) /\ u.stats \in MaybeStats
           /\ n < Modulus => u.sent = n - Told(cl.stats)
           /\ active.present => u.stats = Stats(active.sent, active.est)
<1> DEFINE u == MergeConnections(cl, active)
           st == cl.stats
           closed == cl.closed
<1>1. st \in MaybeStats /\ closed \in MaybeConn /\ Told(st) \in Nat
  BY ClientFacts, StatsFacts
<1>2. /\ SentOf(closed) \in Nat /\ SentOf(active) \in Nat
      /\ active.present => active \in Conns /\ SentOf(active) = active.sent /\ active.est \in Nat
      /\ closed.present => closed \in Conns /\ SentOf(closed) = closed.sent /\ closed.est \in Nat
      /\ ~active.present => SentOf(active) = 0
      /\ ~closed.present => SentOf(closed) = 0
  BY <1>1, ConnFacts DEF SentOf
<1>3. /\ Created(st) \in MaybeStats /\ Created(st).present /\ Told(Created(st)) = Told(st)
      /\ Created(st).totalSent = Told(st)
  BY <1>1, CreatedFacts
<1> HIDE DEF st, closed
<1>4. u = IF closed.present
          THEN IF active.present /\ closed.epoch < active.epoch
               THEN UpdateConnWithStatWithActiveConn(
                       Created(st), active,
                       Conn(closed.sent + active.sent, closed.est + active.est, closed.epoch))
               ELSE UpdateConnWithStats(st, closed)
          ELSE IF active.present
               THEN UpdateConnWithStats(Created(st), active)
               ELSE [sent |-> 0, est |-> 0, stats |-> st]
  BY DEF MergeConnections, st, closed
<1>5. Told(st) <= SentOf(closed) + SentOf(active) 
      /\ (closed.present /\ active.present => closed.epoch < active.epoch)
  BY DEF st, closed
<1> HIDE DEF u
<1>6. CASE closed.present /\ active.present
  <2> DEFINE both == Conn(closed.sent + active.sent, closed.est + active.est, closed.epoch)
             sum == closed.sent + active.sent
             k == Created(st)
  <2>1. u = UpdateConnWithStatWithActiveConn(k, active, both)
    BY <1>4, <1>5, <1>6
  <2>2. sum \in Nat /\ both.sent = sum /\ Told(st) <= sum
    BY <1>2, <1>5, <1>6 DEF Conn
  <2> HIDE DEF both, k
  <2>3. HandleStatsUnderflow(k, both) = k
    BY <1>1, <1>3, <2>2 DEF HandleStatsUnderflow, k
  <2>4. u.sent = Minus(both.sent, k.totalSent) /\ u.stats = Stats(active.sent, active.est)
    BY <2>1, <2>3 DEF UpdateConnWithStatWithActiveConn
  <2>5. LET n == Minus(sum, Told(st)) IN
        /\ n \in Nat /\ n <= sum - Told(st)
        /\ sum < Modulus => n = sum - Told(st)
    <3> HIDE DEF sum
    <3> QED BY <1>1, <2>2, MinusFacts
  <2>6. u.sent \in Nat /\ u.sent <= sum - Told(st) /\ (sum < Modulus => u.sent = sum - Told(st))
    BY <1>3, <2>2, <2>4, <2>5 DEF k
  <2>7. sum = SentOf(closed) + SentOf(active)
    BY <1>2, <1>6
  <2>8. Stats(active.sent, active.est) \in MaybeStats
    BY <1>2, <1>6, StatsFacts
  <2> HIDE DEF sum
  <2>9. LET n == SentOf(closed) + SentOf(active) IN
        u.sent \in Nat /\ u.sent <= n - Told(st) /\ (n < Modulus => u.sent = n - Told(st))
    BY <2>6, <2>7
  <2>10. u.stats \in MaybeStats /\ u.stats = Stats(active.sent, active.est)
    BY <2>4, <2>8
  <2> QED BY <2>9, <2>10 DEF u, st, closed
<1>7. CASE closed.present /\ ~active.present
  <2>1. u = UpdateConnWithStats(st, closed)
    BY <1>4, <1>7
  <2>2. closed \in Conns /\ Told(st) <= closed.sent /\ SentOf(closed) = closed.sent
    BY <1>2, <1>5, <1>7
  <2>3. /\ u.sent \in Nat /\ u.sent <= closed.sent - Told(st) /\ u.stats \in MaybeStats
        /\ closed.sent < Modulus => u.sent = closed.sent - Told(st)
    BY <1>1, <2>1, <2>2, UpdateFacts
  <2>4. closed.sent = SentOf(closed) + SentOf(active)
    BY <1>2, <1>7, <2>2
  <2> QED BY <1>7, <2>3, <2>4 DEF u, st, closed
<1>8. CASE ~closed.present /\ active.present
  <2>1. u = UpdateConnWithStats(Created(st), active)
    BY <1>4, <1>8
  <2>2. active \in Conns /\ Told(Created(st)) <= active.sent /\ SentOf(active) = active.sent
    BY <1>2, <1>3, <1>5, <1>8
  <2>3. /\ u.sent \in Nat /\ u.sent <= active.sent - Told(Created(st)) /\ u.stats \in MaybeStats
        /\ active.sent < Modulus => u.sent = active.sent - Told(Created(st))
        /\ u.stats = Stats(active.sent, active.est)
    BY <1>3, <2>1, <2>2, UpdateFacts
  <2>4. active.sent = SentOf(closed) + SentOf(active) /\ Told(Created(st)) = Told(st)
    BY <1>2, <1>3, <1>8, <2>2
  <2> QED BY <2>3, <2>4 DEF u, st, closed
<1>9. CASE ~closed.present /\ ~active.present
  <2>1. u = [sent |-> 0, est |-> 0, stats |-> st]
    BY <1>4, <1>9
  <2>2. u.sent = 0 /\ u.stats = st
    BY <2>1
  <2>3. LET n == SentOf(closed) + SentOf(active) IN n - Told(st) = 0 /\ 0 <= n - Told(st) /\ 0 \in Nat
    BY <1>1, <1>2, <1>5, <1>9
  <2> QED BY <1>1, <1>9, <2>2, <2>3 DEF u, st, closed
<1> QED BY <1>6, <1>7, <1>8, <1>9

\* The closed connection is the one that was read.
LEMMA MergeSame ==
    ASSUME NEW cl \in Clients, cl.present, NEW active \in MaybeConn,
           cl.closed.present, ~(cl.closed.epoch < active.epoch),
           Told(cl.stats) <= cl.closed.sent
    PROVE  LET u == MergeConnections(cl, active) IN
           u.sent \in Nat /\ u.sent <= cl.closed.sent - Told(cl.stats) /\ u.stats \in MaybeStats
<1>1. cl.stats \in MaybeStats /\ cl.closed \in Conns
  BY ClientFacts, ConnFacts
<1>2. MergeConnections(cl, active) = UpdateConnWithStats(cl.stats, cl.closed)
  BY DEF MergeConnections
<1> QED BY <1>1, <1>2, UpdateFacts

-----------------------------------------------------------------------------
(* The types, as long as closed connections are stored in order.             *)

Calls == [client : NsClients \cup {""}, step : {"idle", "remove", "flush", "merge"},
          read : MaybeConn, nth : Nat]
NetworkTypes ==
    /\ kernel \in MaybeConn /\ batched \in Seq(Conns) /\ bytes \in Nat /\ bytes <= MaxBytes /\ opened \in Nat
    /\ nsClients \in [NsClients -> Clients]
    /\ caller \in Calls /\ (caller.step # "idle" => caller.client \in NsClients)
    /\ caller.step \in {"idle", "remove"} => ~caller.read.present
    /\ reported \in [NsClients -> Nat] /\ before \in [NsClients -> Int]

InOrder ==
    /\ Later(batched)
    /\ \A c \in NsClients : nsClients[c].present => After(batched, nsClients[c].closed)

\* The clients after FlushIdle has stored the batch.
LEMMA FlushFacts ==
    ASSUME NetworkTypes, InOrder
    PROVE  LET f == FoldLeft(Stored, nsClients, batched) IN
           /\ f \in [NsClients -> Clients]
           /\ \A c \in NsClients :
                /\ f[c].present <=> nsClients[c].present
                /\ nsClients[c].present =>
                     /\ f[c].stats = nsClients[c].stats /\ f[c].closed \in MaybeConn
                     /\ SentOf(f[c].closed) = SentOf(nsClients[c].closed) + SentBy(batched)
                     /\ batched = <<>> => f[c].closed = nsClients[c].closed
                     /\ batched # <<>> => /\ Len(batched) \in DOMAIN batched /\ f[c].closed.present
                                          /\ f[c].closed.epoch = batched[Len(batched)].epoch
<1> DEFINE b == batched
           D == DOMAIN b
           f == FoldLeft(Stored, nsClients, b)
<1>1. b \in Seq(Conns) /\ nsClients \in [NsClients -> Clients]
  BY DEF NetworkTypes
<1>2. f = Folded(nsClients, b, D)
  BY <1>1, StoredFolds DEF InOrder
<1>3. D = 1..Len(b) /\ Len(b) \in Nat /\ D \in SUBSET D
  BY <1>1
<1> HIDE DEF b, f, D
<1>4. SentIn(b, D) \in Nat /\ EstIn(b, D) \in Nat /\ (D = {} => SentIn(b, D) = 0)
  BY <1>1, <1>3, BatchSums DEF D
<1>5. D # {} => Max(D) \in D /\ b[Max(D)] \in Conns /\ \A x \in D : x <= Max(D)
  BY <1>1, <1>3, BatchMax DEF D
<1>6. D # {} => Max(D) = Len(b) /\ Len(b) \in D /\ b[Max(D)].epoch \in Nat
  <2> DEFINE m == Max(D)
  <2>1. D # {} => m \in D /\ b[m] \in Conns /\ \A x \in D : x <= m
    BY <1>5
  <2> HIDE DEF m
  <2>2. D # {} => m = Len(b) /\ Len(b) \in D
    BY <1>3, <2>1
  <2>3. D # {} => b[m].epoch \in Nat
    BY <2>1, ConnFacts
  <2> QED BY <2>2, <2>3 DEF m
<1>7. (b = <<>>) <=> (D = {})
  <2>1. (b = <<>>) <=> (Len(b) = 0)
    BY <1>1, EmptySeq
  <2> QED BY <1>3, <2>1
<1>8. ASSUME NEW c \in NsClients, nsClients[c].present
      PROVE  LET x == ClosedBy(nsClients[c].closed, b, D) IN
             /\ f[c] = ClientState(nsClients[c].stats, x) /\ nsClients[c].stats \in MaybeStats
             /\ x \in MaybeConn /\ SentOf(x) = SentOf(nsClients[c].closed) + SentBy(b)
             /\ D = {} => x = nsClients[c].closed
             /\ D # {} => x.present /\ x.epoch = b[Len(b)].epoch
  <2> DEFINE old == nsClients[c].closed
             x == ClosedBy(old, b, D)
  <2>1. old \in MaybeConn /\ nsClients[c].stats \in MaybeStats
    BY <1>1, <1>8, ClientFacts
  <2>2. f[c] = ClientState(nsClients[c].stats, x)
    BY <1>2, <1>8 DEF Folded
  <2> HIDE DEF old
  <2>3. SentOf(old) \in Nat /\ EstOf(old) \in Nat
    BY <2>1, ConnFacts
  <2>4. CASE D = {}
    <3>1. x = old /\ SentBy(b) = 0
      BY <1>4, <2>4 DEF ClosedBy, SentBy, D
    <3> HIDE DEF x
    <3>2. SentOf(x) = SentOf(old) + SentBy(b)
      BY <2>3, <3>1
    <3> QED BY <2>1, <2>2, <2>4, <3>1, <3>2 DEF x, old
  <2>5. CASE D # {}
    <3>1. x = Conn(SentOf(old) + SentIn(b, D), EstOf(old) + EstIn(b, D), b[Max(D)].epoch)
      BY <2>5 DEF ClosedBy
    <3> HIDE DEF x
    <3>2. x \in Conns
      BY <1>4, <1>6, <2>3, <2>5, <3>1 DEF Conns, Conn
    <3>3. x.present /\ x.sent = SentOf(old) + SentIn(b, D) /\ x.epoch = b[Max(D)].epoch
      BY <3>1 DEF Conn
    <3>4. SentOf(x) = SentOf(old) + SentBy(b)
      BY <3>3 DEF SentOf, SentBy, D
    <3>5. x.epoch = b[Len(b)].epoch /\ x \in MaybeConn
      BY <1>6, <2>5, <3>2, <3>3 DEF MaybeConn
    <3> QED BY <2>1, <2>2, <2>5, <3>3, <3>4, <3>5 DEF x, old
  <2> QED BY <2>4, <2>5
<1>9. \A c \in NsClients : ~nsClients[c].present => f[c] = None
  BY <1>2 DEF Folded
<1>10. \A c \in NsClients : f[c] \in Clients /\ (f[c].present <=> nsClients[c].present)
  <2> SUFFICES ASSUME NEW c \in NsClients
               PROVE  f[c] \in Clients /\ (f[c].present <=> nsClients[c].present)
    OBVIOUS
  <2>1. CASE nsClients[c].present
    <3> DEFINE x == ClosedBy(nsClients[c].closed, b, D)
    <3>1. f[c] = ClientState(nsClients[c].stats, x) /\ nsClients[c].stats \in MaybeStats /\ x \in MaybeConn
      BY <1>8, <2>1
    <3> HIDE DEF x
    <3> QED BY <2>1, <3>1, ClientFacts
  <2>2. CASE ~nsClients[c].present
    BY <1>9, <2>2, ClientFacts, ConnFacts
  <2> QED BY <2>1, <2>2
<1>11. f \in [NsClients -> Clients]
  BY <1>2, <1>10 DEF Folded
<1>12. ASSUME NEW c \in NsClients, nsClients[c].present
       PROVE  /\ f[c].stats = nsClients[c].stats /\ f[c].closed \in MaybeConn
              /\ SentOf(f[c].closed) = SentOf(nsClients[c].closed) + SentBy(b)
              /\ b = <<>> => f[c].closed = nsClients[c].closed
              /\ b # <<>> => Len(b) \in D /\ f[c].closed.present /\ f[c].closed.epoch = b[Len(b)].epoch
  <2> DEFINE x == ClosedBy(nsClients[c].closed, b, D)
  <2>1. f[c] = ClientState(nsClients[c].stats, x)
    BY <1>8, <1>12
  <2>2. f[c].stats = nsClients[c].stats /\ f[c].closed = x
    BY <2>1, ClientFacts
  <2>3. /\ x \in MaybeConn /\ SentOf(x) = SentOf(nsClients[c].closed) + SentBy(b)
        /\ D = {} => x = nsClients[c].closed
        /\ D # {} => x.present /\ x.epoch = b[Len(b)].epoch
    BY <1>8, <1>12
  <2> HIDE DEF x
  <2> QED BY <1>6, <1>7, <2>2, <2>3
<1> QED BY <1>10, <1>11, <1>12 DEF f, b, D

\* The clients after a closed connection is stored.
LEMMA StoreFacts ==
    ASSUME NEW cl \in [NsClients -> Clients], NEW conn \in Conns
    PROVE  LET f == Stored(cl, conn) IN
           /\ f \in [NsClients -> Clients]
           /\ \A c \in NsClients :
                /\ f[c].present <=> cl[c].present
                /\ cl[c].present =>
                     /\ f[c].stats = cl[c].stats /\ f[c].closed \in Conns
                     /\ (cl[c].closed.present => cl[c].closed.epoch < conn.epoch) =>
                          SentOf(f[c].closed) = SentOf(cl[c].closed) + conn.sent /\ f[c].closed.epoch = conn.epoch
                     /\ ~cl[c].closed.present => f[c].closed = conn
<1> DEFINE f == Stored(cl, conn)
<1>1. conn.present /\ conn.sent \in Nat /\ conn.est \in Nat /\ conn.epoch \in Nat /\ SentOf(conn) = conn.sent
  BY ConnFacts
<1>2. ASSUME NEW old \in MaybeConn
      PROVE  LET x == MergeClosed(old, conn) IN
             /\ x \in Conns
             /\ (old.present => old.epoch < conn.epoch) =>
                  SentOf(x) = SentOf(old) + conn.sent /\ x.epoch = conn.epoch
             /\ ~old.present => x = conn
  <2>1. CASE ~old.present
    <3>1. MergeClosed(old, conn) = conn /\ SentOf(old) = 0
      BY <2>1 DEF MergeClosed, SentOf
    <3> QED BY <1>1, <2>1, <3>1
  <2>2. CASE old.present
    <3>1. old \in Conns /\ old.sent \in Nat /\ old.est \in Nat /\ old.epoch \in Nat /\ SentOf(old) = old.sent
      BY <2>2, ConnFacts
    <3>2. CASE old.epoch >= conn.epoch
      <4>1. MergeClosed(old, conn) = old
        BY <2>2, <3>2 DEF MergeClosed
      <4> QED BY <1>1, <2>2, <3>1, <3>2, <4>1
    <3>3. CASE ~(old.epoch >= conn.epoch)
      <4> DEFINE x == MergeClosed(old, conn)
      <4>1. x = Conn(old.sent + conn.sent, old.est + conn.est, conn.epoch)
        BY <2>2, <3>3 DEF MergeClosed
      <4> HIDE DEF x
      <4>2. x \in Conns
        BY <1>1, <3>1, <4>1 DEF Conns, Conn
      <4>3. x.sent = old.sent + conn.sent /\ x.epoch = conn.epoch
        BY <4>1 DEF Conn
      <4>4. SentOf(x) = SentOf(old) + conn.sent
        BY <3>1, <4>2, <4>3, ConnFacts
      <4> QED BY <2>2, <4>2, <4>3, <4>4 DEF x
    <3> QED BY <3>2, <3>3
  <2> QED BY <2>1, <2>2
<1>3. ASSUME NEW c \in NsClients, cl[c].present
      PROVE  LET x == MergeClosed(cl[c].closed, conn) IN
             /\ f[c] = ClientState(cl[c].stats, x) /\ f[c].present /\ f[c].stats = cl[c].stats /\ f[c].closed = x
             /\ cl[c].stats \in MaybeStats /\ cl[c].closed \in MaybeConn
  <2>1. f[c] = ClientState(cl[c].stats, MergeClosed(cl[c].closed, conn))
    BY <1>3 DEF Stored
  <2>2. cl[c].stats \in MaybeStats /\ cl[c].closed \in MaybeConn
    BY <1>3, ClientFacts
  <2> HIDE DEF f
  <2> QED BY <2>1, <2>2, ClientFacts
<1>4. \A c \in NsClients : ~cl[c].present => f[c] = None
  BY DEF Stored
<1> HIDE DEF f
<1>5. ASSUME NEW c \in NsClients
      PROVE  f[c] \in Clients /\ (f[c].present <=> cl[c].present)
  <2>1. CASE cl[c].present
    <3> DEFINE x == MergeClosed(cl[c].closed, conn)
    <3>1. x \in Conns /\ f[c] = ClientState(cl[c].stats, x) /\ cl[c].stats \in MaybeStats /\ f[c].present
      BY <1>2, <1>3, <2>1
    <3> HIDE DEF x
    <3> QED BY <2>1, <3>1, ClientFacts DEF MaybeConn
  <2>2. CASE ~cl[c].present
    BY <1>4, <2>2, ClientFacts, ConnFacts
  <2> QED BY <2>1, <2>2
<1>6. f \in [NsClients -> Clients]
  BY <1>5 DEF f, Stored
<1>7. ASSUME NEW c \in NsClients, cl[c].present
      PROVE  /\ f[c].stats = cl[c].stats /\ f[c].closed \in Conns
             /\ (cl[c].closed.present => cl[c].closed.epoch < conn.epoch) =>
                  SentOf(f[c].closed) = SentOf(cl[c].closed) + conn.sent /\ f[c].closed.epoch = conn.epoch
             /\ ~cl[c].closed.present => f[c].closed = conn
  <2>1. f[c].stats = cl[c].stats /\ f[c].closed = MergeClosed(cl[c].closed, conn) /\ cl[c].closed \in MaybeConn
    BY <1>3, <1>7
  <2> QED BY <1>2, <2>1
<1> QED BY <1>5, <1>6, <1>7 DEF f

LEMMA WithoutFacts ==
    ASSUME NEW cl \in [NsClients -> Clients]
    PROVE  LET f == WithoutStats(cl) IN
           /\ f \in [NsClients -> Clients]
           /\ \A c \in NsClients :
                /\ f[c].present <=> cl[c].present
                /\ cl[c].present => f[c].stats = None /\ f[c].closed = cl[c].closed
<1> DEFINE f == WithoutStats(cl)
<1>1. ASSUME NEW c \in NsClients
      PROVE  /\ f[c] \in Clients /\ (f[c].present <=> cl[c].present)
             /\ cl[c].present => f[c].stats = None /\ f[c].closed = cl[c].closed
  <2>1. CASE cl[c].present
    <3>1. f[c] = ClientState(None, cl[c].closed) /\ cl[c].closed \in MaybeConn /\ None \in MaybeStats
      BY <2>1, ClientFacts, StatsFacts DEF WithoutStats
    <3> HIDE DEF f
    <3> QED BY <2>1, <3>1, ClientFacts
  <2>2. CASE ~cl[c].present
    <3>1. f[c] = None
      BY <2>2 DEF WithoutStats
    <3> HIDE DEF f
    <3> QED BY <2>2, <3>1, ClientFacts, ConnFacts
  <2> QED BY <2>1, <2>2
<1>2. f \in [NsClients -> Clients]
  BY <1>1 DEF WithoutStats
<1> HIDE DEF f
<1> QED BY <1>1, <1>2 DEF f

LEMMA NetworkTypesStep ==
    ASSUME NetworkTypes, InOrder, NetworkNext, ~Connections
    PROVE  NetworkTypes'
<1> USE DEF NetworkTypes
<1>1. CASE Traffic
  <2>1. bytes + 1 \in Nat /\ bytes + 1 <= MaxBytes /\ opened + 1 \in Nat
    BY <1>1, NetworkAssumption DEF Traffic
  <2>2. kernel' \in Conns /\ opened' \in Nat
    <3>1. CASE kernel.present
      <4>1. kernel \in Conns
        BY <3>1, ConnFacts
      <4>2. kernel' = [kernel EXCEPT !.sent = @ + 1, !.epoch = bytes + 1] /\ opened' = opened
        BY <1>1, <3>1 DEF Traffic
      <4>3. kernel.sent + 1 \in Nat
        BY <4>1, ConnFacts
      <4>4. kernel' \in Conns
        BY ONLY <2>1, <4>1, <4>2, <4>3 DEF Conns
      <4> QED BY <4>2, <4>4
    <3>2. CASE ~kernel.present
      <4>1. kernel' = Conn(1, 1, bytes + 1) /\ opened' = opened + 1
        BY <1>1, <3>2 DEF Traffic
      <4>2. Conn(1, 1, bytes + 1) \in Conns
        BY <2>1, ConnFacts
      <4> QED BY <2>1, <4>1, <4>2
    <3> QED BY <3>1, <3>2
  <2> QED BY <1>1, <2>1, <2>2 DEF Traffic, MaybeConn, truthVars
<1>2. CASE TCPClose
  <2>1. kernel \in Conns
    BY <1>2, ConnFacts DEF TCPClose
  <2>2. batched' \in Seq(Conns)
    BY <1>2, <2>1, BatchAppend DEF TCPClose
  <2> QED BY <1>2, <2>2 DEF TCPClose, MaybeConn, truthVars
<1>3. CASE StoreClosedConnection
  <2>1. PICK i \in DOMAIN batched : nsClients' = Stored(nsClients, batched[i]) /\ batched' = RemoveAt(batched, i)
    BY <1>3 DEF StoreClosedConnection
  <2>2. batched[i] \in Conns /\ batched' \in Seq(Conns)
    BY <2>1, RemoveAtFacts
  <2>3. nsClients' \in [NsClients -> Clients]
    BY <2>1, <2>2, StoreFacts
  <2> QED BY <1>3, <2>2, <2>3 DEF StoreClosedConnection
<1>4. CASE PerfLost
  <2>1. batched' \in Seq(Conns)
    BY <1>4, EmptySeq DEF PerfLost
  <2> QED BY <1>4, <2>1 DEF PerfLost
<1>5. CASE RemoveEntries
  <2>1. nsClients' \in [NsClients -> Clients]
    BY <1>5, WithoutFacts DEF RemoveEntries
  <2>2. caller' \in Calls /\ caller'.step = "flush" /\ caller'.client \in NsClients
    BY <1>5 DEF RemoveEntries, Calls
  <2> QED BY <1>5, <2>1, <2>2 DEF RemoveEntries, MaybeConn
<1>6. CASE FlushIdle
  <2>1. nsClients' \in [NsClients -> Clients]
    BY <1>6, FlushFacts DEF FlushIdle
  <2>2. caller' \in Calls /\ caller'.step = "merge" /\ caller'.client \in NsClients
    BY <1>6 DEF FlushIdle, Calls
  <2>3. batched' \in Seq(Conns)
    BY <1>6, EmptySeq DEF FlushIdle
  <2> QED BY <1>6, <2>1, <2>2, <2>3 DEF FlushIdle, truthVars
<1>7. ASSUME NEW c \in NsClients, ReadMap(c)
      PROVE  NetworkTypes'
  <2>1. PICK expired \in {FALSE, kernel.present} :
          caller' = [client |-> c, step |-> IF expired THEN "remove" ELSE "flush",
                     read |-> IF expired THEN None ELSE kernel, nth |-> opened]
    BY <1>7 DEF ReadMap
  <2>2. caller' \in Calls
    BY <2>1 DEF Calls, MaybeConn
  <2>3. /\ caller'.client \in NsClients
        /\ caller'.step \in {"idle", "remove"} => caller'.read = None
    BY <2>1
  <2> QED BY <1>7, <2>2, <2>3, ConnFacts DEF ReadMap, kernelVars, truthVars
<1>8. ASSUME NEW c \in NsClients, RemoveClient(c)
      PROVE  NetworkTypes'
  <2>1. nsClients' \in [NsClients -> Clients]
    BY <1>8, ClientFacts DEF RemoveClient
  <2> QED BY <1>8, <2>1 DEF RemoveClient, kernelVars, truthVars
<1> QED BY <1>1, <1>2, <1>3, <1>4, <1>5, <1>6, <1>7, <1>8 DEF NetworkNext

-----------------------------------------------------------------------------
(* BytesConserved.  Closed connections are stored in the order in which they  *)
(* were closed, and all of them before the connection that is active; what a  *)
(* client was told of is never more than what is left to tell it of.          *)

\* All closed connections were closed before e.
PastOf(b, cl, e) ==
    /\ \A k \in DOMAIN b : b[k].epoch < e
    /\ \A c \in NsClients : cl[c].present /\ cl[c].closed.present => cl[c].closed.epoch < e
Past(e) == PastOf(batched, nsClients, e)

\* The connection that was read is still the active one.
SameConn  == caller.read.present /\ kernel.present /\ opened = caller.nth
Answering == caller.step \in {"flush", "merge"}

NetworkOrder ==
    /\ InOrder
    /\ Past(bytes + 1)
    /\ caller.nth <= opened
    /\ kernel.present => Past(kernel.epoch) /\ kernel.epoch <= bytes
    /\ SameConn => Past(caller.read.epoch) /\ caller.read.sent <= kernel.sent

ClosedSum(c) == SentOf(nsClients[c].closed) + SentBy(batched)
ToldTo(c)    == Told(nsClients[c].stats)
SumsOf(c) ==
    /\ ClosedSum(c) + SentOf(kernel) <= bytes
    /\ ToldTo(c) <= ClosedSum(c) + SentOf(kernel)
    /\ reported[c] + before[c] + ClosedSum(c) + SentOf(kernel) = bytes + ToldTo(c)
    /\ Answering /\ ~caller.read.present => ToldTo(c) <= ClosedSum(c)
    /\ SameConn => ToldTo(c) <= ClosedSum(c) + caller.read.sent
NetworkSums ==
    /\ SentBy(batched) + SentOf(kernel) <= bytes
    /\ \A c \in NsClients : nsClients[c].present => SumsOf(c)

Conserved == NetworkTypes /\ NetworkOrder /\ NetworkSums

Counted ==
    /\ SentBy(batched) \in Nat /\ SentOf(kernel) \in Nat /\ bytes \in Nat /\ opened \in Nat /\ caller.nth \in Nat
    /\ \A k \in DOMAIN batched : batched[k].epoch \in Nat
    /\ caller.read \in MaybeConn /\ SentOf(caller.read) \in Nat
    /\ caller.read.present => /\ caller.read.sent \in Nat /\ caller.read.epoch \in Nat
                              /\ SentOf(caller.read) = caller.read.sent
    /\ kernel.present => kernel.sent \in Nat /\ kernel.epoch \in Nat /\ SentOf(kernel) = kernel.sent
    /\ ~kernel.present => SentOf(kernel) = 0
    /\ \A c \in NsClients : nsClients[c].present =>
         /\ ToldTo(c) \in Nat /\ SentOf(nsClients[c].closed) \in Nat /\ ClosedSum(c) \in Nat
         /\ nsClients[c].closed \in MaybeConn /\ nsClients[c].stats \in MaybeStats
         /\ nsClients[c].closed.present =>
              nsClients[c].closed.epoch \in Nat /\ nsClients[c].closed.sent \in Nat
         /\ reported[c] \in Nat /\ before[c] \in Int

LEMMA NetworkNumbers ==
    NetworkTypes => Counted
<1> SUFFICES ASSUME NetworkTypes PROVE Counted
  OBVIOUS
<1>1. /\ kernel \in MaybeConn /\ batched \in Seq(Conns) /\ bytes \in Nat /\ opened \in Nat
      /\ nsClients \in [NsClients -> Clients]
      /\ caller.read \in MaybeConn /\ caller.nth \in Nat
      /\ reported \in [NsClients -> Nat] /\ before \in [NsClients -> Int]
  BY DEF NetworkTypes, Calls
<1>2. SentBy(batched) \in Nat
  BY <1>1, BatchSums DEF SentBy
<1>3. \A k \in DOMAIN batched : batched[k].epoch \in Nat
  <2>1. \A k \in DOMAIN batched : batched[k] \in Conns
    BY <1>1
  <2> QED BY <2>1, ConnFacts
<1>4. ASSUME NEW x \in MaybeConn
      PROVE  /\ SentOf(x) \in Nat /\ (~x.present => SentOf(x) = 0)
             /\ x.present => x.sent \in Nat /\ x.epoch \in Nat /\ SentOf(x) = x.sent
  BY ConnFacts DEF SentOf
<1>5. ASSUME NEW c \in NsClients, nsClients[c].present
      PROVE  /\ ToldTo(c) \in Nat /\ SentOf(nsClients[c].closed) \in Nat /\ ClosedSum(c) \in Nat
             /\ nsClients[c].closed \in MaybeConn /\ nsClients[c].stats \in MaybeStats
             /\ nsClients[c].closed.present =>
                  nsClients[c].closed.epoch \in Nat /\ nsClients[c].closed.sent \in Nat
             /\ reported[c] \in Nat /\ before[c] \in Int
  <2>1. nsClients[c].stats \in MaybeStats /\ nsClients[c].closed \in MaybeConn
    BY <1>1, <1>5, ClientFacts
  <2>2. ToldTo(c) \in Nat
    BY <2>1, StatsFacts DEF ToldTo
  <2>3. /\ SentOf(nsClients[c].closed) \in Nat
        /\ nsClients[c].closed.present =>
             nsClients[c].closed.epoch \in Nat /\ nsClients[c].closed.sent \in Nat
    BY <1>4, <2>1
  <2>4. ClosedSum(c) \in Nat
    BY <1>2, <2>3 DEF ClosedSum
  <2> QED BY <1>1, <2>1, <2>2, <2>3, <2>4
<1> QED BY <1>1, <1>2, <1>3, <1>4, <1>5 DEF Counted

LEMMA NetworkNumbersNext ==
    NetworkTypes' => Counted'
BY NetworkNumbers, PTL

\* Steps that move bytes from one account of a client to the other.
LEMMA SumsKept ==
    ASSUME NetworkTypes, NetworkTypes', NetworkSums, UNCHANGED <<bytes, reported, before>>,
           SentBy(batched') + SentOf(kernel') <= SentBy(batched) + SentOf(kernel),
           \A c \in NsClients : nsClients'[c].present =>
              /\ nsClients[c].present /\ nsClients'[c].stats = nsClients[c].stats
              /\ SentOf(nsClients'[c].closed) + SentBy(batched') + SentOf(kernel') =
                    SentOf(nsClients[c].closed) + SentBy(batched) + SentOf(kernel),
           SentOf(kernel') <= SentOf(kernel),
           Answering' /\ ~caller'.read.present => Answering /\ ~caller.read.present,
           SameConn' => SameConn /\ caller'.read = caller.read
    PROVE  NetworkSums'
<1>1. Counted /\ Counted'
  BY NetworkNumbers, NetworkNumbersNext
<1>2. (SentBy(batched) + SentOf(kernel) <= bytes)'
  <2>1. SentBy(batched) \in Nat /\ SentOf(kernel) \in Nat /\ bytes \in Nat /\ SentBy(batched) + SentOf(kernel) <= bytes
    BY <1>1 DEF Counted, NetworkSums
  <2>2. SentBy(batched') \in Nat /\ SentOf(kernel') \in Nat
    BY <1>1 DEF Counted
  <2> QED BY <2>1, <2>2
<1>3. ASSUME NEW c \in NsClients, nsClients'[c].present
      PROVE  SumsOf(c)'
  <2> DEFINE a == SentOf(nsClients[c].closed)
             b == SentBy(batched)
             k == SentOf(kernel)
             t == Told(nsClients[c].stats)
             a1 == SentOf(nsClients'[c].closed)
             b1 == SentBy(batched')
             k1 == SentOf(kernel')
             r == caller.read.sent
             x == reported[c]
             y == before[c]
  <2>1. nsClients[c].present /\ nsClients'[c].stats = nsClients[c].stats /\ a1 + b1 + k1 = a + b + k /\ k1 <= k
    BY <1>3
  <2>2. a \in Nat /\ b \in Nat /\ k \in Nat /\ t \in Nat /\ bytes \in Nat /\ x \in Nat /\ y \in Int
    BY <1>1, <2>1 DEF Counted, ToldTo
  <2>3. a1 \in Nat /\ b1 \in Nat /\ k1 \in Nat
    BY <1>1, <1>3 DEF Counted
  <2>4. /\ a + b + k <= bytes /\ t <= a + b + k /\ x + y + (a + b) + k = bytes + t
        /\ (Answering /\ ~caller.read.present => t <= a + b)
        /\ (SameConn => t <= a + b + r)
    BY <2>1 DEF NetworkSums, SumsOf, ClosedSum, ToldTo
  <2>5. SameConn => r \in Nat
    BY <1>1 DEF SameConn, Counted
  <2>6. nsClients'[c].stats = nsClients[c].stats /\ bytes' = bytes /\ reported'[c] = x /\ before'[c] = y
    BY <2>1
  <2>7. SameConn' => SameConn /\ caller'.read = caller.read
    OBVIOUS
  <2> HIDE DEF a, b, k, t, a1, b1, k1, r, x, y
  <2>8. /\ a1 + b1 + k1 <= bytes /\ t <= a1 + b1 + k1 /\ x + y + (a1 + b1) + k1 = bytes + t
        /\ (Answering' /\ ~caller'.read.present => t <= a1 + b1)
    BY <2>1, <2>2, <2>3, <2>4
  <2>9. SameConn' => t <= a1 + b1 + r
    BY <2>1, <2>2, <2>3, <2>4, <2>5, <2>7
  <2> QED BY <2>6, <2>7, <2>8, <2>9 DEF SumsOf, ClosedSum, ToldTo, a, b, k, t, a1, b1, k1, r, x, y
<1> QED BY <1>2, <1>3 DEF NetworkSums

\* Steps that close no connection.
LEMMA OrderKept ==
    ASSUME NetworkTypes, NetworkOrder, InOrder', UNCHANGED <<kernel, bytes, opened>>,
           \A e \in Nat : PastOf(batched, nsClients, e) => PastOf(batched', nsClients', e),
           caller'.nth <= opened,
           SameConn' => SameConn /\ caller'.read = caller.read
    PROVE  NetworkOrder'
<1>1. Counted
  BY NetworkNumbers
<1>2. /\ bytes + 1 \in Nat /\ (kernel.present => kernel.epoch \in Nat)
      /\ (SameConn => caller.read.epoch \in Nat)
  BY <1>1 DEF Counted, SameConn
<1>3. /\ PastOf(batched', nsClients', bytes + 1)
      /\ (kernel.present => PastOf(batched', nsClients', kernel.epoch) /\ kernel.epoch <= bytes)
      /\ (SameConn => PastOf(batched', nsClients', caller.read.epoch) /\ caller.read.sent <= kernel.sent)
  BY <1>2 DEF NetworkOrder, Past
<1> QED BY <1>3 DEF NetworkOrder, Past

LEMMA TrafficConserves ==
    ASSUME Conserved, Traffic, NetworkTypes'
    PROVE  NetworkOrder' /\ NetworkSums'
<1>1. Counted /\ bytes + 1 \in Nat /\ opened \in Nat
  BY NetworkNumbers DEF Conserved, Counted
<1>2. UNCHANGED <<batched, nsClients, caller, reported, before>> /\ bytes' = bytes + 1
  BY DEF Traffic, truthVars
<1>3. /\ kernel'.present /\ kernel'.epoch = bytes + 1
      /\ SentOf(kernel') = SentOf(kernel) + 1 /\ kernel'.sent = SentOf(kernel) + 1
      /\ kernel.present => opened' = opened
      /\ ~kernel.present => opened' = opened + 1
  <2>1. CASE kernel.present
    <3>1. kernel \in Conns /\ kernel.sent \in Nat /\ SentOf(kernel) = kernel.sent
      BY <2>1, ConnFacts DEF Conserved, NetworkTypes
    <3>2. kernel' = [kernel EXCEPT !.sent = @ + 1, !.epoch = bytes + 1] /\ opened' = opened
      BY <2>1 DEF Traffic
    <3>3. kernel'.present /\ kernel'.sent = kernel.sent + 1 /\ kernel'.epoch = bytes + 1
      BY ONLY <3>1, <3>2 DEF Conns
    <3> QED BY <2>1, <3>1, <3>2, <3>3 DEF SentOf
  <2>2. CASE ~kernel.present
    <3>1. kernel' = Conn(1, 1, bytes + 1) /\ opened' = opened + 1
      BY <2>2 DEF Traffic
    <3>2. kernel'.present /\ kernel'.sent = 1 /\ kernel'.epoch = bytes + 1
      BY <3>1 DEF Conn
    <3>3. SentOf(kernel) = 0
      BY <2>2 DEF SentOf
    <3> QED BY <2>2, <3>1, <3>2, <3>3 DEF SentOf
  <2> QED BY <2>1, <2>2
<1>4. SameConn' => SameConn
  <2>1. caller.nth <= opened /\ caller.nth \in Nat
    BY <1>1 DEF Conserved, NetworkOrder, Counted
  <2>2. opened + 1 # caller.nth
    BY <1>1, <2>1
  <2> QED BY <1>2, <1>3, <2>2 DEF SameConn
<1>5. NetworkOrder'
  <2>1. InOrder'
    BY <1>2 DEF Conserved, NetworkOrder, InOrder
  <2>2. Past(bytes + 1)
    BY DEF Conserved, NetworkOrder
  <2>3. PastOf(batched, nsClients, (bytes + 1) + 1)
    <3> DEFINE e == bytes + 1
    <3>1. PastOf(batched, nsClients, e) /\ e \in Nat
      BY <1>1, <2>2 DEF Past
    <3> HIDE DEF e
    <3>2. /\ \A k \in DOMAIN batched : batched[k].epoch \in Nat
          /\ \A c \in NsClients : nsClients[c].present /\ nsClients[c].closed.present => nsClients[c].closed.epoch \in Nat
      BY <1>1 DEF Counted
    <3>3. PastOf(batched, nsClients, e + 1)
      BY <3>1, <3>2 DEF PastOf
    <3> QED BY <3>3 DEF e
  <2>4. kernel'.epoch <= bytes'
    BY <1>1, <1>2, <1>3
  <2>5. caller.nth <= opened'
    BY <1>1, <1>3 DEF Conserved, NetworkOrder, Counted
  <2>6. SameConn' => Past(caller.read.epoch) /\ caller.read.sent <= SentOf(kernel) + 1
    <3>1. SameConn => Past(caller.read.epoch) /\ caller.read.sent <= kernel.sent
      BY DEF Conserved, NetworkOrder
    <3>2. SameConn => caller.read.sent \in Nat /\ kernel.sent \in Nat /\ SentOf(kernel) = kernel.sent
      BY <1>1 DEF SameConn, Counted
    <3> QED BY <1>4, <3>1, <3>2
  <2> QED BY <1>2, <1>3, <2>1, <2>2, <2>3, <2>4, <2>5, <2>6 DEF NetworkOrder, Past
<1>6. NetworkSums'
  <2>1. SentBy(batched) \in Nat /\ SentOf(kernel) \in Nat /\ bytes \in Nat
    BY <1>1 DEF Counted
  <2>2. SentBy(batched) + (SentOf(kernel) + 1) <= bytes + 1
    BY <2>1 DEF Conserved, NetworkSums
  <2>3. ASSUME NEW c \in NsClients, nsClients[c].present
        PROVE  SumsOf(c)'
    <3> DEFINE a == SentOf(nsClients[c].closed) + SentBy(batched)
               k == SentOf(kernel)
               t == Told(nsClients[c].stats)
    <3>1. a \in Nat /\ k \in Nat /\ t \in Nat /\ reported[c] \in Nat /\ before[c] \in Int
      BY <1>1, <2>3 DEF Counted, ToldTo, ClosedSum
    <3>2. /\ a + k <= bytes /\ t <= a + k /\ reported[c] + before[c] + a + k = bytes + t
          /\ (Answering /\ ~caller.read.present => t <= a)
          /\ (SameConn => t <= a + caller.read.sent)
      BY <2>3 DEF Conserved, NetworkSums, SumsOf, ClosedSum, ToldTo
    <3> HIDE DEF a, k, t
    <3>3. a + (k + 1) <= bytes + 1 /\ t <= a + (k + 1) /\ reported[c] + before[c] + a + (k + 1) = bytes + 1 + t
      BY <2>1, <3>1, <3>2
    <3>4. /\ SentOf(nsClients'[c].closed) + SentBy(batched') = a /\ Told(nsClients'[c].stats) = t
          /\ SentOf(kernel') = k + 1 /\ reported'[c] = reported[c] /\ before'[c] = before[c]
      BY <1>2, <1>3 DEF a, k, t
    <3>5. (Answering' <=> Answering) /\ caller' = caller
      BY <1>2 DEF Answering
    <3> QED BY <1>2, <1>4, <3>2, <3>3, <3>4, <3>5 DEF SumsOf, ClosedSum, ToldTo
  <2> QED BY <1>2, <1>3, <2>2, <2>3 DEF NetworkSums
<1> QED BY <1>5, <1>6

LEMMA CloseConserves ==
    ASSUME Conserved, TCPClose, NetworkTypes'
    PROVE  NetworkOrder' /\ NetworkSums'
<1> DEFINE b == batched
           n == Len(b) + 1
           a == Append(b, kernel)
<1>1. Counted /\ NetworkTypes
  BY NetworkNumbers DEF Conserved
<1>2. /\ UNCHANGED <<bytes, opened, nsClients, caller, reported, before>>
      /\ kernel.present /\ kernel' = None /\ batched' = a
  BY DEF TCPClose, truthVars
<1>3. kernel \in Conns /\ kernel.sent \in Nat /\ SentOf(kernel) = kernel.sent /\ kernel.epoch \in Nat /\ bytes \in Nat
  BY <1>1, <1>2, ConnFacts DEF NetworkTypes
<1>4. /\ SentBy(a) = SentBy(b) + kernel.sent /\ SentBy(b) \in Nat /\ Len(b) \in Nat
      /\ DOMAIN a = DOMAIN b \cup {n} /\ DOMAIN b = 1..Len(b)
      /\ a[n] = kernel /\ \A k \in DOMAIN b : a[k] = b[k]
  BY <1>1, <1>3, BatchAppend DEF NetworkTypes
<1>5. ~kernel'.present /\ SentOf(kernel') = 0
  BY <1>2, ConnFacts DEF SentOf
<1>6. n \in Nat /\ \A k \in DOMAIN b : k \in Nat /\ k < n
  BY <1>4
<1> HIDE DEF a, n
<1>7. /\ InOrder /\ Past(kernel.epoch) /\ kernel.epoch <= bytes /\ Past(bytes + 1) /\ caller.nth <= opened
  BY <1>2 DEF Conserved, NetworkOrder
<1>8. Later(a)
  <2> SUFFICES ASSUME NEW j \in DOMAIN a, NEW k \in DOMAIN a, j < k
               PROVE  a[j].epoch < a[k].epoch
    BY DEF Later
  <2>1. CASE j \in DOMAIN b /\ k \in DOMAIN b
    BY <1>4, <1>7, <2>1 DEF InOrder, Later
  <2>2. CASE j \in DOMAIN b /\ k = n
    BY <1>4, <1>7, <2>2 DEF Past, PastOf
  <2>3. CASE j = n
    <3>1. ~(n < k)
      BY <1>4, <1>6
    <3> QED BY <2>3, <3>1
  <2> QED BY <1>4, <2>1, <2>2, <2>3
<1>9. \A c \in NsClients : nsClients[c].present => After(a, nsClients[c].closed)
  BY <1>4, <1>7 DEF InOrder, After, Past, PastOf
<1>10. PastOf(a, nsClients, bytes + 1)
  <2>1. kernel.epoch < bytes + 1
    BY <1>3, <1>7
  <2> QED BY <1>4, <1>7, <2>1 DEF Past, PastOf
<1>11. InOrder'
  BY <1>2, <1>8, <1>9 DEF InOrder
<1>12. ~SameConn'
  BY <1>5 DEF SameConn
<1>13. NetworkOrder'
  BY <1>2, <1>5, <1>7, <1>10, <1>11, <1>12 DEF NetworkOrder, Past
<1>14. NetworkSums'
  <2>1. SentBy(batched') + SentOf(kernel') <= SentBy(batched) + SentOf(kernel) /\ SentOf(kernel') <= SentOf(kernel)
    BY <1>2, <1>3, <1>4, <1>5
  <2>2. ASSUME NEW c \in NsClients, nsClients'[c].present
        PROVE  /\ nsClients[c].present /\ nsClients'[c].stats = nsClients[c].stats
               /\ SentOf(nsClients'[c].closed) + SentBy(batched') + SentOf(kernel') =
                    SentOf(nsClients[c].closed) + SentBy(batched) + SentOf(kernel)
    <3>1. nsClients' = nsClients
      BY <1>2
    <3> DEFINE x == SentOf(nsClients[c].closed)
    <3>2. x \in Nat
      BY <1>1, <2>2, <3>1 DEF Counted
    <3> HIDE DEF x
    <3>3. x + SentBy(batched') + SentOf(kernel') = x + SentBy(batched) + SentOf(kernel)
      BY <1>2, <1>3, <1>4, <1>5, <3>2
    <3> QED BY <2>2, <3>1, <3>3 DEF x
  <2>3. Answering' /\ ~caller'.read.present => Answering /\ ~caller.read.present
    BY <1>2 DEF Answering
  <2>4. NetworkSums /\ UNCHANGED <<bytes, reported, before>>
    BY <1>2 DEF Conserved
  <2> QED BY <1>1, <1>12, <2>1, <2>2, <2>3, <2>4, SumsKept
<1> QED BY <1>13, <1>14

\* Only what is stored changes places.
LEMMA StoringConserves ==
    ASSUME Conserved, NetworkTypes', UNCHANGED <<kernel, bytes, opened, reported, before>>,
           InOrder', PastOf(batched, nsClients, bytes + 1),
           \A e \in Nat : PastOf(batched, nsClients, e) => PastOf(batched', nsClients', e),
           SentBy(batched') <= SentBy(batched),
           \A c \in NsClients : nsClients'[c].present =>
              /\ nsClients[c].present /\ nsClients'[c].stats = nsClients[c].stats
              /\ SentOf(nsClients'[c].closed) + SentBy(batched') = SentOf(nsClients[c].closed) + SentBy(batched),
           caller'.read = caller.read, caller'.nth = caller.nth, Answering' => Answering
    PROVE  NetworkOrder' /\ NetworkSums'
<1>1. Counted /\ NetworkTypes /\ NetworkOrder /\ NetworkSums /\ Counted'
  BY NetworkNumbers, NetworkNumbersNext DEF Conserved
<1>2. SameConn' => SameConn /\ caller'.read = caller.read
  BY DEF SameConn
<1>3. NetworkOrder'
  <2>1. caller'.nth <= opened
    BY <1>1 DEF NetworkOrder
  <2> QED BY <1>1, <1>2, <2>1, OrderKept
<1>4. NetworkSums'
  <2>1. SentBy(batched) \in Nat /\ SentOf(kernel) \in Nat /\ SentBy(batched') \in Nat
    BY <1>1 DEF Counted
  <2>2. SentBy(batched') + SentOf(kernel') <= SentBy(batched) + SentOf(kernel) /\ SentOf(kernel') <= SentOf(kernel)
    BY <2>1
  <2>3. ASSUME NEW c \in NsClients, nsClients'[c].present
        PROVE  /\ nsClients[c].present /\ nsClients'[c].stats = nsClients[c].stats
               /\ SentOf(nsClients'[c].closed) + SentBy(batched') + SentOf(kernel') =
                    SentOf(nsClients[c].closed) + SentBy(batched) + SentOf(kernel)
    BY <2>3
  <2> QED BY <1>1, <1>2, <2>2, <2>3, SumsKept
<1> QED BY <1>3, <1>4

LEMMA StoreConserves ==
    ASSUME Conserved, StoreClosedConnection, ~late', NetworkTypes'
    PROVE  NetworkOrder' /\ NetworkSums'
<1>1. Counted /\ NetworkTypes /\ InOrder /\ Past(bytes + 1)
  BY NetworkNumbers DEF Conserved, NetworkOrder
<1>2. /\ 1 \in DOMAIN batched /\ nsClients' = Stored(nsClients, batched[1]) /\ batched' = RemoveAt(batched, 1)
      /\ UNCHANGED <<kernel, bytes, opened, caller, reported, before>>
  BY DEF StoreClosedConnection
<1> DEFINE b == batched
           x == b[1]
           a == RemoveAt(b, 1)
           f == Stored(nsClients, x)
<1>3. /\ a \in Seq(Conns) /\ x \in Conns /\ x.sent \in Nat /\ x.epoch \in Nat
      /\ SentBy(b) = x.sent + SentBy(a) /\ SentBy(a) \in Nat
      /\ \A k \in DOMAIN a : k + 1 \in DOMAIN b /\ 1 < k + 1 /\ a[k] = b[k + 1]
      /\ DOMAIN b \subseteq Nat /\ DOMAIN a \subseteq Nat
  BY <1>1, <1>2, BatchFirst, ConnFacts DEF NetworkTypes
<1>4. ASSUME NEW c \in NsClients
      PROVE  /\ f[c].present <=> nsClients[c].present
             /\ nsClients[c].present =>
                  /\ f[c].stats = nsClients[c].stats /\ f[c].closed \in Conns
                  /\ SentOf(f[c].closed) = SentOf(nsClients[c].closed) + x.sent
                  /\ f[c].closed.epoch = x.epoch
  <2>1. /\ f[c].present <=> nsClients[c].present
        /\ nsClients[c].present =>
             /\ f[c].stats = nsClients[c].stats /\ f[c].closed \in Conns
             /\ (nsClients[c].closed.present => nsClients[c].closed.epoch < x.epoch) =>
                  SentOf(f[c].closed) = SentOf(nsClients[c].closed) + x.sent /\ f[c].closed.epoch = x.epoch
    <3>1. nsClients \in [NsClients -> Clients] /\ x \in Conns
      BY <1>1, <1>3 DEF NetworkTypes
    <3> HIDE DEF x
    <3> QED BY <3>1, StoreFacts
  <2>2. nsClients[c].present /\ nsClients[c].closed.present => nsClients[c].closed.epoch < x.epoch
    BY <1>1, <1>2 DEF InOrder, After
  <2> QED BY <2>1, <2>2
<1> HIDE DEF f, a, x
<1>5. InOrder'
  <2>1. Later(a)
    <3> SUFFICES ASSUME NEW j \in DOMAIN a, NEW k \in DOMAIN a, j < k
                 PROVE  a[j].epoch < a[k].epoch
      BY DEF Later
    <3>1. j + 1 < k + 1
      BY <1>3
    <3> QED BY <1>1, <1>3, <3>1 DEF InOrder, Later
  <2>2. \A k \in DOMAIN a : x.epoch < a[k].epoch
    BY <1>1, <1>2, <1>3 DEF InOrder, Later, x
  <2>3. \A c \in NsClients : f[c].present => After(a, f[c].closed)
    BY <1>4, <2>2 DEF After
  <2> QED BY <1>2, <2>1, <2>3 DEF InOrder, f, a, x
<1>6. \A e \in Nat : PastOf(b, nsClients, e) => PastOf(a, f, e)
  BY <1>2, <1>3, <1>4 DEF PastOf, x
<1>7. ASSUME NEW c \in NsClients, f[c].present
      PROVE  /\ nsClients[c].present /\ f[c].stats = nsClients[c].stats
             /\ SentOf(f[c].closed) + SentBy(a) = SentOf(nsClients[c].closed) + SentBy(b)
  <2>1. SentOf(nsClients[c].closed) \in Nat
    BY <1>1, <1>4, <1>7 DEF Counted
  <2> QED BY <1>3, <1>4, <1>7, <2>1
<1>8. SentBy(a) <= SentBy(b)
  BY <1>3
<1>9. Answering' => Answering
  BY <1>2 DEF Answering
<1>10. nsClients' = f /\ batched' = a /\ PastOf(batched, nsClients, bytes + 1)
  BY <1>1, <1>2 DEF f, a, x, Past
<1> HIDE DEF b
<1>11. \A e \in Nat : PastOf(batched, nsClients, e) => PastOf(batched', nsClients', e)
  BY <1>6, <1>10 DEF b
<1>12. \A c \in NsClients : nsClients'[c].present =>
              /\ nsClients[c].present /\ nsClients'[c].stats = nsClients[c].stats
              /\ SentOf(nsClients'[c].closed) + SentBy(batched') = SentOf(nsClients[c].closed) + SentBy(batched)
  BY <1>7, <1>10 DEF b
<1>13. SentBy(batched') <= SentBy(batched)
  BY <1>8, <1>10 DEF b
<1> QED BY <1>2, <1>5, <1>9, <1>10, <1>11, <1>12, <1>13, StoringConserves

LEMMA FlushConserves ==
    ASSUME Conserved, FlushIdle, NetworkTypes'
    PROVE  NetworkOrder' /\ NetworkSums'
<1>1. Counted /\ NetworkTypes /\ InOrder /\ Past(bytes + 1)
  BY NetworkNumbers DEF Conserved, NetworkOrder
<1>2. /\ UNCHANGED <<kernel, bytes, opened, reported, before>> /\ caller.step = "flush"
      /\ caller' = [caller EXCEPT !.step = "merge"]
  BY DEF FlushIdle, truthVars
<1>3. caller'.read = caller.read /\ caller'.nth = caller.nth /\ Answering
  BY <1>1, <1>2 DEF NetworkTypes, Calls, Answering
<1>4. PastOf(batched, nsClients, bytes + 1)
  BY <1>1 DEF Past
<1> DEFINE f == FoldLeft(Stored, nsClients, batched)
<1>5. CASE nsClients' = f /\ batched' = <<>>
  <2>1. \A c \in NsClients :
           /\ f[c].present <=> nsClients[c].present
           /\ nsClients[c].present =>
                /\ f[c].stats = nsClients[c].stats /\ f[c].closed \in MaybeConn
                /\ SentOf(f[c].closed) = SentOf(nsClients[c].closed) + SentBy(batched)
                /\ batched = <<>> => f[c].closed = nsClients[c].closed
                /\ batched # <<>> => /\ Len(batched) \in DOMAIN batched /\ f[c].closed.present
                                     /\ f[c].closed.epoch = batched[Len(batched)].epoch
    BY <1>1, FlushFacts
  <2> HIDE DEF f
  <2>2. batched' \in Seq(Conns) /\ DOMAIN batched' = {} /\ SentBy(batched') = 0
    <3>1. <<>> \in Seq(Conns) /\ DOMAIN <<>> = {}
      BY EmptySeq
    <3> QED BY <1>5, <3>1, BatchSums DEF SentBy
  <2>3. InOrder'
    BY <1>5, <2>2 DEF InOrder, Later, After
  <2>4. \A e \in Nat : PastOf(batched, nsClients, e) => PastOf(batched', nsClients', e)
    BY <1>5, <2>1, <2>2 DEF PastOf
  <2>5. SentBy(batched) \in Nat /\ SentBy(batched') <= SentBy(batched)
    BY <1>1, <2>2 DEF Counted
  <2>6. ASSUME NEW c \in NsClients, nsClients'[c].present
        PROVE  /\ nsClients[c].present /\ nsClients'[c].stats = nsClients[c].stats
               /\ SentOf(nsClients'[c].closed) + SentBy(batched') = SentOf(nsClients[c].closed) + SentBy(batched)
    <3>1. nsClients[c].present
      BY <1>5, <2>1, <2>6
    <3>2. SentOf(nsClients[c].closed) \in Nat
      BY <1>1, <3>1 DEF Counted
    <3> QED BY <1>5, <2>1, <2>2, <2>5, <3>1, <3>2
  <2> QED BY <1>2, <1>3, <1>4, <2>3, <2>4, <2>5, <2>6, StoringConserves
<1>6. CASE UNCHANGED <<nsClients, batched>>
  <2>1. InOrder'
    BY <1>1, <1>6 DEF InOrder
  <2>2. SentBy(batched) \in Nat
    BY <1>1 DEF Counted
  <2>3. \A e \in Nat : PastOf(batched, nsClients, e) => PastOf(batched', nsClients', e)
    BY <1>6
  <2>4. SentBy(batched') <= SentBy(batched)
    BY <1>6, <2>2
  <2>5. \A c \in NsClients : nsClients'[c].present =>
              /\ nsClients[c].present /\ nsClients'[c].stats = nsClients[c].stats
              /\ SentOf(nsClients'[c].closed) + SentBy(batched') = SentOf(nsClients[c].closed) + SentBy(batched)
    BY <1>6
  <2> HIDE DEF f
  <2> QED BY <1>2, <1>3, <1>4, <2>1, <2>3, <2>4, <2>5, StoringConserves
<1> QED BY <1>5, <1>6 DEF FlushIdle

LEMMA ReadConserves ==
    ASSUME Conserved, NetworkTypes', NEW d \in NsClients, ReadMap(d)
    PROVE  NetworkOrder' /\ NetworkSums'
<1>1. Counted /\ NetworkTypes /\ NetworkOrder /\ NetworkSums
  BY NetworkNumbers DEF Conserved
<1>2. UNCHANGED <<kernel, batched, bytes, opened, nsClients, reported, before>>
  BY DEF ReadMap, kernelVars, truthVars
<1>3. PICK expired \in {FALSE, kernel.present} :
          caller' = [client |-> d, step |-> IF expired THEN "remove" ELSE "flush",
                     read |-> IF expired THEN None ELSE kernel, nth |-> opened]
  BY DEF ReadMap
<1>4. /\ caller'.nth = opened
      /\ Answering' /\ ~caller'.read.present => ~kernel.present
      /\ SameConn' => caller'.read = kernel /\ kernel.present
  <2>1. CASE expired
    <3>1. caller'.step = "remove" /\ caller'.read = None /\ caller'.nth = opened
      BY <1>3, <2>1
    <3> QED BY <3>1, ConnFacts DEF Answering, SameConn
  <2>2. CASE ~expired
    <3>1. caller'.read = kernel /\ caller'.nth = opened
      BY <1>3, <2>2
    <3> QED BY <3>1 DEF SameConn
  <2> QED BY <2>1, <2>2
<1>5. NetworkOrder'
  <2>1. InOrder'
    BY <1>1, <1>2 DEF NetworkOrder, InOrder
  <2>2. opened <= opened /\ (kernel.present => kernel.sent <= kernel.sent)
    BY <1>1 DEF Counted
  <2> QED BY <1>1, <1>2, <1>4, <2>1, <2>2 DEF NetworkOrder, Past
<1>6. ASSUME NEW c \in NsClients, nsClients'[c].present
      PROVE  SumsOf(c)'
  <2> DEFINE a == SentOf(nsClients[c].closed) + SentBy(batched)
             t == Told(nsClients[c].stats)
             k == SentOf(kernel)
  <2>1. nsClients[c].present
    BY <1>2, <1>6
  <2>2. a \in Nat /\ t \in Nat /\ k \in Nat
    BY <1>1, <2>1 DEF Counted, ClosedSum, ToldTo
  <2>3. a + k <= bytes /\ t <= a + k /\ reported[c] + before[c] + a + k = bytes + t
    BY <1>1, <2>1 DEF NetworkSums, SumsOf, ClosedSum, ToldTo
  <2>4. (~kernel.present => k = 0) /\ (kernel.present => kernel.sent = k)
    BY <1>1 DEF Counted
  <2> HIDE DEF a, t, k
  <2>5. ~kernel.present => t <= a
    BY <2>2, <2>3, <2>4
  <2>6. SameConn' => t <= a + caller'.read.sent
    BY <1>4, <2>3, <2>4
  <2>7. Answering' /\ ~caller'.read.present => t <= a
    BY <1>4, <2>5
  <2> QED BY <1>2, <2>3, <2>6, <2>7 DEF SumsOf, ClosedSum, ToldTo, a, t, k
<1>7. NetworkSums'
  BY <1>1, <1>2, <1>6 DEF NetworkSums
<1> QED BY <1>5, <1>7

LEMMA RemoveConserves ==
    ASSUME Conserved, NetworkTypes', NEW d \in NsClients, RemoveClient(d)
    PROVE  NetworkOrder' /\ NetworkSums'
<1>1. Counted /\ NetworkTypes /\ NetworkOrder /\ NetworkSums
  BY NetworkNumbers DEF Conserved
<1>2. UNCHANGED <<kernel, batched, bytes, opened, caller, reported, before>>
  BY DEF RemoveClient, kernelVars, truthVars
<1>3. \A c \in NsClients : nsClients'[c].present => nsClients[c].present /\ nsClients'[c] = nsClients[c]
  <2>1. nsClients' = [nsClients EXCEPT ![d] = None] /\ nsClients \in [NsClients -> Clients]
    BY <1>1 DEF RemoveClient, NetworkTypes
  <2> QED BY <2>1, ConnFacts
<1>4. InOrder'
  BY <1>1, <1>2, <1>3 DEF NetworkOrder, InOrder
<1>5. \A e \in Nat : PastOf(batched, nsClients, e) => PastOf(batched', nsClients', e)
  BY <1>2, <1>3 DEF PastOf
<1>6. SentBy(batched) \in Nat /\ SentBy(batched') <= SentBy(batched)
  BY <1>1, <1>2 DEF Counted
<1>7. \A c \in NsClients : nsClients'[c].present =>
              /\ nsClients[c].present /\ nsClients'[c].stats = nsClients[c].stats
              /\ SentOf(nsClients'[c].closed) + SentBy(batched') = SentOf(nsClients[c].closed) + SentBy(batched)
  BY <1>2, <1>3
<1>8. caller'.read = caller.read /\ caller'.nth = caller.nth /\ (Answering' => Answering)
      /\ PastOf(batched, nsClients, bytes + 1)
  BY <1>1, <1>2 DEF Answering, NetworkOrder, Past
<1> QED BY <1>2, <1>4, <1>5, <1>6, <1>7, <1>8, StoringConserves

\* The client that asks, what it is told and what is kept of that.
Asking == IF nsClients[caller.client].present THEN nsClients[caller.client] ELSE ClientState(None, None)
Answer == MergeConnections(Asking, caller.read)
Kept   == IF caller.read.present THEN Answer.stats ELSE None

LEMMA AnswerStep ==
    ASSUME NetworkTypes, Connections, Answer.sent \in Nat, Answer.stats \in MaybeStats,
           NEW d, d = caller.client
    PROVE  /\ d \in NsClients /\ NetworkTypes' /\ UNCHANGED <<kernel, batched, bytes, opened>>
           /\ ~SameConn' /\ ~Answering' /\ ~caller'.read.present /\ caller'.nth = 0
           /\ Kept \in MaybeStats
           /\ nsClients'[d].present /\ nsClients'[d].stats = Kept /\ nsClients'[d].closed = None
           /\ reported'[d] = IF nsClients[d].present THEN reported[d] + Answer.sent ELSE 0
           /\ before'[d] = IF nsClients[d].present THEN before[d]
                           ELSE IF ~kernel.present THEN bytes ELSE bytes - kernel.sent + SentOf(caller.read)
           /\ \A c \in NsClients : c # d => /\ nsClients'[c] = nsClients[c]
                                            /\ reported'[c] = reported[c] /\ before'[c] = before[c]
<1> DEFINE r == caller.read
           new == ClientState(Kept, None)
<1>1. /\ UNCHANGED <<kernel, batched, bytes, opened>> /\ caller' = NoCaller /\ caller.step = "merge"
      /\ nsClients' = [nsClients EXCEPT ![d] = new]
      /\ reported' = [reported EXCEPT ![d] = IF nsClients[d].present THEN reported[d] + Answer.sent ELSE 0]
      /\ before' = [before EXCEPT ![d] = IF nsClients[d].present THEN before[d]
                                         ELSE IF ~kernel.present THEN bytes
                                         ELSE bytes - kernel.sent + (IF r.present THEN r.sent ELSE 0)]
  <2>1. UNCHANGED <<kernel, batched, bytes, opened>> /\ caller' = NoCaller /\ caller.step = "merge"
    BY DEF Connections, kernelVars
  <2>2. CASE nsClients[d].present
    <3>1. Asking = nsClients[d]
      BY <2>2 DEF Asking
    <3>2. nsClients' = [nsClients EXCEPT ![d] = new]
      BY <2>2, <3>1 DEF Connections, Kept, Answer
    <3>3. reported' = [reported EXCEPT ![d] = reported[d] + Answer.sent]
      BY <2>2, <3>1 DEF Connections, Answer
    <3>4. before' = [before EXCEPT ![d] = before[d]]
      BY <2>2 DEF Connections
    <3> QED BY <2>1, <2>2, <3>2, <3>3, <3>4
  <2>3. CASE ~nsClients[d].present
    <3>1. Asking = ClientState(None, None)
      BY <2>3 DEF Asking
    <3>2. nsClients' = [nsClients EXCEPT ![d] = new]
      BY <2>3, <3>1 DEF Connections, Kept, Answer
    <3>3. reported' = [reported EXCEPT ![d] = 0]
      BY <2>3 DEF Connections
    <3>4. before' = [before EXCEPT ![d] = IF ~kernel.present THEN bytes
                                          ELSE bytes - kernel.sent + (IF r.present THEN r.sent ELSE 0)]
      BY <2>3 DEF Connections
    <3> QED BY <2>1, <2>3, <3>2, <3>3, <3>4
  <2> QED BY <2>2, <2>3
<1>2. /\ nsClients \in [NsClients -> Clients] /\ reported \in [NsClients -> Nat] /\ before \in [NsClients -> Int]
      /\ d \in NsClients /\ bytes \in Nat
  BY <1>1 DEF NetworkTypes
<1>3. Kept \in MaybeStats
  BY StatsFacts DEF Kept
<1>4. new \in Clients /\ new.present /\ new.stats = Kept /\ new.closed = None
  <2>1. None \in MaybeConn
    BY DEF MaybeConn
  <2> QED BY <1>3, <2>1, ClientFacts
<1> HIDE DEF new
<1>5. /\ nsClients' \in [NsClients -> Clients] /\ nsClients'[d] = new
      /\ \A c \in NsClients : c # d => nsClients'[c] = nsClients[c]
  BY <1>1, <1>2, <1>4
<1>6. /\ reported'[d] = IF nsClients[d].present THEN reported[d] + Answer.sent ELSE 0
      /\ \A c \in NsClients : c # d => reported'[c] = reported[c]
  BY <1>1, <1>2
<1>7. /\ before'[d] = IF nsClients[d].present THEN before[d]
                      ELSE IF ~kernel.present THEN bytes ELSE bytes - kernel.sent + SentOf(r)
      /\ \A c \in NsClients : c # d => before'[c] = before[c]
  BY <1>1, <1>2 DEF SentOf
<1>8. SentOf(r) \in Nat /\ (kernel.present => kernel.sent \in Nat)
  BY NetworkNumbers DEF Counted
<1>9. reported'[d] \in Nat /\ before'[d] \in Int
  BY <1>2, <1>6, <1>7, <1>8
<1>10. reported' \in [NsClients -> Nat] /\ before' \in [NsClients -> Int]
  <2>1. reported' = [reported EXCEPT ![d] = reported'[d]] /\ before' = [before EXCEPT ![d] = before'[d]]
    BY <1>1, <1>2
  <2> QED BY <1>2, <1>9, <2>1
<1>11. /\ NoCaller \in Calls /\ NoCaller.step = "idle" /\ ~NoCaller.read.present /\ NoCaller.nth = 0
  <2>1. None \in MaybeConn /\ ~None.present
    BY ConnFacts DEF MaybeConn
  <2> QED BY <2>1 DEF NoCaller, Calls
<1>12. NetworkTypes'
  BY <1>1, <1>5, <1>10, <1>11 DEF NetworkTypes
<1>13. ~SameConn' /\ ~Answering' /\ ~caller'.read.present /\ caller'.nth = 0
  BY <1>1, <1>11 DEF SameConn, Answering
<1> QED BY <1>1, <1>2, <1>3, <1>4, <1>5, <1>6, <1>7, <1>12, <1>13

\* What mergeConnections makes of the client that asks.
LEMMA AnswerFacts ==
    ASSUME Conserved, Connections, ~late', ~crossed', MaxBytes < Modulus
    PROVE  /\ batched = <<>> /\ SentBy(batched) = 0 /\ (caller.read.present => SameConn)
           /\ SentOf(Asking.closed) \in Nat /\ Told(Asking.stats) \in Nat
           /\ SentOf(caller.read) <= SentOf(kernel)
           /\ Told(Asking.stats) <= SentOf(Asking.closed) + SentOf(caller.read)
           /\ Answer.sent = SentOf(Asking.closed) + SentOf(caller.read) - Told(Asking.stats)
           /\ Answer.stats \in MaybeStats /\ Told(Kept) = SentOf(caller.read)
<1> DEFINE c == caller.client
           cl == Asking
           r == caller.read
           u == Answer
<1>1. Counted /\ NetworkTypes /\ NetworkOrder /\ NetworkSums
  BY NetworkNumbers DEF Conserved
<1>2. caller.step = "merge" /\ batched = <<>> /\ (r.present => SameConn) /\ c \in NsClients
  <2>1. caller.step = "merge" /\ late' = (late \/ batched # <<>>)
        /\ crossed' = (crossed \/ (r.present /\ (~kernel.present \/ opened # caller.nth)))
    BY DEF Connections
  <2>2. c \in NsClients
    BY <1>1, <2>1 DEF NetworkTypes
  <2> QED BY <2>1, <2>2 DEF SameConn
<1>3. SentBy(batched) = 0
  <2>1. <<>> \in Seq(Conns) /\ DOMAIN <<>> = {}
    BY EmptySeq
  <2> QED BY <1>2, <2>1, BatchSums DEF SentBy
<1>4. r \in MaybeConn /\ SentOf(r) \in Nat /\ SentOf(kernel) \in Nat
  BY <1>1 DEF Counted
<1>5. SentOf(r) <= SentOf(kernel) /\ (r.present => Past(r.epoch) /\ SentOf(r) = r.sent /\ r.sent \in Nat /\ r.est \in Nat)
  <2>1. CASE r.present
    <3>1. r.sent <= kernel.sent /\ Past(r.epoch) /\ kernel.present
      BY <1>1, <1>2, <2>1 DEF NetworkOrder, SameConn
    <3>2. SentOf(r) = r.sent /\ SentOf(kernel) = kernel.sent
      BY <2>1, <3>1 DEF SentOf
    <3>3. r.sent \in Nat /\ r.est \in Nat
      BY <1>4, <2>1, ConnFacts
    <3> QED BY <3>1, <3>2, <3>3
  <2>2. CASE ~r.present
    BY <1>4, <2>2 DEF SentOf
  <2> QED BY <2>1, <2>2
<1>6. bytes \in Nat /\ bytes < Modulus
  BY <1>1, NetworkAssumption DEF NetworkTypes
<1>7. /\ cl \in Clients /\ cl.present
      /\ cl.closed.present /\ r.present => cl.closed.epoch < r.epoch
      /\ SentOf(cl.closed) \in Nat /\ Told(cl.stats) \in Nat
      /\ SentOf(cl.closed) + SentOf(kernel) <= bytes /\ Told(cl.stats) <= SentOf(cl.closed) + SentOf(r)
  <2>1. CASE nsClients[c].present
    <3>1. cl = nsClients[c] /\ cl \in Clients /\ cl.present
      BY <1>1, <1>2, <2>1 DEF NetworkTypes, Asking
    <3> HIDE DEF cl
    <3>2. SentOf(cl.closed) \in Nat /\ Told(cl.stats) \in Nat
      BY <1>1, <1>2, <2>1, <3>1 DEF Counted, ToldTo
    <3>3. SentOf(cl.closed) + SentBy(batched) + SentOf(kernel) <= bytes
          /\ (Answering /\ ~r.present => Told(cl.stats) <= SentOf(cl.closed) + SentBy(batched))
          /\ (SameConn => Told(cl.stats) <= SentOf(cl.closed) + SentBy(batched) + r.sent)
      BY <1>1, <1>2, <2>1, <3>1 DEF NetworkSums, SumsOf, ClosedSum, ToldTo
    <3>4. Answering
      BY <1>2 DEF Answering
    <3>5. SentOf(cl.closed) + SentOf(kernel) <= bytes
      BY <1>3, <1>4, <3>2, <3>3
    <3>6. Told(cl.stats) <= SentOf(cl.closed) + SentOf(r)
      BY <1>2, <1>3, <1>4, <1>5, <3>2, <3>3, <3>4
    <3>7. cl.closed.present /\ r.present => cl.closed.epoch < r.epoch
      BY <1>2, <1>5, <2>1, <3>1 DEF Past, PastOf
    <3> QED BY <3>1, <3>2, <3>5, <3>6, <3>7
  <2>2. CASE ~nsClients[c].present
    <3>1. cl = ClientState(None, None) /\ None \in MaybeStats /\ None \in MaybeConn /\ Told(None) = 0
      BY <2>2, StatsFacts DEF MaybeConn, Asking
    <3> HIDE DEF cl
    <3>2. cl \in Clients /\ cl.present /\ cl.stats = None /\ cl.closed = None
      BY <3>1, ClientFacts
    <3>3. SentOf(None) = 0 /\ ~None.present
      BY ConnFacts DEF SentOf
    <3>4. SentBy(batched) + SentOf(kernel) <= bytes
      BY <1>1 DEF NetworkSums
    <3> QED BY <1>3, <1>4, <1>6, <3>1, <3>2, <3>3, <3>4
  <2> QED BY <2>1, <2>2
<1>8. SentOf(cl.closed) + SentOf(r) < Modulus
  <2> HIDE DEF cl, r
  <2> QED BY <1>4, <1>5, <1>6, <1>7, NetworkAssumption
<1>9. /\ u.sent = SentOf(cl.closed) + SentOf(r) - Told(cl.stats) /\ u.stats \in MaybeStats
      /\ r.present => u.stats = Stats(r.sent, r.est)
  <2> DEFINE v == MergeConnections(cl, r)
  <2> HIDE DEF cl, r
  <2>1. /\ v.sent = SentOf(cl.closed) + SentOf(r) - Told(cl.stats) /\ v.stats \in MaybeStats
        /\ r.present => v.stats = Stats(r.sent, r.est)
    BY <1>4, <1>7, <1>8, MergeApart
  <2> QED BY <2>1 DEF Answer, cl, r
<1>10. Told(Kept) = SentOf(r)
  <2>1. CASE r.present
    <3>1. Kept = Stats(r.sent, r.est)
      BY <1>9, <2>1 DEF Kept
    <3> QED BY <1>5, <2>1, <3>1, StatsFacts
  <2>2. CASE ~r.present
    BY <2>2, StatsFacts DEF Kept, SentOf
  <2> QED BY <2>1, <2>2
<1> QED BY <1>2, <1>3, <1>5, <1>7, <1>9, <1>10

LEMMA AnswerConserves ==
    ASSUME Conserved, Connections, ~late', ~crossed', MaxBytes < Modulus
    PROVE  Conserved'
<1> DEFINE a == SentOf(Asking.closed)
           t == Told(Asking.stats)
           k == SentOf(kernel)
           n == SentOf(caller.read)
<1>1. Counted /\ NetworkTypes /\ NetworkOrder /\ NetworkSums /\ caller.client \in NsClients
  BY NetworkNumbers DEF Conserved, Connections, NetworkTypes
<1> SUFFICES ASSUME NEW d \in NsClients, d = caller.client
             PROVE  Conserved'
  BY <1>1
<1>2. /\ batched = <<>> /\ SentBy(batched) = 0 /\ (caller.read.present => SameConn)
      /\ a \in Nat /\ t \in Nat /\ n <= k /\ t <= a + n
      /\ Answer.sent = a + n - t /\ Answer.stats \in MaybeStats /\ Told(Kept) = n
  BY AnswerFacts
<1>3. k \in Nat /\ n \in Nat /\ bytes \in Nat /\ reported[d] \in Nat /\ before[d] \in Int
  BY <1>1 DEF Counted, NetworkTypes
<1> HIDE DEF a, t, k, n
<1>4. Answer.sent \in Nat
  BY <1>2, <1>3
<1>5. /\ NetworkTypes' /\ UNCHANGED <<kernel, batched, bytes, opened>>
      /\ ~SameConn' /\ ~Answering' /\ ~caller'.read.present /\ caller'.nth = 0
      /\ nsClients'[d].present /\ nsClients'[d].stats = Kept /\ nsClients'[d].closed = None
      /\ reported'[d] = IF nsClients[d].present THEN reported[d] + Answer.sent ELSE 0
      /\ before'[d] = IF nsClients[d].present THEN before[d]
                      ELSE IF ~kernel.present THEN bytes ELSE bytes - kernel.sent + SentOf(caller.read)
      /\ \A c \in NsClients : c # d => /\ nsClients'[c] = nsClients[c]
                                       /\ reported'[c] = reported[c] /\ before'[c] = before[c]
  BY <1>1, <1>2, <1>4, AnswerStep
<1>6. ~nsClients[d].present => before'[d] = bytes - k + n
  <2>1. CASE kernel.present
    BY <1>5, <2>1 DEF SentOf, k, n
  <2>2. CASE ~kernel.present
    <3>1. k = 0 /\ n = 0
      <4>1. k = 0
        BY <2>2 DEF SentOf, k
      <4> QED BY <1>2, <1>3, <4>1
    <3>2. bytes - k + n = bytes
      BY <1>3, <3>1
    <3> QED BY <1>5, <2>2, <3>2
  <2> QED BY <2>1, <2>2
<1>7. NetworkOrder'
  <2>1. DOMAIN batched = {} /\ DOMAIN batched' = {}
    BY <1>2, <1>5, EmptySeq
  <2>2. InOrder'
    BY <2>1 DEF InOrder, Later, After
  <2>3. \A e \in Nat : PastOf(batched, nsClients, e) => PastOf(batched', nsClients', e)
    <3>1. \A c \in NsClients : nsClients'[c].closed.present => nsClients'[c] = nsClients[c]
      BY <1>5, ConnFacts
    <3> QED BY <2>1, <3>1 DEF PastOf
  <2>4. caller'.nth <= opened
    BY <1>1, <1>5 DEF Counted
  <2> QED BY <1>1, <1>5, <2>2, <2>3, <2>4, OrderKept
<1>8. SumsOf(d)'
  <2>1. /\ SentOf(nsClients'[d].closed) = 0 /\ SentBy(batched') = 0 /\ SentOf(kernel') = k
        /\ Told(nsClients'[d].stats) = n /\ bytes' = bytes
    BY <1>2, <1>5, ConnFacts DEF SentOf, k
  <2>2. k <= bytes
    <3>1. SentBy(batched) + k <= bytes
      BY <1>1 DEF NetworkSums, k
    <3> QED BY <1>2, <1>3, <3>1
  <2>3. reported'[d] + before'[d] + k = bytes + n
    <3>1. CASE nsClients[d].present
      <4>1. reported[d] + before[d] + (a + SentBy(batched)) + k = bytes + t
        BY <1>1, <3>1 DEF NetworkSums, SumsOf, ClosedSum, ToldTo, Asking, a, t, k
      <4>2. reported'[d] = reported[d] + (a + n - t) /\ before'[d] = before[d]
        BY <1>2, <1>5, <3>1
      <4>3. a \in Nat /\ t \in Nat /\ SentBy(batched) = 0
        BY <1>2
      <4>4. reported[d] + before[d] + a + k = bytes + t
        BY <1>3, <4>1, <4>3
      <4> QED BY <1>3, <4>2, <4>3, <4>4
    <3>2. CASE ~nsClients[d].present
      <4>1. reported'[d] = 0 /\ before'[d] = bytes - k + n
        BY <1>5, <1>6, <3>2
      <4> QED BY <1>3, <4>1
    <3> QED BY <3>1, <3>2
  <2>4. reported'[d] \in Nat /\ before'[d] \in Int
    BY <1>5 DEF NetworkTypes
  <2>5. 0 + 0 + k <= bytes /\ n <= 0 + 0 + k /\ reported'[d] + before'[d] + (0 + 0) + k = bytes + n
    BY <1>2, <1>3, <2>2, <2>3, <2>4
  <2> QED BY <1>5, <2>1, <2>5 DEF SumsOf, ClosedSum, ToldTo
<1>9. ASSUME NEW c \in NsClients, c # d, nsClients'[c].present
      PROVE  SumsOf(c)'
  <2>1. nsClients[c].present /\ nsClients'[c] = nsClients[c] /\ reported'[c] = reported[c] /\ before'[c] = before[c]
    BY <1>5, <1>9
  <2>2. SumsOf(c)
    BY <1>1, <2>1 DEF NetworkSums
  <2> QED BY <1>5, <2>1, <2>2 DEF SumsOf, ClosedSum, ToldTo
<1>10. NetworkSums'
  <2>1. (SentBy(batched) + SentOf(kernel) <= bytes)'
    BY <1>1, <1>5 DEF NetworkSums
  <2>2. \A c \in NsClients : nsClients'[c].present => SumsOf(c)'
    BY <1>8, <1>9
  <2> QED BY <2>1, <2>2 DEF NetworkSums
<1> QED BY <1>5, <1>7, <1>10 DEF Conserved

LEMMA ConservedStep ==
    ASSUME Conserved, NetworkNext, ~late', ~crossed', MaxBytes < Modulus
    PROVE  Conserved'
<1>1. CASE Connections
  BY <1>1, AnswerConserves
<1>2. CASE ~Connections
  <2>1. NetworkTypes'
    BY <1>2, NetworkTypesStep DEF Conserved, NetworkOrder
  <2>2. CASE Traffic
    BY <2>1, <2>2, TrafficConserves DEF Conserved
  <2>3. CASE TCPClose
    BY <2>1, <2>3, CloseConserves DEF Conserved
  <2>4. CASE StoreClosedConnection
    BY <2>1, <2>4, StoreConserves DEF Conserved
  <2>5. CASE PerfLost \/ RemoveEntries
    BY <2>5 DEF PerfLost, RemoveEntries
  <2>6. CASE FlushIdle
    BY <2>1, <2>6, FlushConserves DEF Conserved
  <2>7. ASSUME NEW c \in NsClients, ReadMap(c)
        PROVE  Conserved'
    BY <2>1, <2>7, ReadConserves DEF Conserved
  <2>8. ASSUME NEW c \in NsClients, RemoveClient(c)
        PROVE  Conserved'
    BY <2>1, <2>8, RemoveConserves DEF Conserved
  <2> QED BY <1>2, <2>2, <2>3, <2>4, <2>5, <2>6, <2>7, <2>8 DEF NetworkNext
<1> QED BY <1>1, <1>2

LEMMA ConservedStart ==
    ASSUME NetworkInit
    PROVE  Conserved
<1>1. <<>> \in Seq(Conns) /\ DOMAIN <<>> = {}
  BY EmptySeq
<1>2. None \in MaybeConn /\ ~None.present /\ None \in Clients
  BY ConnFacts, ClientFacts DEF MaybeConn
<1>3. NoCaller \in Calls /\ NoCaller.step = "idle" /\ ~NoCaller.read.present /\ NoCaller.nth = 0
  BY <1>2 DEF NoCaller, Calls
<1>4. NetworkTypes
  BY <1>1, <1>2, <1>3, NetworkAssumption DEF NetworkInit, NetworkTypes
<1>5. \A c \in NsClients : ~nsClients[c].present
  BY <1>2 DEF NetworkInit
<1>6. batched = <<>> /\ DOMAIN batched = {} /\ ~kernel.present /\ ~caller.read.present /\ caller.nth = 0
      /\ opened = 0 /\ bytes = 0
  BY <1>1, <1>2, <1>3 DEF NetworkInit
<1>7. NetworkOrder
  BY <1>5, <1>6 DEF NetworkOrder, InOrder, Later, After, Past, PastOf, SameConn
<1>8. SentBy(batched) = 0 /\ SentOf(kernel) = 0
  BY <1>1, <1>6, BatchSums DEF SentBy, SentOf
<1> QED BY <1>4, <1>5, <1>6, <1>7, <1>8 DEF Conserved, NetworkSums

LEMMA ConservedNow ==
    ASSUME Conserved, MaxBytes < Modulus, NEW c \in NsClients, nsClients[c].present
    PROVE  reported[c] + Pending(c) = bytes - before[c]
<1> DEFINE f == FoldLeft(Stored, nsClients, batched)
           cl == f[c]
           u == MergeConnections(cl, kernel)
           a == ClosedSum(c)
           t == ToldTo(c)
           k == SentOf(kernel)
<1>1. Counted /\ NetworkTypes /\ NetworkOrder /\ NetworkSums /\ InOrder
  BY NetworkNumbers DEF Conserved, NetworkOrder
<1>2. /\ cl \in Clients /\ cl.present /\ cl.stats = nsClients[c].stats
      /\ SentOf(cl.closed) = a
      /\ batched = <<>> => cl.closed = nsClients[c].closed
      /\ batched # <<>> => Len(batched) \in DOMAIN batched /\ cl.closed.epoch = batched[Len(batched)].epoch
  BY <1>1, FlushFacts DEF ClosedSum
<1>3. a \in Nat /\ t \in Nat /\ k \in Nat /\ bytes \in Nat /\ reported[c] \in Nat /\ before[c] \in Int
  BY <1>1 DEF Counted
<1>4. a + k <= bytes /\ t <= a + k /\ reported[c] + before[c] + a + k = bytes + t
  BY <1>1 DEF NetworkSums, SumsOf
<1>5. t = Told(cl.stats)
  BY <1>2 DEF ToldTo
<1>6. cl.closed.present /\ kernel.present => cl.closed.epoch < kernel.epoch
  BY <1>1, <1>2 DEF NetworkOrder, Past, PastOf
<1>7. kernel \in MaybeConn /\ bytes < Modulus
  BY <1>1, NetworkAssumption DEF NetworkTypes
<1> HIDE DEF cl, a, t, k
<1>8. a + k < Modulus
  BY <1>3, <1>4, <1>7, NetworkAssumption
<1>9. u.sent = SentOf(cl.closed) + SentOf(kernel) - Told(cl.stats)
  <2>1. /\ SentOf(cl.closed) + SentOf(kernel) < Modulus
        /\ Told(cl.stats) <= SentOf(cl.closed) + SentOf(kernel)
    BY <1>2, <1>4, <1>5, <1>8 DEF k
  <2>2. cl \in Clients /\ cl.present /\ kernel \in MaybeConn
    BY <1>2, <1>7
  <2>3. SentOf(cl.closed) \in Nat /\ SentOf(kernel) \in Nat /\ Told(cl.stats) \in Nat
    BY <1>2, <1>3, <1>5 DEF k
  <2> QED BY <1>6, <2>1, <2>2, <2>3, MergeApart
<1> HIDE DEF u
<1>10. u.sent = a + k - t
  BY <1>2, <1>5, <1>9 DEF k
<1>11. reported[c] + u.sent = bytes - before[c]
  BY <1>3, <1>4, <1>10
<1>12. Pending(c) = u.sent
  BY DEF Pending, u, cl
<1> QED BY <1>11, <1>12

\* Neither late nor crossed is ever reset.
LEMMA NetworkFlags ==
    ASSUME NetworkNext
    PROVE  (late => late') /\ (crossed => crossed')
<1>1. CASE Traffic \/ TCPClose \/ FlushIdle \/ \E c \in NsClients : ReadMap(c) \/ RemoveClient(c)
  BY <1>1 DEF Traffic, TCPClose, FlushIdle, ReadMap, RemoveClient, truthVars
<1>2. CASE StoreClosedConnection
  <2>1. PICK i \in DOMAIN batched : late' = (late \/ i # 1) /\ crossed' = crossed
    BY <1>2 DEF StoreClosedConnection
  <2>2. late => late'
    BY <2>1
  <2> QED BY <2>1, <2>2
<1>3. CASE PerfLost
  BY <1>3 DEF PerfLost
<1>4. CASE RemoveEntries
  BY <1>4 DEF RemoveEntries
<1>5. CASE Connections
  <2>1. late' = (late \/ batched # <<>>)
    BY <1>5 DEF Connections
  <2>2. crossed' = (crossed \/ (caller.read.present /\ (~kernel.present \/ opened # caller.nth)))
    BY <1>5 DEF Connections
  <2> QED BY <2>1, <2>2
<1> QED BY <1>1, <1>2, <1>3, <1>4, <1>5 DEF NetworkNext

ConservedInv == ~late /\ ~crossed => Conserved

\* What a client was told and what it will be told next are the bytes sent since it came
\* (mergeConnections), whatever the clients and however many bytes, as long as the
\* counters do not wrap.
THEOREM BytesAreConserved == MaxBytes < Modulus => (NetworkSpec => []BytesConserved)
<1> SUFFICES ASSUME MaxBytes < Modulus PROVE NetworkSpec => []BytesConserved
  OBVIOUS
<1>1. NetworkInit => ConservedInv
  BY ConservedStart DEF ConservedInv
<1>2. ConservedInv /\ [NetworkNext]_networkVars => ConservedInv'
  <2> SUFFICES ASSUME ConservedInv, [NetworkNext]_networkVars, ~late', ~crossed'
               PROVE  Conserved'
    BY DEF ConservedInv
  <2>1. CASE NetworkNext
    <3>1. Conserved
      BY <2>1, NetworkFlags DEF ConservedInv
    <3> QED BY <2>1, <3>1, ConservedStep
  <2>2. CASE UNCHANGED networkVars
    <3>1. Conserved
      BY <2>2 DEF ConservedInv, networkVars, truthVars
    <3> QED BY <2>2, <3>1 DEF Conserved, NetworkTypes, NetworkOrder, NetworkSums, InOrder, Past, SameConn, Answering,
             SumsOf, ClosedSum, ToldTo, networkVars, truthVars, kernelVars
  <2> QED BY <2>1, <2>2
<1>3. ConservedInv => BytesConserved
  BY ConservedNow DEF ConservedInv, BytesConserved
<1> QED BY <1>1, <1>2, <1>3, PTL DEF NetworkSpec

-----------------------------------------------------------------------------
(* NeverOverReported: one connection only, which may expire while it is read. *)

\* The connection is in the kernel, in the batch or closed, with all the bytes.
One ==
    /\ opened = 0 => bytes = 0 /\ ~kernel.present
    /\ opened <= 1
    /\ kernel.present => kernel.sent = bytes /\ kernel.epoch = bytes /\ batched = <<>>
    /\ Len(batched) <= 1
    /\ \A k \in DOMAIN batched : batched[k].sent = bytes /\ batched[k].epoch = bytes /\ opened = 1
    /\ caller.read.present => caller.read.sent <= bytes /\ caller.read.epoch <= bytes /\ opened = 1
    /\ \A c \in NsClients : nsClients[c].present /\ nsClients[c].closed.present =>
          /\ nsClients[c].closed.sent = bytes /\ nsClients[c].closed.epoch = bytes
          /\ ~kernel.present /\ batched = <<>> /\ opened = 1

\* There may be something left to tell the client.
Live(c) ==
    opened = 0 \/ kernel.present \/ batched # <<>> \/ nsClients[c].closed.present \/ caller.read.present
OverOf(c) ==
    /\ ToldTo(c) <= bytes /\ reported[c] + before[c] <= bytes
    /\ caller.read.present => ToldTo(c) <= caller.read.sent
    /\ Answering /\ ~caller.read.present /\ kernel.present => ToldTo(c) = 0
    /\ Live(c) => reported[c] + before[c] <= ToldTo(c)
Over == NetworkTypes /\ One /\ \A c \in NsClients : nsClients[c].present => OverOf(c)

LEMMA OneBatch ==
    ASSUME NetworkTypes, One
    PROVE  /\ InOrder /\ opened \in Nat /\ bytes \in Nat
           /\ batched # <<>> => /\ DOMAIN batched = {1} /\ Len(batched) = 1 /\ batched[1] \in Conns
                                /\ SentBy(batched) = bytes
                                /\ RemoveAt(batched, 1) = <<>> /\ ~kernel.present /\ opened = 1
                                /\ batched[1].sent = bytes /\ batched[1].epoch = bytes
                                /\ \A c \in NsClients : nsClients[c].present => ~nsClients[c].closed.present
<1>1. batched \in Seq(Conns) /\ opened \in Nat /\ bytes \in Nat /\ Counted
  BY NetworkNumbers DEF NetworkTypes
<1>2. Len(batched) \in Nat /\ DOMAIN batched = 1..Len(batched) /\ Len(batched) <= 1
  BY <1>1 DEF One
<1>3. \A j, k \in DOMAIN batched : ~(j < k)
  BY <1>2
<1>4. batched = <<>> => DOMAIN batched = {}
  BY EmptySeq
<1>5. \A c \in NsClients : nsClients[c].present /\ nsClients[c].closed.present => batched = <<>>
  BY DEF One
<1>6. InOrder
  BY <1>3, <1>4, <1>5 DEF InOrder, Later, After
<1>7. ASSUME batched # <<>>
      PROVE  /\ DOMAIN batched = {1} /\ Len(batched) = 1 /\ batched[1] \in Conns /\ SentBy(batched) = bytes
             /\ RemoveAt(batched, 1) = <<>>
  <2>1. Len(batched) = 1
    BY <1>1, <1>2, <1>7, EmptySeq
  <2>2. DOMAIN batched = {1}
    BY <1>2, <2>1
  <2>3. 1 \in DOMAIN batched
    BY <2>2
  <2>4. RemoveAt(batched, 1) \in Seq(Conns) /\ batched[1] \in Conns
        /\ SentBy(batched) = batched[1].sent + SentBy(RemoveAt(batched, 1))
    BY <1>1, <2>3, BatchFirst
  <2>5. Len(RemoveAt(batched, 1)) = 0
    <3>1. Len(RemoveAt(batched, 1)) = Len(batched) - 1
      BY <1>1, <2>3, RemoveAtFacts
    <3> QED BY <2>1, <3>1
  <2>6. RemoveAt(batched, 1) = <<>>
    BY <2>4, <2>5, EmptySeq
  <2>7. SentBy(<<>>) = 0
    <3>1. <<>> \in Seq(Conns) /\ DOMAIN <<>> = {}
      BY EmptySeq
    <3> QED BY <3>1, BatchSums DEF SentBy
  <2>8. batched[1].sent = bytes
    BY <2>3 DEF One
  <2>9. SentBy(batched) = bytes
    BY <1>1, <2>4, <2>6, <2>7, <2>8
  <2> QED BY <2>1, <2>2, <2>4, <2>6, <2>9
<1>8. ASSUME batched # <<>>
      PROVE  /\ ~kernel.present /\ opened = 1 /\ batched[1].sent = bytes /\ batched[1].epoch = bytes
             /\ \A c \in NsClients : nsClients[c].present => ~nsClients[c].closed.present
  <2>1. 1 \in DOMAIN batched
    BY <1>7, <1>8
  <2> QED BY <1>8, <2>1 DEF One
<1> QED BY <1>1, <1>6, <1>7, <1>8

LEMMA TrafficOver ==
    ASSUME Over, Traffic, opened' <= 1, NetworkTypes'
    PROVE  Over'
<1>1. Counted /\ NetworkTypes /\ One /\ bytes \in Nat /\ opened \in Nat /\ opened <= 1
  BY NetworkNumbers DEF Over, Counted, One
<1>2. UNCHANGED <<batched, nsClients, caller, reported, before>> /\ bytes' = bytes + 1
  BY DEF Traffic, truthVars
<1>3. /\ kernel'.present /\ kernel'.sent = bytes + 1 /\ kernel'.epoch = bytes + 1 /\ opened' = 1
      /\ kernel.present \/ opened = 0
  <2>1. CASE kernel.present
    <3>1. kernel \in Conns /\ kernel.sent = bytes /\ opened = 1
      <4>1. kernel.sent = bytes /\ opened # 0
        BY <1>1, <2>1 DEF One
      <4>2. kernel \in Conns
        BY <1>1, <2>1, ConnFacts DEF NetworkTypes
      <4> QED BY <1>1, <4>1, <4>2
    <3>2. kernel' = [kernel EXCEPT !.sent = @ + 1, !.epoch = bytes + 1] /\ opened' = opened
      BY <2>1 DEF Traffic
    <3>3. kernel'.present /\ kernel'.sent = kernel.sent + 1 /\ kernel'.epoch = bytes + 1
      BY ONLY <3>1, <3>2 DEF Conns
    <3> QED BY <2>1, <3>1, <3>2, <3>3
  <2>2. CASE ~kernel.present
    <3>1. kernel' = Conn(1, 1, bytes + 1) /\ opened' = opened + 1
      BY <2>2 DEF Traffic
    <3>2. kernel'.present /\ kernel'.sent = 1 /\ kernel'.epoch = bytes + 1
      BY <3>1 DEF Conn
    <3>3. opened = 0 /\ opened' = 1
      BY <1>1, <3>1
    <3>4. bytes + 1 = 1
      BY <1>1, <3>3 DEF One
    <3> QED BY <3>2, <3>3, <3>4
  <2> QED BY <2>1, <2>2
<1>4. batched = <<>> /\ (\A c \in NsClients : nsClients[c].present => ~nsClients[c].closed.present)
      /\ (opened = 0 => bytes = 0 /\ ~caller.read.present)
  <2>1. batched = <<>>
    <3>1. opened = 0 => ~(opened = 1)
      OBVIOUS
    <3> QED BY <1>1, <1>3, <3>1, OneBatch DEF One
  <2> QED BY <1>1, <1>3, <2>1 DEF One
<1>5. DOMAIN batched = {} /\ Len(batched) <= 1
  BY <1>1, <1>4, EmptySeq DEF One
<1>6. caller.read.present => caller.read.sent <= bytes + 1 /\ caller.read.epoch <= bytes + 1
  BY <1>1 DEF One, Counted
<1>7. One'
  BY <1>2, <1>3, <1>4, <1>5, <1>6 DEF One
<1>8. ASSUME NEW c \in NsClients, nsClients[c].present
      PROVE  OverOf(c)'
  <2> DEFINE t == Told(nsClients[c].stats)
             r == reported[c] + before[c]
  <2>1. t \in Nat /\ r \in Int
    BY <1>1, <1>8 DEF Counted, ToldTo
  <2>2. /\ t <= bytes /\ r <= bytes /\ (caller.read.present => t <= caller.read.sent)
        /\ (Answering /\ ~caller.read.present /\ kernel.present => t = 0)
        /\ (Live(c) => r <= t)
    BY <1>8 DEF Over, OverOf, ToldTo
  <2>3. Live(c)
    BY <1>3 DEF Live
  <2> HIDE DEF t, r
  <2>4. t <= bytes + 1 /\ r <= bytes + 1 /\ r <= t /\ (opened = 0 => t = 0)
    BY <1>1, <1>4, <2>1, <2>2, <2>3
  <2>5. Answering /\ ~caller.read.present => t = 0
    BY <1>3, <2>2, <2>4
  <2>6. (Answering' <=> Answering) /\ Told(nsClients'[c].stats) = t /\ reported'[c] + before'[c] = r
    BY <1>2 DEF Answering, t, r
  <2> QED BY <1>2, <2>2, <2>4, <2>5, <2>6 DEF OverOf, ToldTo
<1> QED BY <1>2, <1>7, <1>8 DEF Over

\* Steps that leave the bytes alone, and let something be told only if there was something.
LEMMA OverKept ==
    ASSUME Over, NetworkTypes', One', UNCHANGED <<bytes, reported, before>>,
           \A c \in NsClients : nsClients'[c].present =>
              /\ nsClients[c].present /\ nsClients'[c].stats = nsClients[c].stats
              /\ Live(c)' => Live(c),
           caller'.read = caller.read, Answering' /\ kernel'.present => Answering /\ kernel.present
    PROVE  Over'
<1>1. ASSUME NEW c \in NsClients, nsClients'[c].present
      PROVE  OverOf(c)'
  <2>1. nsClients[c].present /\ OverOf(c) /\ nsClients'[c].stats = nsClients[c].stats /\ (Live(c)' => Live(c))
    BY <1>1 DEF Over
  <2> QED BY <2>1 DEF OverOf, ToldTo
<1> QED BY <1>1 DEF Over

LEMMA CloseOver ==
    ASSUME Over, TCPClose, NetworkTypes'
    PROVE  Over'
<1>1. Counted /\ NetworkTypes /\ One /\ bytes \in Nat /\ opened \in Nat
  BY NetworkNumbers DEF Over, Counted
<1>2. /\ UNCHANGED <<bytes, opened, nsClients, caller, reported, before>>
      /\ kernel.present /\ kernel' = None /\ batched' = Append(batched, kernel)
  BY DEF TCPClose, truthVars
<1>3. kernel \in Conns /\ kernel.sent = bytes /\ kernel.epoch = bytes /\ batched = <<>> /\ opened = 1
  <2>1. kernel \in Conns
    BY <1>1, <1>2, ConnFacts DEF NetworkTypes
  <2>2. kernel.sent = bytes /\ kernel.epoch = bytes /\ batched = <<>> /\ opened # 0 /\ opened <= 1
    BY <1>1, <1>2 DEF One
  <2> QED BY <1>1, <2>1, <2>2
<1>4. Len(batched') = 1 /\ DOMAIN batched' = {1} /\ batched'[1] = kernel
  BY <1>2, <1>3
<1>5. ~kernel'.present
  BY <1>2, ConnFacts
<1>6. One'
  BY <1>1, <1>2, <1>3, <1>4, <1>5 DEF One
<1>7. \A c \in NsClients : Live(c)
  BY <1>2 DEF Live
<1> QED BY <1>2, <1>5, <1>6, <1>7, OverKept

LEMMA StoreOver ==
    ASSUME Over, StoreClosedConnection, NetworkTypes'
    PROVE  Over'
<1>1. Counted /\ NetworkTypes /\ One
  BY NetworkNumbers DEF Over
<1>2. PICK i \in DOMAIN batched : nsClients' = Stored(nsClients, batched[i]) /\ batched' = RemoveAt(batched, i)
  BY DEF StoreClosedConnection
<1>3. UNCHANGED <<kernel, bytes, opened, caller, reported, before>>
  BY DEF StoreClosedConnection
<1>4. batched # <<>>
  BY <1>2, EmptySeq
<1>5. /\ DOMAIN batched = {1} /\ batched[1] \in Conns /\ RemoveAt(batched, 1) = <<>> /\ ~kernel.present /\ opened = 1
      /\ batched[1].sent = bytes /\ batched[1].epoch = bytes
      /\ \A c \in NsClients : nsClients[c].present => ~nsClients[c].closed.present
  BY <1>1, <1>4, OneBatch
<1>6. nsClients' = Stored(nsClients, batched[1]) /\ batched' = <<>>
  BY <1>2, <1>5
<1> DEFINE x == batched[1]
<1>7. \A c \in NsClients : /\ nsClients'[c].present <=> nsClients[c].present
                           /\ nsClients[c].present => nsClients'[c].stats = nsClients[c].stats /\ nsClients'[c].closed = x
  <2>1. nsClients \in [NsClients -> Clients] /\ x \in Conns /\ nsClients' = Stored(nsClients, x)
    BY <1>1, <1>5, <1>6 DEF NetworkTypes
  <2> HIDE DEF x
  <2> QED BY <1>5, <2>1, StoreFacts
<1>8. One'
  <2>1. DOMAIN batched' = {} /\ Len(batched') <= 1
    BY <1>6, EmptySeq
  <2> QED BY <1>1, <1>3, <1>5, <1>6, <1>7, <2>1 DEF One
<1>9. \A c \in NsClients : Live(c)
  BY <1>4 DEF Live
<1>10. ~kernel'.present /\ caller' = caller
  BY <1>3, <1>5
<1> QED BY <1>3, <1>7, <1>8, <1>9, <1>10, OverKept

LEMMA FlushOver ==
    ASSUME Over, FlushIdle, NetworkTypes'
    PROVE  Over'
<1>1. Counted /\ NetworkTypes /\ One /\ InOrder
  BY NetworkNumbers, OneBatch DEF Over
<1>2. /\ UNCHANGED <<kernel, bytes, opened, reported, before>> /\ caller.step = "flush"
      /\ caller' = [caller EXCEPT !.step = "merge"]
  BY DEF FlushIdle, truthVars
<1>3. caller'.read = caller.read /\ Answering
  BY <1>1, <1>2 DEF NetworkTypes, Calls, Answering
<1> DEFINE f == FoldLeft(Stored, nsClients, batched)
<1>4. CASE nsClients' = f /\ batched' = <<>> /\ batched # <<>>
  <2>1. /\ Len(batched) = 1 /\ ~kernel.present /\ opened = 1
        /\ batched[1].sent = bytes /\ batched[1].epoch = bytes /\ SentBy(batched) = bytes /\ bytes \in Nat
        /\ \A c \in NsClients : nsClients[c].present => ~nsClients[c].closed.present
    BY <1>1, <1>4, OneBatch
  <2>2. \A c \in NsClients :
           /\ f[c].present <=> nsClients[c].present
           /\ nsClients[c].present =>
                /\ f[c].stats = nsClients[c].stats /\ f[c].closed \in MaybeConn
                /\ SentOf(f[c].closed) = SentOf(nsClients[c].closed) + SentBy(batched)
                /\ f[c].closed.present /\ f[c].closed.epoch = batched[Len(batched)].epoch
    BY <1>1, <1>4, FlushFacts
  <2> HIDE DEF f
  <2>3. ASSUME NEW c \in NsClients, nsClients[c].present
        PROVE  f[c].closed.sent = bytes /\ f[c].closed.epoch = bytes
    <3>1. SentOf(nsClients[c].closed) = 0 /\ SentOf(f[c].closed) = f[c].closed.sent
      BY <2>1, <2>2, <2>3 DEF SentOf
    <3> QED BY <2>1, <2>2, <2>3, <3>1
  <2>4. DOMAIN batched' = {} /\ Len(batched') <= 1
    BY <1>4, EmptySeq
  <2>5. One'
    BY <1>1, <1>2, <1>3, <1>4, <2>1, <2>2, <2>3, <2>4 DEF One
  <2>6. \A c \in NsClients : Live(c)
    BY <1>4 DEF Live
  <2> QED BY <1>2, <1>3, <1>4, <2>1, <2>2, <2>5, <2>6, OverKept
<1>5. ASSUME batched' = batched,
             \A c \in NsClients :
                /\ nsClients'[c].present <=> nsClients[c].present
                /\ nsClients[c].present => /\ nsClients'[c].stats = nsClients[c].stats
                                           /\ nsClients'[c].closed = nsClients[c].closed
      PROVE  Over'
  <2>1. One'
    BY <1>1, <1>2, <1>3, <1>5 DEF One
  <2>2. \A c \in NsClients : nsClients'[c].present => (Live(c)' => Live(c))
    BY <1>2, <1>3, <1>5 DEF Live
  <2> HIDE DEF f
  <2> QED BY <1>2, <1>3, <1>5, <2>1, <2>2, OverKept
<1>6. CASE nsClients' = f /\ batched' = <<>> /\ batched = <<>>
  <2>1. \A c \in NsClients : /\ f[c].present <=> nsClients[c].present
                             /\ nsClients[c].present => f[c].stats = nsClients[c].stats /\ f[c].closed = nsClients[c].closed
    BY <1>1, <1>6, FlushFacts
  <2> HIDE DEF f
  <2> QED BY <1>5, <1>6, <2>1
<1>7. CASE UNCHANGED <<nsClients, batched>>
  BY <1>5, <1>7
<1> QED BY <1>4, <1>6, <1>7 DEF FlushIdle

LEMMA RemoveOver ==
    ASSUME Over, NetworkTypes', NEW d \in NsClients, RemoveClient(d)
    PROVE  Over'
<1>1. NetworkTypes /\ One
  BY DEF Over
<1>2. UNCHANGED <<kernel, batched, bytes, opened, caller, reported, before>>
  BY DEF RemoveClient, kernelVars, truthVars
<1>3. \A c \in NsClients : nsClients'[c].present => nsClients[c].present /\ nsClients'[c] = nsClients[c]
  <2>1. nsClients' = [nsClients EXCEPT ![d] = None] /\ nsClients \in [NsClients -> Clients]
    BY <1>1 DEF RemoveClient, NetworkTypes
  <2> QED BY <2>1, ConnFacts
<1>4. One'
  BY <1>1, <1>2, <1>3 DEF One
<1>5. \A c \in NsClients : nsClients'[c].present => (Live(c)' => Live(c))
  BY <1>2, <1>3 DEF Live
<1>6. Answering' => Answering
  BY <1>2 DEF Answering
<1> QED BY <1>2, <1>3, <1>4, <1>5, <1>6, OverKept

LEMMA ExpireOver ==
    ASSUME Over, RemoveEntries, NetworkTypes'
    PROVE  Over'
<1>1. Counted /\ NetworkTypes /\ One
  BY NetworkNumbers DEF Over
<1>2. /\ UNCHANGED <<batched, bytes, opened, reported, before>> /\ caller.step = "remove"
      /\ caller' = [caller EXCEPT !.step = "flush"] /\ kernel' = None
      /\ nsClients' = IF kernel.present THEN WithoutStats(nsClients) ELSE nsClients
  BY DEF RemoveEntries
<1>3. caller'.read = caller.read /\ ~caller.read.present /\ ~kernel'.present
  BY <1>1, <1>2, ConnFacts DEF NetworkTypes, Calls
<1>4. CASE kernel.present
  <2>1. \A c \in NsClients : /\ nsClients'[c].present <=> nsClients[c].present
                             /\ nsClients[c].present => nsClients'[c].stats = None /\ nsClients'[c].closed = nsClients[c].closed
    <3>1. nsClients' = WithoutStats(nsClients) /\ nsClients \in [NsClients -> Clients]
      BY <1>1, <1>2, <1>4 DEF NetworkTypes
    <3> QED BY <3>1, WithoutFacts
  <2>2. batched = <<>> /\ opened # 0 /\ \A c \in NsClients : nsClients[c].present => ~nsClients[c].closed.present
    BY <1>1, <1>4 DEF One
  <2>3. One'
    BY <1>1, <1>2, <1>3, <2>1, <2>2 DEF One
  <2>4. ASSUME NEW c \in NsClients, nsClients'[c].present
        PROVE  OverOf(c)'
    <3>1. ~Live(c)'
      BY <1>2, <1>3, <2>1, <2>2, <2>4 DEF Live
    <3>2. Told(nsClients'[c].stats) = 0 /\ bytes \in Nat /\ 0 <= bytes
      BY <1>1, <2>1, <2>4, StatsFacts DEF Counted
    <3>3. reported[c] + before[c] <= bytes
      BY <2>1, <2>4 DEF Over, OverOf
    <3> QED BY <1>2, <1>3, <3>1, <3>2, <3>3 DEF OverOf, ToldTo
  <2> QED BY <2>3, <2>4 DEF Over
<1>5. CASE ~kernel.present
  <2>1. nsClients' = nsClients
    BY <1>2, <1>5
  <2>2. One'
    BY <1>1, <1>2, <1>3, <1>5, <2>1 DEF One
  <2>3. \A c \in NsClients : Live(c)' => Live(c)
    BY <1>2, <1>3, <2>1 DEF Live
  <2> QED BY <1>2, <1>3, <2>1, <2>2, <2>3, OverKept
<1> QED BY <1>4, <1>5

LEMMA ReadOver ==
    ASSUME Over, NetworkTypes', NEW d \in NsClients, ReadMap(d)
    PROVE  Over'
<1>1. Counted /\ NetworkTypes /\ One
  BY NetworkNumbers DEF Over
<1>2. UNCHANGED <<kernel, batched, bytes, opened, nsClients, reported, before>>
  BY DEF ReadMap, kernelVars, truthVars
<1>3. PICK expired \in {FALSE, kernel.present} :
          caller' = [client |-> d, step |-> IF expired THEN "remove" ELSE "flush",
                     read |-> IF expired THEN None ELSE kernel, nth |-> opened]
  BY DEF ReadMap
<1>4. /\ caller'.read.present => caller'.read = kernel /\ kernel.present
      /\ Answering' /\ ~caller'.read.present => ~kernel.present
  <2>1. CASE expired
    <3>1. caller'.step = "remove" /\ caller'.read = None
      BY <1>3, <2>1
    <3> QED BY <3>1, ConnFacts DEF Answering
  <2>2. CASE ~expired
    <3>1. caller'.read = kernel
      BY <1>3, <2>2
    <3> QED BY <3>1
  <2> QED BY <2>1, <2>2
<1>5. caller'.read.present => caller'.read.sent = bytes /\ caller'.read.epoch = bytes /\ opened = 1
  <2>1. opened = 0 \/ opened = 1
    BY <1>1 DEF One, Counted
  <2> QED BY <1>1, <1>4, <2>1 DEF One
<1>6. One'
  <2>1. bytes <= bytes
    BY <1>1 DEF Counted
  <2> QED BY <1>1, <1>2, <1>5, <2>1 DEF One
<1>7. ASSUME NEW c \in NsClients, nsClients[c].present
      PROVE  OverOf(c)'
  <2>1. OverOf(c)
    BY <1>7 DEF Over
  <2>2. Live(c)' => Live(c)
    BY <1>2, <1>4 DEF Live
  <2> QED BY <1>2, <1>4, <1>5, <2>1, <2>2 DEF OverOf, ToldTo
<1> QED BY <1>2, <1>6, <1>7 DEF Over

\* What the client is told is at most what is left of the connection.
LEMMA OverAnswer ==
    ASSUME Over, Connections, ~late'
    PROVE  LET closed == Asking.closed
               t == Told(Asking.stats)
               n == SentOf(caller.read)
           IN /\ batched = <<>> /\ t \in Nat /\ t <= bytes /\ n \in Nat /\ n <= bytes
              /\ Answer.sent \in Nat /\ Answer.stats \in MaybeStats
              /\ closed.present => /\ Answer.sent <= bytes - t /\ Told(Kept) <= bytes
                                   /\ ~kernel.present /\ opened = 1 /\ nsClients[caller.client].present
              /\ ~closed.present /\ caller.read.present => Answer.sent <= n - t /\ Told(Kept) = n
              /\ ~closed.present /\ ~caller.read.present => Answer.sent = 0 /\ Told(Kept) = 0
<1> DEFINE d == caller.client
           r == caller.read
           cl == Asking
           t == Told(cl.stats)
           n == SentOf(r)
           u == MergeConnections(cl, r)
<1>1. Counted /\ NetworkTypes /\ One
  BY NetworkNumbers DEF Over
<1>2. batched = <<>> /\ caller.step = "merge"
  <2>1. caller.step = "merge" /\ late' = (late \/ batched # <<>>)
    BY DEF Connections
  <2> QED BY <2>1
<1>3. d \in NsClients /\ bytes \in Nat /\ r \in MaybeConn
  BY <1>1, <1>2 DEF NetworkTypes, Counted
<1>4. n \in Nat /\ n <= bytes /\ (r.present => n = r.sent /\ r.epoch \in Nat /\ r.epoch <= bytes)
  <2>1. CASE r.present
    BY <1>1, <2>1 DEF One, Counted
  <2>2. CASE ~r.present
    BY <1>3, <2>2 DEF SentOf
  <2> QED BY <2>1, <2>2
<1>5. /\ cl \in Clients /\ cl.present /\ t \in Nat /\ t <= bytes
      /\ r.present => t <= n
      /\ cl.closed.present => /\ cl.closed.sent = bytes /\ cl.closed.epoch = bytes /\ ~kernel.present /\ opened = 1
                              /\ nsClients[d].present
  <2>1. CASE nsClients[d].present
    <3>1. cl = nsClients[d] /\ cl \in Clients /\ cl.present
      BY <1>1, <1>3, <2>1 DEF NetworkTypes, Asking
    <3>2. t \in Nat
      BY <1>1, <1>3, <2>1, <3>1 DEF Counted, ToldTo
    <3>3. t <= bytes /\ (r.present => t <= r.sent)
      <4>1. OverOf(d)
        BY <1>3, <2>1 DEF Over
      <4> QED BY <3>1, <4>1 DEF OverOf, ToldTo
    <3>4. cl.closed.present => cl.closed.sent = bytes /\ cl.closed.epoch = bytes /\ ~kernel.present /\ opened = 1
      BY <1>1, <1>3, <2>1, <3>1 DEF One
    <3> QED BY <1>4, <2>1, <3>1, <3>2, <3>3, <3>4
  <2>2. CASE ~nsClients[d].present
    <3>1. cl = ClientState(None, None) /\ None \in MaybeStats /\ None \in MaybeConn /\ Told(None) = 0
      BY <2>2, StatsFacts DEF MaybeConn, Asking
    <3> HIDE DEF cl
    <3>2. cl \in Clients /\ cl.present /\ cl.stats = None /\ cl.closed = None
      BY <3>1, ClientFacts
    <3>3. ~None.present /\ t = 0
      BY <3>1, <3>2, ConnFacts
    <3> QED BY <1>3, <1>4, <3>2, <3>3
  <2> QED BY <2>1, <2>2
<1>6. cl.stats \in MaybeStats /\ cl.closed \in MaybeConn
  BY <1>5, ClientFacts
<1>7. u = Answer
  BY DEF Answer
<1>8. Kept = IF r.present THEN u.stats ELSE None
  BY DEF Kept, Answer
<1> HIDE DEF cl, r
<1>9. CASE cl.closed.present
  <2>1. cl.closed \in Conns /\ SentOf(cl.closed) = bytes /\ bytes - t \in Nat
    <3>1. cl.closed \in Conns
      BY <1>6, <1>9, ConnFacts
    <3>2. SentOf(cl.closed) = cl.closed.sent
      BY <3>1, ConnFacts
    <3>3. bytes - t \in Nat
      <4> HIDE DEF t
      <4> QED BY <1>3, <1>5
    <3> QED BY <1>5, <1>9, <3>1, <3>2, <3>3
  <2>2. CASE r.present
    <3>1. ~(cl.closed.epoch < r.epoch)
      BY <1>3, <1>4, <1>5, <1>9, <2>2
    <3>2. u.sent \in Nat /\ u.sent <= bytes - t /\ u.stats \in MaybeStats
      BY <1>3, <1>5, <1>9, <3>1, MergeSame
    <3>3. u = UpdateConnWithStats(cl.stats, cl.closed)
      BY <1>9, <3>1 DEF MergeConnections
    <3>4. Told(u.stats) <= bytes
      <4>1. CASE cl.stats.present
        <5>1. u.stats = Stats(cl.closed.sent, cl.closed.est)
          BY <1>3, <1>5, <1>6, <1>9, <2>1, <3>3, <4>1, UpdateFacts
        <5>2. Told(u.stats) = cl.closed.sent
          BY <5>1, StatsFacts
        <5> QED BY <1>3, <1>5, <1>9, <5>2
      <4>2. CASE ~cl.stats.present
        <5>1. u.stats = cl.stats
          BY <3>3, <4>2 DEF UpdateConnWithStats
        <5> QED BY <1>5, <5>1
      <4> QED BY <4>1, <4>2
    <3> HIDE DEF u
    <3> QED BY <1>2, <1>3, <1>4, <1>5, <1>7, <1>8, <1>9, <2>1, <2>2, <3>2, <3>4 DEF cl, r
  <2>3. CASE ~r.present
    <3>1. SentOf(r) = 0
      BY <2>3 DEF SentOf
    <3>2. bytes + 0 = bytes
      BY <1>3
    <3>3. /\ u.sent \in Nat /\ u.stats \in MaybeStats
          /\ u.sent <= SentOf(cl.closed) + SentOf(r) - Told(cl.stats)
      BY <1>3, <1>5, <2>1, <2>3, <3>1, <3>2, MergeApart
    <3> HIDE DEF u
    <3>4. u.sent <= bytes - t
      BY <1>3, <1>5, <2>1, <3>1, <3>2, <3>3
    <3>5. Told(Kept) = 0 /\ 0 <= bytes
      BY <1>3, <1>8, <2>3, StatsFacts
    <3> QED BY <1>2, <1>3, <1>4, <1>5, <1>7, <1>9, <2>1, <2>3, <3>3, <3>4, <3>5 DEF cl, r
  <2> QED BY <2>2, <2>3
<1>10. CASE ~cl.closed.present /\ r.present
  <2>1. SentOf(cl.closed) = 0 /\ 0 + n = n /\ n - t \in Nat /\ r.est \in Nat /\ r.sent \in Nat
    <3>1. SentOf(cl.closed) = 0
      BY <1>10 DEF SentOf
    <3>2. r.est \in Nat /\ r.sent \in Nat
      BY <1>3, <1>10, ConnFacts
    <3> HIDE DEF n, t
    <3> QED BY <1>4, <1>5, <1>10, <3>1, <3>2
  <2>2. /\ u.sent \in Nat /\ u.sent <= SentOf(cl.closed) + SentOf(r) - Told(cl.stats)
        /\ u.stats \in MaybeStats /\ u.stats = Stats(r.sent, r.est)
    BY <1>3, <1>5, <1>10, <2>1, MergeApart
  <2> HIDE DEF u
  <2>3. u.sent <= n - t
    BY <2>1, <2>2
  <2>4. Told(Kept) = n
    BY <1>4, <1>8, <1>10, <2>2, StatsFacts
  <2> QED BY <1>2, <1>3, <1>4, <1>5, <1>7, <1>10, <2>1, <2>2, <2>3, <2>4 DEF cl, r
<1>11. CASE ~cl.closed.present /\ ~r.present
  <2>1. u = [sent |-> 0, est |-> 0, stats |-> cl.stats]
    BY <1>11 DEF MergeConnections
  <2> HIDE DEF u
  <2>2. u.sent = 0 /\ u.stats = cl.stats /\ 0 \in Nat
    BY <2>1
  <2>3. Told(Kept) = 0
    BY <1>8, <1>11, StatsFacts
  <2> QED BY <1>2, <1>3, <1>4, <1>5, <1>6, <1>7, <1>11, <2>2, <2>3 DEF cl, r
<1> QED BY <1>9, <1>10, <1>11

LEMMA AnswerOver ==
    ASSUME Over, Connections, ~late'
    PROVE  Over'
<1> DEFINE closed == Asking.closed
           t == Told(Asking.stats)
           n == SentOf(caller.read)
           m == Answer.sent
           k == Told(Kept)
<1>1. Counted /\ NetworkTypes /\ One /\ caller.client \in NsClients /\ bytes \in Nat
  BY NetworkNumbers DEF Over, Connections, NetworkTypes
<1> SUFFICES ASSUME NEW d \in NsClients, d = caller.client
             PROVE  Over'
  BY <1>1
<1>2. /\ batched = <<>> /\ t \in Nat /\ t <= bytes /\ n \in Nat /\ n <= bytes /\ m \in Nat /\ Answer.stats \in MaybeStats
      /\ closed.present => m <= bytes - t /\ k <= bytes /\ ~kernel.present /\ opened = 1 /\ nsClients[d].present
      /\ ~closed.present /\ caller.read.present => m <= n - t /\ k = n
      /\ ~closed.present /\ ~caller.read.present => m = 0 /\ k = 0
  BY OverAnswer
<1>3. /\ NetworkTypes' /\ UNCHANGED <<kernel, batched, bytes, opened>>
      /\ ~Answering' /\ ~caller'.read.present /\ Kept \in MaybeStats
      /\ nsClients'[d].present /\ nsClients'[d].stats = Kept /\ nsClients'[d].closed = None
      /\ reported'[d] = IF nsClients[d].present THEN reported[d] + m ELSE 0
      /\ before'[d] = IF nsClients[d].present THEN before[d]
                      ELSE IF ~kernel.present THEN bytes ELSE bytes - kernel.sent + n
      /\ \A c \in NsClients : c # d => /\ nsClients'[c] = nsClients[c]
                                       /\ reported'[c] = reported[c] /\ before'[c] = before[c]
  BY <1>1, <1>2, AnswerStep
<1>4. One'
  <2>1. \A c \in NsClients : nsClients'[c].closed.present => nsClients'[c] = nsClients[c]
    BY <1>3, ConnFacts
  <2> QED BY <1>1, <1>3, <2>1 DEF One
<1>5. k \in Nat
  BY <1>3, StatsFacts
<1>6. (opened = 0 => bytes = 0) /\ (kernel.present => kernel.sent = bytes)
  BY <1>1 DEF One
<1> DEFINE x == reported[d]
           y == before[d]
           x1 == reported'[d]
           y1 == before'[d]
<1>7. x \in Nat /\ y \in Int /\ x1 \in Nat /\ y1 \in Int
  BY <1>1, <1>3 DEF NetworkTypes
<1>8. k <= bytes /\ x1 + y1 <= bytes /\ (opened = 0 \/ kernel.present => x1 + y1 <= k)
  <2>1. CASE nsClients[d].present
    <3>1. x1 = x + m /\ y1 = y
      BY <1>3, <2>1
    <3>2. /\ x + y <= bytes /\ (caller.read.present => t <= n)
          /\ (~caller.read.present /\ kernel.present => t = 0)
          /\ (opened = 0 \/ kernel.present \/ closed.present \/ caller.read.present => x + y <= t)
      <4>1. OverOf(d) /\ Asking = nsClients[d]
        BY <2>1 DEF Over, Asking
      <4>2. Answering /\ (caller.read.present => n = caller.read.sent)
        BY DEF Connections, Answering, SentOf
      <4>3. Live(d) <=> (opened = 0 \/ kernel.present \/ closed.present \/ caller.read.present)
        BY <1>2, <4>1 DEF Live
      <4> QED BY <4>1, <4>2, <4>3 DEF OverOf, ToldTo
    <3> HIDE DEF t, n, m, k, x, y, x1, y1, closed
    <3>3. CASE closed.present
      <4>1. m <= bytes - t /\ k <= bytes /\ ~kernel.present /\ opened = 1 /\ x + y <= t
        BY <1>2, <3>2, <3>3
      <4>2. x1 + y1 <= bytes
        BY <1>1, <1>2, <1>7, <3>1, <4>1
      <4> QED BY <4>1, <4>2
    <3>4. CASE ~closed.present /\ caller.read.present
      <4>1. m <= n - t /\ k = n /\ x + y <= t
        BY <1>2, <3>2, <3>4
      <4>2. x1 + y1 <= n
        BY <1>2, <1>7, <3>1, <4>1
      <4> QED BY <1>1, <1>2, <1>7, <4>1, <4>2
    <3>5. CASE ~closed.present /\ ~caller.read.present
      <4>1. m = 0 /\ k = 0 /\ x1 + y1 = x + y
        BY <1>2, <1>7, <3>1, <3>5
      <4>2. kernel.present => x + y <= 0
        BY <3>2, <3>5
      <4>3. opened = 0 => x + y <= 0
        BY <1>6, <3>2
      <4> QED BY <1>1, <3>2, <4>1, <4>2, <4>3
    <3> QED BY <3>3, <3>4, <3>5
  <2>2. CASE ~nsClients[d].present
    <3>1. ~closed.present
      BY <1>2, <2>2
    <3>2. x1 = 0 /\ y1 = IF ~kernel.present THEN bytes ELSE bytes - kernel.sent + n
      BY <1>3, <2>2
    <3>3. ~caller.read.present => n = 0
      BY DEF SentOf
    <3> HIDE DEF t, n, m, k, x, y, x1, y1, closed
    <3>4. k = n
      BY <1>2, <3>1, <3>3
    <3>5. CASE kernel.present
      <4>1. y1 = n
        BY <1>1, <1>2, <1>6, <3>2, <3>5
      <4> QED BY <1>1, <1>2, <3>2, <3>4, <4>1
    <3>6. CASE ~kernel.present
      <4>1. x1 + y1 = bytes
        BY <1>1, <3>2, <3>6
      <4> QED BY <1>1, <1>2, <1>5, <1>6, <3>4, <3>6, <4>1
    <3> QED BY <3>5, <3>6
  <2> QED BY <2>1, <2>2
<1>9. OverOf(d)'
  <2>1. Live(d)' => opened = 0 \/ kernel.present
    BY <1>2, <1>3, ConnFacts DEF Live
  <2> HIDE DEF k
  <2> QED BY <1>3, <1>8, <2>1 DEF OverOf, ToldTo, k
<1>10. ASSUME NEW c \in NsClients, c # d, nsClients'[c].present
       PROVE  OverOf(c)'
  <2>1. nsClients'[c] = nsClients[c] /\ reported'[c] = reported[c] /\ before'[c] = before[c]
    BY <1>3, <1>10
  <2>2. OverOf(c)
    BY <1>10, <2>1 DEF Over
  <2>3. Live(c)' => Live(c)
    BY <1>3, <2>1 DEF Live
  <2> QED BY <1>3, <2>1, <2>2, <2>3 DEF OverOf, ToldTo
<1>11. \A c \in NsClients : nsClients'[c].present => OverOf(c)'
  BY <1>9, <1>10
<1> QED BY <1>3, <1>4, <1>11 DEF Over

LEMMA OverStep ==
    ASSUME Over, NetworkNext, ~late', opened' <= 1
    PROVE  Over'
<1>1. CASE Connections
  BY <1>1, AnswerOver
<1>2. CASE ~Connections
  <2>1. NetworkTypes'
    BY <1>2, OneBatch, NetworkTypesStep DEF Over
  <2>2. CASE Traffic
    BY <2>1, <2>2, TrafficOver
  <2>3. CASE TCPClose
    BY <2>1, <2>3, CloseOver
  <2>4. CASE StoreClosedConnection
    BY <2>1, <2>4, StoreOver
  <2>5. CASE PerfLost
    BY <2>5 DEF PerfLost
  <2>6. CASE RemoveEntries
    BY <2>1, <2>6, ExpireOver
  <2>7. CASE FlushIdle
    BY <2>1, <2>7, FlushOver
  <2>8. ASSUME NEW c \in NsClients, ReadMap(c)
        PROVE  Over'
    BY <2>1, <2>8, ReadOver
  <2>9. ASSUME NEW c \in NsClients, RemoveClient(c)
        PROVE  Over'
    BY <2>1, <2>9, RemoveOver
  <2> QED BY <1>2, <2>2, <2>3, <2>4, <2>5, <2>6, <2>7, <2>8, <2>9 DEF NetworkNext
<1> QED BY <1>1, <1>2

LEMMA OpenedGrows ==
    ASSUME opened \in Nat, NetworkNext
    PROVE  opened' \in Nat /\ opened <= opened'
<1>1. opened' = opened \/ opened' = opened + 1
  BY DEF NetworkNext, Traffic, TCPClose, StoreClosedConnection, PerfLost, RemoveEntries, FlushIdle, Connections,
         ReadMap, RemoveClient, kernelVars
<1> QED BY <1>1

OverInv == opened \in Nat /\ (~late /\ opened <= 1 => Over)

\* A client is never told of more bytes than one connection has sent since it came, also
\* when tcp_close and removeEntries race for the entry, whatever the clients and however
\* many bytes; counters that wrap can only hide some.
THEOREM NoByteTwice == NetworkSpec => []NeverOverReported
<1>1. NetworkInit => OverInv
  <2> SUFFICES ASSUME NetworkInit PROVE OverInv
    OBVIOUS
  <2>1. NetworkTypes
    BY ConservedStart DEF Conserved
  <2>2. /\ opened = 0 /\ bytes = 0 /\ batched = <<>> /\ ~kernel.present /\ ~caller.read.present
        /\ \A c \in NsClients : ~nsClients[c].present
    BY ConnFacts DEF NetworkInit, NoCaller
  <2>3. DOMAIN batched = {} /\ Len(batched) <= 1
    BY <2>2, EmptySeq
  <2> QED BY <2>1, <2>2, <2>3 DEF OverInv, Over, One
<1>2. OverInv /\ [NetworkNext]_networkVars => OverInv'
  <2> SUFFICES ASSUME OverInv, [NetworkNext]_networkVars
               PROVE  OverInv'
    OBVIOUS
  <2>1. CASE NetworkNext
    <3>1. opened' \in Nat /\ opened <= opened' /\ opened \in Nat
      BY <2>1, OpenedGrows DEF OverInv
    <3>2. ASSUME ~late', opened' <= 1
          PROVE  Over'
      <4>1. ~late /\ opened <= 1
        BY <2>1, <3>1, <3>2, NetworkFlags
      <4> QED BY <2>1, <3>2, <4>1, OverStep DEF OverInv
    <3> QED BY <3>1, <3>2 DEF OverInv
  <2>2. CASE UNCHANGED networkVars
    <3>1. ~late' /\ opened' <= 1 => Over
      BY <2>2 DEF OverInv, networkVars, truthVars, kernelVars
    <3>2. Over => Over'
      BY <2>2 DEF Over, NetworkTypes, One, OverOf, ToldTo, Live, Answering, networkVars, truthVars, kernelVars
    <3>3. opened' \in Nat
      BY <2>2 DEF OverInv, networkVars, kernelVars
    <3> QED BY <3>1, <3>2, <3>3 DEF OverInv
  <2> QED BY <2>1, <2>2
<1>3. OverInv => NeverOverReported
  <2> SUFFICES ASSUME OverInv, ~late, opened <= 1, NEW c \in NsClients, nsClients[c].present
               PROVE  reported[c] <= bytes - before[c]
    BY DEF NeverOverReported
  <2>1. reported[c] + before[c] <= bytes /\ NetworkTypes
    BY DEF OverInv, Over, OverOf
  <2>2. reported[c] \in Nat /\ before[c] \in Int /\ bytes \in Nat
    BY <2>1 DEF NetworkTypes
  <2> QED BY <2>1, <2>2
<1> QED BY <1>1, <1>2, <1>3, PTL DEF NetworkSpec
=============================================================================
