------------------------------- MODULE Collector -------------------------------
(***************************************************************************)
(* The collector (pkg/collector): the Collector, which autodiscovery and   *)
(* the GUI call to run and to stop checks, its Scheduler, with a goroutine *)
(* for each job queue, and its Runner, with a pool of workers.  Queues and *)
(* one-time checks hand checks to the workers over the unbuffered channel  *)
(* pending.                                                                *)
(*                                                                         *)
(* Three mutexes: c.m is held by RunCheck, shortly by StopCheck, and by    *)
(* Stop to its end; s.mu by every operation of the scheduler, and by       *)
(* stopQueues until all queues have stopped; r.m by the workers, and by    *)
(* Runner.StopCheck while it waits for the check.                          *)
(***************************************************************************)
EXTENDS JobQueue, FiniteSetsExt, SequencesExt, FiniteSets

CONSTANTS
    Checks,          \* check IDs
    OneTime,         \* the checks with an interval of 0
    Intervals,       \* the other intervals, one job queue each
    Interval,        \* the interval of each periodic check
    Buckets,         \* the number of buckets of each job queue
    Workers,         \* identities for the workers: a bound on their number
    InitialWorkers,  \* the ones NewRunner starts
    StaticNumWorkers,\* check_runners is configured: their number does not follow the checks
    MaxJobs,         \* bound on the jobs of a bucket
    Callers,         \* goroutines that call RunCheck and StopCheck
    Autodiscovery,   \* the one whose calls MetaScheduler serialises with Stop
    NoCheck, NoOne

ASSUME ChecksAssumption ==
    /\ OneTime \subseteq Checks /\ NoCheck \notin Checks
    /\ Interval \in [Checks \ OneTime -> Intervals]
    /\ Buckets \in [Intervals -> Nat \ {0}]
ASSUME ActorsAssumption ==
    /\ MaxJobs \in Nat
    /\ InitialWorkers \subseteq Workers /\ StaticNumWorkers \in BOOLEAN
    /\ Autodiscovery \in Callers
    /\ Workers \cap Callers = {} /\ NoOne \notin Workers \cup Callers

VARIABLES
    checks,               \* Collector.checks
    stop,                 \* Collector.Stop: "up", its steps, "down"
    callPc, callId,       \* StopCheck of each caller: control and argument
    checkToQueue,         \* the scheduled checks
    buckets,              \* the jobs of each bucket of each queue
    schedulingBucketIdx,
    currentBucketIdx,
    queuePc,              \* the goroutine of each queue: "off" when it is not running
    queueJobs, queueJob,  \* the jobs it has copied from the bucket, the one it is sending
    loop,                 \* the goroutine of Scheduler.Run
    smu,                  \* stopQueues holds s.mu
    enqueueing,           \* one-time checks whose goroutine waits for a worker
    cancelOneTime,        \* the channel is closed
    pendingClosed,
    workerPc, workerCheck,
    runningChecks,
    rmu,                  \* who holds r.m
    stats                 \* checks with an entry in checkStats

callVars   == <<callPc, callId>>
jobVars    == <<checkToQueue, buckets, schedulingBucketIdx>>
queueVars  == <<currentBucketIdx, queuePc, queueJobs, queueJob>>
onceVars   == <<enqueueing, cancelOneTime>>
workerVars == <<workerPc, workerCheck>>
schedVars  == <<jobVars, queueVars, loop, smu, onceVars>>
runVars    == <<pendingClosed, workerVars, runningChecks, rmu, stats>>
vars == <<checks, stop, callVars, schedVars, runVars>>

BucketsOf(q) == 0..(Buckets[q] - 1)

Init ==
    /\ checks = {}
    /\ stop = "up"
    /\ callPc = [a \in Callers |-> "idle"]
    /\ callId = [a \in Callers |-> NoCheck]
    /\ checkToQueue = {}
    /\ buckets = [q \in Intervals |-> [b \in BucketsOf(q) |-> <<>>]]
    /\ schedulingBucketIdx = [q \in Intervals |-> 0]
    /\ currentBucketIdx = [q \in Intervals |-> 0]
    /\ queuePc = [q \in Intervals |-> "off"]
    /\ queueJobs = [q \in Intervals |-> <<>>]
    /\ queueJob = [q \in Intervals |-> NoCheck]
    /\ loop = "running"
    /\ smu = FALSE
    /\ enqueueing = {}
    /\ cancelOneTime = FALSE
    /\ pendingClosed = FALSE
    /\ workerPc = [w \in Workers |-> IF w \in InitialWorkers THEN "idle" ELSE "none"]
    /\ workerCheck = [w \in Workers |-> NoCheck]
    /\ runningChecks = {}
    /\ rmu = NoOne
    /\ stats = {}

-----------------------------------------------------------------------------
(* Collector.RunCheck: c.m is held from beginning to end, so that it does   *)
(* not overlap with Stop; an ID that is in checks is refused.               *)

\* Mutant: no worker is added.
RunOnceNoWorker(c) ==
    /\ c \in OneTime
    /\ enqueueing' = enqueueing \cup {c}
    /\ UNCHANGED <<jobVars, queueVars, workerVars>>

\* Enter with an interval of 0, enqueueOnce; then AddWorker.
RunOnce(c) ==
    /\ c \in OneTime
    /\ c \notin enqueueing   \* bound: one goroutine for each check
    /\ enqueueing' = enqueueing \cup {c}
    /\ \E w \in Workers : /\ workerPc[w] = "none"
                          /\ workerPc' = [workerPc EXCEPT ![w] = "idle"]
    /\ UNCHANGED <<jobVars, queueVars, workerCheck>>

\* Workers are added, as many as the number of instances so far calls for.
UpdateNumWorkers ==
    \E added \in SUBSET {w \in Workers : workerPc[w] = "none"} :
        /\ StaticNumWorkers => added = {}
        /\ workerPc' = [w \in Workers |-> IF w \in added THEN "idle" ELSE workerPc[w]]

\* Enter: the queue is started when it is the first check of its interval.
RunPeriodic(c) ==
    /\ c \notin OneTime
    /\ LET q == Interval[c]
       IN /\ Len(buckets[q][schedulingBucketIdx[q]]) < MaxJobs
          /\ queuePc' = [queuePc EXCEPT ![q] = IF @ = "off" THEN "select" ELSE @]
          /\ buckets' = [buckets EXCEPT ![q][schedulingBucketIdx[q]] = Append(@, c)]
          /\ schedulingBucketIdx' =
                [schedulingBucketIdx EXCEPT ![q] = NextSchedulingBucket(@, Buckets[q])]
    /\ checkToQueue' = checkToQueue \cup {c}
    /\ UpdateNumWorkers
    /\ UNCHANGED <<currentBucketIdx, queueJobs, queueJob, enqueueing, workerCheck>>

RunCheck(a, c) ==
    /\ callPc[a] = "idle"
    /\ stop = "up"
    /\ c \notin checks
    /\ RunOnce(c) \/ RunPeriodic(c)
    /\ checks' = checks \cup {c}
    /\ UNCHANGED <<stop, callVars, loop, smu, cancelOneTime,
                   pendingClosed, runningChecks, rmu, stats>>

-----------------------------------------------------------------------------
(* Collector.StopCheck, step by step.                                      *)

Call(a, from, to) ==
    /\ callPc[a] = from
    /\ callPc' = [callPc EXCEPT ![a] = to]

Return(a) == callId' = [callId EXCEPT ![a] = NoCheck]

\* started(): the state is read without c.m, and Stop changes it at its end.
StopCheckBegin(a, c) ==
    /\ Call(a, "idle", "get")
    /\ stop # "down"
    /\ a = Autodiscovery => stop = "up"
    /\ callId' = [callId EXCEPT ![a] = c]
    /\ UNCHANGED <<checks, stop, schedVars, runVars>>

CollectorUnlocked == stop \in {"up", "down"}

StopCheckGet(a) ==
    /\ CollectorUnlocked
    /\ IF callId[a] \in checks THEN Call(a, "get", "scheduler") /\ UNCHANGED callId
                               ELSE Call(a, "get", "idle") /\ Return(a)
    /\ UNCHANGED <<checks, stop, schedVars, runVars>>

SchedulerIsNil == stop \in {"stopRunner", "closed", "down"}

\* c.scheduler is nil once Stop has stopped it: Cancel panics.
StopCheckScheduler(a) ==
    /\ IF SchedulerIsNil THEN Call(a, "scheduler", "panic") ELSE Call(a, "scheduler", "cancel")
    /\ UNCHANGED <<callId, checks, stop, schedVars, runVars>>

\* removeJob: the first job of the first bucket that has one.
RemoveJob(q, c) ==
    LET b == Min({i \in BucketsOf(q) : Contains(buckets[q][i], c)})
    IN [buckets EXCEPT ![q][b] = RemoveFirst(@, c)]

\* Mutant: checkToQueue keeps the check.
StopCheckCancelKeepsEntry(a) ==
    /\ Call(a, "cancel", "runner")
    /\ ~smu
    /\ buckets' = IF callId[a] \in checkToQueue THEN RemoveJob(Interval[callId[a]], callId[a]) ELSE buckets
    /\ UNCHANGED <<callId, checks, stop, checkToQueue, schedulingBucketIdx, queueVars, loop, smu,
                   onceVars, runVars>>

\* Scheduler.Cancel
StopCheckCancel(a) ==
    /\ Call(a, "cancel", "runner")
    /\ ~smu
    /\ LET c == callId[a]
       IN IF c \in checkToQueue
          THEN /\ checkToQueue' = checkToQueue \ {c}
               /\ buckets' = RemoveJob(Interval[c], c)
          ELSE UNCHANGED <<checkToQueue, buckets>>
    /\ UNCHANGED <<callId, checks, stop, schedulingBucketIdx, queueVars, loop, smu, onceVars, runVars>>

\* Runner.StopCheck: a check that is running is asked to stop, with r.m held.
StopCheckRunner(a) ==
    /\ callPc[a] = "runner"
    /\ \/ stop = "down" /\ Call(a, "runner", "panic") /\ UNCHANGED rmu
       \/ /\ stop # "down"
          /\ rmu = NoOne
          /\ IF callId[a] \in runningChecks
             THEN Call(a, "runner", "stopping") /\ rmu' = a
             ELSE Call(a, "runner", "cancelCheck") /\ UNCHANGED rmu
    /\ UNCHANGED <<callId, checks, stop, schedVars, pendingClosed, workerVars, runningChecks, stats>>

\* The check has stopped, or it did not within stopCheckTimeout and StopCheck fails.
StopCheckStopped(a) ==
    /\ \/ Call(a, "stopping", "cancelCheck") /\ UNCHANGED callId
       \/ Call(a, "stopping", "idle") /\ Return(a)
    /\ rmu' = NoOne
    /\ UNCHANGED <<checks, stop, schedVars, pendingClosed, workerVars, runningChecks, stats>>

\* cancelCheck fails on a timeout; otherwise the stats are removed.
StopCheckCancelCheck(a) ==
    /\ \/ /\ Call(a, "cancelCheck", "delete")
          /\ stats' = stats \ {callId[a]}
          /\ UNCHANGED callId
       \/ /\ Call(a, "cancelCheck", "idle")
          /\ Return(a)
          /\ UNCHANGED stats
    /\ UNCHANGED <<checks, stop, schedVars, pendingClosed, workerVars, runningChecks, rmu>>

StopCheckDelete(a) ==
    /\ Call(a, "delete", "idle")
    /\ Return(a)
    /\ CollectorUnlocked
    /\ checks' = checks \ {callId[a]}
    /\ UNCHANGED <<stop, schedVars, runVars>>

-----------------------------------------------------------------------------
(* The goroutine of a job queue: process.                                  *)

\* A tick: the jobs of the current bucket are copied.
QueueTick(q) ==
    /\ queuePc[q] = "select"
    /\ queuePc' = [queuePc EXCEPT ![q] = "jobs"]
    /\ queueJobs' = [queueJobs EXCEPT ![q] = buckets[q][currentBucketIdx[q]]]
    /\ UNCHANGED <<checks, stop, callVars, jobVars, currentBucketIdx, queueJob, loop, smu, onceVars, runVars>>

\* IsCheckScheduled: a job that was cancelled since is skipped.
QueueAsk(q) ==
    /\ queuePc[q] = "jobs"
    /\ queueJobs[q] # <<>>
    /\ ~smu
    /\ queueJobs' = [queueJobs EXCEPT ![q] = Tail(@)]
    /\ IF Head(queueJobs[q]) \in checkToQueue
       THEN /\ queuePc' = [queuePc EXCEPT ![q] = "send"]
            /\ queueJob' = [queueJob EXCEPT ![q] = Head(queueJobs[q])]
       ELSE UNCHANGED <<queuePc, queueJob>>
    /\ UNCHANGED <<checks, stop, callVars, jobVars, currentBucketIdx, loop, smu, onceVars, runVars>>

\* Sending blocks until a worker receives.
Receive(w, c) ==
    /\ workerPc[w] = "idle"
    /\ workerPc' = [workerPc EXCEPT ![w] = "received"]
    /\ workerCheck' = [workerCheck EXCEPT ![w] = c]

QueueSend(q) ==
    /\ queuePc[q] = "send"
    /\ \E w \in Workers : Receive(w, queueJob[q])
    /\ queuePc' = [queuePc EXCEPT ![q] = "jobs"]
    /\ queueJob' = [queueJob EXCEPT ![q] = NoCheck]
    /\ UNCHANGED <<checks, stop, callVars, jobVars, currentBucketIdx, queueJobs, loop, smu, onceVars,
                   pendingClosed, runningChecks, rmu, stats>>

QueueBucketDone(q) ==
    /\ queuePc[q] = "jobs"
    /\ queueJobs[q] = <<>>
    /\ queuePc' = [queuePc EXCEPT ![q] = "select"]
    /\ currentBucketIdx' = [currentBucketIdx EXCEPT ![q] = NextBucket(@, Buckets[q])]
    /\ UNCHANGED <<checks, stop, callVars, jobVars, queueJobs, queueJob, loop, smu, onceVars, runVars>>

(* The goroutines of enqueueOnce. *)

OnceSend(c) ==
    /\ c \in enqueueing
    /\ \E w \in Workers : Receive(w, c)
    /\ enqueueing' = enqueueing \ {c}
    /\ UNCHANGED <<checks, stop, callVars, jobVars, queueVars, loop, smu, cancelOneTime,
                   pendingClosed, runningChecks, rmu, stats>>

OnceCancelled(c) ==
    /\ c \in enqueueing
    /\ cancelOneTime
    /\ enqueueing' = enqueueing \ {c}
    /\ UNCHANGED <<checks, stop, callVars, jobVars, queueVars, loop, smu, cancelOneTime, runVars>>

-----------------------------------------------------------------------------
(* A worker: Runner.work.                                                  *)

WorkerStep(w, from, to) ==
    /\ workerPc[w] = from
    /\ workerPc' = [workerPc EXCEPT ![w] = to]

\* Mutant: a check that is running is run again.
WorkBeginAlways(w) ==
    /\ rmu = NoOne
    /\ WorkerStep(w, "received", "run")
    /\ runningChecks' = runningChecks \cup {workerCheck[w]}
    /\ UNCHANGED <<checks, stop, callVars, schedVars, pendingClosed, workerCheck, rmu, stats>>

WorkBegin(w) ==
    /\ rmu = NoOne
    /\ IF workerCheck[w] \in runningChecks
       THEN /\ WorkerStep(w, "received", "idle")
            /\ workerCheck' = [workerCheck EXCEPT ![w] = NoCheck]
            /\ UNCHANGED runningChecks
       ELSE /\ WorkerStep(w, "received", "run")
            /\ runningChecks' = runningChecks \cup {workerCheck[w]}
            /\ UNCHANGED workerCheck
    /\ UNCHANGED <<checks, stop, callVars, schedVars, pendingClosed, rmu, stats>>

\* check.Run returns.
WorkRan(w) ==
    /\ WorkerStep(w, "run", "ran")
    /\ UNCHANGED <<checks, stop, callVars, schedVars, pendingClosed, workerCheck, runningChecks, rmu, stats>>

WorkRemove(w) ==
    /\ rmu = NoOne
    /\ WorkerStep(w, "ran", "removed")
    /\ runningChecks' = runningChecks \ {workerCheck[w]}
    /\ UNCHANGED <<checks, stop, callVars, schedVars, pendingClosed, workerCheck, rmu, stats>>

\* r.m is taken again; a long-running check without errors or warnings has no stats.
WorkLock(w) ==
    /\ rmu = NoOne
    /\ \/ WorkerStep(w, "removed", "ask")
       \/ workerCheck[w] \in OneTime /\ WorkerStep(w, "removed", "unlock")
    /\ rmu' = w
    /\ UNCHANGED <<checks, stop, callVars, schedVars, pendingClosed, workerCheck, runningChecks, stats>>

\* Mutant: r.m is released before the stats are added.
WorkAskUnlocks(w) ==
    /\ ~smu
    /\ WorkerStep(w, "ask", IF workerCheck[w] \in checkToQueue THEN "add" ELSE "unlock")
    /\ rmu' = NoOne
    /\ UNCHANGED <<checks, stop, callVars, schedVars, pendingClosed, workerCheck, runningChecks, stats>>

\* scheduler.IsCheckScheduled
WorkAsk(w) ==
    /\ ~smu
    /\ WorkerStep(w, "ask", IF workerCheck[w] \in checkToQueue THEN "add" ELSE "unlock")
    /\ UNCHANGED <<checks, stop, callVars, schedVars, pendingClosed, workerCheck, runningChecks, rmu, stats>>

\* addWorkStats
WorkAdd(w) ==
    /\ WorkerStep(w, "add", "unlock")
    /\ stats' = stats \cup {workerCheck[w]}
    /\ UNCHANGED <<checks, stop, callVars, schedVars, pendingClosed, workerCheck, runningChecks, rmu>>

\* The worker goes back to the channel, or ends after a one-time check.
WorkUnlock(w) ==
    /\ WorkerStep(w, "unlock", IF workerCheck[w] \in OneTime THEN "none" ELSE "idle")
    /\ workerCheck' = [workerCheck EXCEPT ![w] = NoCheck]
    /\ rmu' = NoOne
    /\ UNCHANGED <<checks, stop, callVars, schedVars, pendingClosed, runningChecks, stats>>

WorkExit(w) ==
    /\ pendingClosed
    /\ WorkerStep(w, "idle", "none")
    /\ UNCHANGED <<checks, stop, callVars, schedVars, pendingClosed, workerCheck, runningChecks, rmu, stats>>

-----------------------------------------------------------------------------
(* Collector.Stop, with c.m held, and the goroutine of Scheduler.Run.      *)

\* MetaScheduler serialises Stop with autodiscovery's own calls.
\* Scheduler.Stop: s.done <- true.
StopBegin ==
    /\ stop = "up"
    /\ callPc[Autodiscovery] = "idle"
    /\ loop = "running"
    /\ stop' = "cancelOneTime"
    /\ loop' = "stopQueues"
    /\ UNCHANGED <<checks, callVars, jobVars, queueVars, smu, onceVars, runVars>>

StopCancelOneTime ==
    /\ stop = "cancelOneTime"
    /\ cancelOneTime' = TRUE
    /\ stop' = "waitOneTime"
    /\ UNCHANGED <<checks, callVars, jobVars, queueVars, loop, smu, enqueueing, runVars>>

\* Mutant: the goroutines are not waited for.
StopWaitOneTimeNot ==
    /\ stop = "waitOneTime"
    /\ stop' = "waitHalted"
    /\ UNCHANGED <<checks, callVars, schedVars, runVars>>

StopWaitOneTime ==
    /\ stop = "waitOneTime"
    /\ enqueueing = {}
    /\ stop' = "waitHalted"
    /\ UNCHANGED <<checks, callVars, schedVars, runVars>>

StopHalted ==
    /\ stop = "waitHalted"
    /\ loop = "halted"
    /\ loop' = "ended"
    /\ stop' = "stopRunner"
    /\ UNCHANGED <<checks, callVars, jobVars, queueVars, smu, onceVars, runVars>>

\* Runner.Stop
StopClosePending ==
    /\ stop = "stopRunner"
    /\ pendingClosed' = TRUE
    /\ stop' = "closed"
    /\ UNCHANGED <<checks, callVars, schedVars, workerVars, runningChecks, rmu, stats>>

\* The running checks are asked to stop, all within stopAllChecksTimeout.
StopEnd ==
    /\ stop = "closed"
    /\ rmu = NoOne
    /\ stop' = "down"
    /\ UNCHANGED <<checks, callVars, schedVars, runVars>>

StopQueuesLock ==
    /\ loop = "stopQueues"
    /\ smu' = TRUE
    /\ loop' = "stopQueue"
    /\ UNCHANGED <<checks, stop, callVars, jobVars, queueVars, onceVars, runVars>>

\* q.stop <- true: received where the goroutine selects on it.
StopQueue(q) ==
    /\ loop = "stopQueue"
    /\ queuePc[q] \in {"select", "send"}
    /\ queuePc' = [queuePc EXCEPT ![q] = "stopped"]
    /\ queueJob' = [queueJob EXCEPT ![q] = NoCheck]
    /\ queueJobs' = [queueJobs EXCEPT ![q] = <<>>]
    /\ loop' = "waitStopped"
    /\ UNCHANGED <<checks, stop, callVars, jobVars, currentBucketIdx, smu, onceVars, runVars>>

\* <-q.stopped
QueueStopped(q) ==
    /\ loop = "waitStopped"
    /\ queuePc[q] = "stopped"
    /\ queuePc' = [queuePc EXCEPT ![q] = "off"]
    /\ loop' = "stopQueue"
    /\ UNCHANGED <<checks, stop, callVars, jobVars, currentBucketIdx, queueJobs, queueJob, smu, onceVars, runVars>>

StopQueuesEnd ==
    /\ loop = "stopQueue"
    /\ \A q \in Intervals : queuePc[q] = "off"
    /\ smu' = FALSE
    /\ loop' = "halted"
    /\ UNCHANGED <<checks, stop, callVars, jobVars, queueVars, onceVars, runVars>>

-----------------------------------------------------------------------------

StopCheckStep(a) ==
    \/ StopCheckGet(a) \/ StopCheckScheduler(a) \/ StopCheckCancel(a) \/ StopCheckRunner(a)
    \/ StopCheckStopped(a) \/ StopCheckCancelCheck(a) \/ StopCheckDelete(a)
QueueStep(q) == QueueTick(q) \/ QueueAsk(q) \/ QueueBucketDone(q)
WorkerOwnStep(w) ==
    \/ WorkBegin(w) \/ WorkRemove(w) \/ WorkLock(w) \/ WorkAsk(w) \/ WorkAdd(w)
    \/ WorkUnlock(w) \/ WorkExit(w)
StopStep ==
    \/ StopCancelOneTime \/ StopWaitOneTime \/ StopHalted \/ StopClosePending \/ StopEnd
LoopStep ==
    \/ StopQueuesLock \/ StopQueuesEnd
    \/ \E q \in Intervals : StopQueue(q) \/ QueueStopped(q)

Next ==
    \/ \E a \in Callers, c \in Checks : RunCheck(a, c) \/ StopCheckBegin(a, c)
    \/ \E a \in Callers : StopCheckStep(a)
    \/ \E q \in Intervals : QueueStep(q) \/ QueueSend(q)
    \/ \E c \in Checks : OnceSend(c) \/ OnceCancelled(c)
    \/ \E w \in Workers : WorkerOwnStep(w) \/ WorkRan(w)
    \/ StopBegin
    \/ StopStep
    \/ LoopStep

Spec == Init /\ [][Next]_vars

\* Every goroutine that can run does, and one that waits with others for r.m or to
\* send on pending gets its turn: Go queues them up.
\* A periodic check returns in the end; a one-time check may run for ever, and
\* nobody has to call RunCheck, StopCheck or Stop.
Fairness ==
    /\ \A a \in Callers : WF_vars(StopCheckStep(a))
    /\ \A q \in Intervals : WF_vars(QueueStep(q)) /\ SF_vars(QueueSend(q))
    /\ \A c \in OneTime : WF_vars(OnceCancelled(c))
    /\ \A w \in Workers : /\ SF_vars(WorkerOwnStep(w))
                          /\ WF_vars(workerCheck[w] \notin OneTime /\ WorkRan(w))
    /\ WF_vars(StopStep)
    /\ WF_vars(LoopStep)

FairSpec == Spec /\ Fairness

-----------------------------------------------------------------------------
(* Properties. *)

\* The values the variables range over.
TypeOK ==
    /\ checks \subseteq Checks
    /\ stop \in {"up", "cancelOneTime", "waitOneTime", "waitHalted", "stopRunner", "closed", "down"}
    /\ callPc \in [Callers -> {"idle", "get", "scheduler", "cancel", "runner", "stopping",
                               "cancelCheck", "delete", "panic"}]
    /\ callId \in [Callers -> Checks \cup {NoCheck}]
    /\ checkToQueue \subseteq Checks \ OneTime
    /\ \A q \in Intervals : buckets[q] \in [BucketsOf(q) -> Seq(Checks)]
    /\ \A q \in Intervals : schedulingBucketIdx[q] \in BucketsOf(q) /\ currentBucketIdx[q] \in BucketsOf(q)
    /\ queuePc \in [Intervals -> {"off", "select", "jobs", "send", "stopped"}]
    /\ queueJobs \in [Intervals -> Seq(Checks)]
    /\ queueJob \in [Intervals -> Checks \cup {NoCheck}]
    /\ loop \in {"running", "stopQueues", "stopQueue", "waitStopped", "halted", "ended"}
    /\ smu \in BOOLEAN /\ cancelOneTime \in BOOLEAN /\ pendingClosed \in BOOLEAN
    /\ enqueueing \subseteq OneTime
    /\ workerPc \in [Workers -> {"none", "idle", "received", "run", "ran", "removed", "ask", "add", "unlock"}]
    /\ workerCheck \in [Workers -> Checks \cup {NoCheck}]
    /\ runningChecks \subseteq Checks
    /\ rmu \in Workers \cup Callers \cup {NoOne}
    /\ stats \subseteq Checks

\* Nobody sends on pending once it is closed (the agent would panic): Stop waits
\* for every queue and every one-time goroutine, whatever it interrupts.
NoSendOnClosed ==
    pendingClosed => enqueueing = {} /\ \A q \in Intervals : queuePc[q] = "off"

\* A check is run by one worker at a time, also when it was stopped and started
\* again while its previous run goes on.
RunsOnce ==
    \A v, w \in Workers :
        v # w /\ workerPc[v] \in {"run", "ran"} /\ workerPc[w] \in {"run", "ran"}
            => workerCheck[v] # workerCheck[w]

JobsOf(c, q) ==
    {p \in BucketsOf(q) \X (1..MaxJobs) :
        p[2] <= Len(buckets[q][p[1]]) /\ buckets[q][p[1]][p[2]] = c}

\* A scheduled check has a job in its queue, so that Cancel finds one to remove.
ScheduledHasJob == \A c \in checkToQueue : JobsOf(c, Interval[c]) # {}

\* No stats are kept for a check that StopCheck has removed: a worker that is
\* done with it late adds none, and adds none after they were removed.
NoStaleStats == stats \subseteq checks

\* A check that is scheduled is run, again and again, whatever long-running checks
\* the workers are busy with.
EventuallyRun ==
    \A c \in Checks \ OneTime :
        c \in checkToQueue ~>
            \/ \E w \in Workers : workerPc[w] = "run" /\ workerCheck[w] = c
            \/ c \notin checkToQueue
            \/ stop # "up"

-----------------------------------------------------------------------------
(* What the comments say and the code does not do. *)

\* Stop returns: all queues, and then the scheduler, are stopped in the end.
StopTerminates == stop # "up" ~> stop = "down"
=============================================================================
