---------------------------- MODULE DomainForwarder ----------------------------
(***************************************************************************)
(* The forwarder of one domain (pkg/forwarder): the submission of new      *)
(* transactions, the workers that send them, the circuit breaker of the    *)
(* endpoints (blockedEndpoints), the goroutine that retries what failed    *)
(* (handleFailedTransactions), and the stop of it all.                     *)
(*                                                                         *)
(* The retry queue is the transactionContainer, whose own module is        *)
(* TransactionContainer; here add() may drop any of its transactions, and   *)
(* nothing else happens to them.  Workers are numbered from 1; worker 0 is  *)
(* the goroutine of Stop, which sends what is left in highPrio.  Resetting  *)
(* the connections replaces an HTTP client between two transactions of a    *)
(* worker and is left out.                                                  *)
(***************************************************************************)
EXTENDS BlockedEndpoints, Sequences, FiniteSets

CONSTANTS
    Txs,               \* transactions that are submitted, each of them once
    NoTx,
    Endpoints,         \* targets
    Target,            \* GetTarget
    TxPriority,        \* GetPriority
    NumberOfWorkers,
    ChanBufferSize,    \* capacity of the three channels
    PurgeHighPrio,     \* forwarder_stop_timeout > 0
    BackoffFactor, BackoffBase, BackoffMax, RecInterval, RecoveryReset

Workers == 1..NumberOfWorkers

Breaker == NewBlockedEndpoints(BackoffFactor, BackoffBase, BackoffMax, RecInterval, RecoveryReset)

ASSUME ForwarderAssumption ==
    /\ NoTx \notin Txs
    /\ Target \in [Txs -> Endpoints]
    /\ TxPriority \in [Txs -> {0, 1}]
    /\ NumberOfWorkers \in Nat /\ ChanBufferSize \in Nat \ {0}
    /\ PurgeHighPrio \in BOOLEAN
ASSUME BackoffAssumption ==
    /\ BackoffFactor \in Nat /\ BackoffBase \in Nat /\ BackoffMax \in Nat /\ RecInterval \in Nat
    /\ RecoveryReset \in BOOLEAN
    /\ Breaker.base <= Breaker.max

VARIABLES
    submitPc, submitTx,    \* a goroutine that submits: "idle" or "checked"
    submitted,             \* the transactions that were given to the forwarder
    highPrio, lowPrio, requeuedTransaction,   \* the channels
    closed,                \* ... are closed
    retryQueue,            \* the transactions of the transactionContainer
    retrying,              \* those retryTransactions has extracted
    retryAlive,            \* handleFailedTransactions runs
    workerPc, workerTx,    \* "poll", "wait", "got", "send", "done"; worker 0: "idle"
    cancelled,             \* workers that have been told to stop
    nbError, blockedFor,   \* the circuit breaker: errors, time until it is open again
    delivered, dropped,    \* what became of the transactions
    started,               \* DefaultForwarder.internalState is Started
    domainsGone,           \* DefaultForwarder.domainForwarders has been emptied
    stopPc, stopAt,        \* domainForwarder.Stop, and the worker it is at
    panicked               \* a transaction was sent to a closed channel or a nil forwarder

submitVars  == <<submitPc, submitTx, submitted, panicked>>
chanVars    == <<highPrio, lowPrio, requeuedTransaction, closed>>
retryVars   == <<retryQueue, retrying, retryAlive>>
workerVars  == <<workerPc, workerTx, cancelled>>
breakerVars == <<nbError, blockedFor>>
endVars     == <<delivered, dropped>>
stopVars    == <<started, domainsGone, stopPc, stopAt>>
forwarderVars == <<submitVars, chanVars, retryVars, workerVars, breakerVars, endVars, stopVars>>

ForwarderInit ==
    /\ submitPc = "idle" /\ submitTx = NoTx
    /\ submitted = {}
    /\ highPrio = <<>> /\ lowPrio = <<>> /\ requeuedTransaction = <<>>
    /\ closed = FALSE
    /\ retryQueue = {} /\ retrying = {} /\ retryAlive = TRUE
    /\ workerPc = [w \in 0..NumberOfWorkers |-> IF w = 0 THEN "idle" ELSE "poll"]
    /\ workerTx = [w \in 0..NumberOfWorkers |-> NoTx]
    /\ cancelled = {}
    /\ nbError = [e \in Endpoints |-> 0]
    /\ blockedFor = [e \in Endpoints |-> 0]
    /\ delivered = {} /\ dropped = {}
    /\ started = TRUE /\ domainsGone = FALSE
    /\ stopPc = "no" /\ stopAt = 0
    /\ panicked = FALSE

HasRoom(chan) == Len(chan) < ChanBufferSize

\* transactionContainer.add, through addToTransactionContainer.
AddToContainer(t) ==
    \E drops \in SUBSET (retryQueue \cup {t}) :
        /\ retryQueue' = (retryQueue \cup {t}) \ drops
        /\ dropped' = dropped \cup drops

-----------------------------------------------------------------------------
(* Submission. *)

\* DefaultForwarder.sendHTTPTransactions reads internalState, without the mutex;
\* when the forwarder is stopped the submitter gets an error.
SubmitCheck(t) ==
    /\ submitPc = "idle" /\ ~panicked
    /\ t \notin submitted
    /\ submitted' = submitted \cup {t}
    /\ IF started THEN /\ submitPc' = "checked" /\ submitTx' = t
                       /\ UNCHANGED dropped
                  ELSE /\ dropped' = dropped \cup {t}
                       /\ UNCHANGED <<submitPc, submitTx>>
    /\ UNCHANGED <<panicked, chanVars, retryVars, workerVars, breakerVars, delivered, stopVars>>

\* domainForwarder.sendHTTPTransactions: what does not fit in highPrio goes to the
\* retry queue.  By now the channel may be closed, or the forwarder of the domain
\* gone from the map.
SubmitSend ==
    /\ submitPc = "checked"
    /\ submitPc' = "idle" /\ submitTx' = NoTx
    /\ \/ /\ closed \/ domainsGone
          /\ panicked' = TRUE
          /\ UNCHANGED <<highPrio, retryQueue, dropped>>
       \/ /\ ~closed /\ ~domainsGone
          /\ IF HasRoom(highPrio)
             THEN highPrio' = Append(highPrio, submitTx) /\ UNCHANGED <<retryQueue, dropped>>
             ELSE AddToContainer(submitTx) /\ UNCHANGED highPrio
          /\ UNCHANGED panicked
    /\ UNCHANGED <<submitted, lowPrio, requeuedTransaction, closed, retrying, retryAlive,
                   workerVars, breakerVars, delivered, stopVars>>

-----------------------------------------------------------------------------
(* Workers. *)

Take(w, t) ==
    /\ workerPc' = [workerPc EXCEPT ![w] = "got"]
    /\ workerTx' = [workerTx EXCEPT ![w] = t]

\* The first select of a worker: new transactions first, ...
PollHighPrio(w) ==
    /\ ~panicked
    /\ workerPc[w] = "poll" /\ highPrio # <<>>
    /\ Take(w, Head(highPrio))
    /\ highPrio' = Tail(highPrio)
    /\ UNCHANGED <<submitVars, lowPrio, requeuedTransaction, closed, retryVars, cancelled,
                   breakerVars, endVars, stopVars>>

\* ... its default, ...
PollNothing(w) ==
    /\ ~panicked
    /\ workerPc[w] = "poll" /\ highPrio = <<>>
    /\ workerPc' = [workerPc EXCEPT ![w] = "wait"]
    /\ UNCHANGED <<submitVars, chanVars, retryVars, workerTx, cancelled, breakerVars, endVars,
                   stopVars>>

\* Mutant: retried transactions are not waited for.
WaitHighPrioOnly(w) ==
    /\ ~panicked
    /\ workerPc[w] = "wait" /\ highPrio # <<>>
    /\ Take(w, Head(highPrio))
    /\ highPrio' = Tail(highPrio)
    /\ UNCHANGED <<submitVars, lowPrio, requeuedTransaction, closed, retryVars, cancelled,
                   breakerVars, endVars, stopVars>>

\* ... and the second select, where either channel may be chosen.
WaitTransaction(w) ==
    /\ ~panicked
    /\ workerPc[w] = "wait"
    /\ \/ /\ highPrio # <<>>
          /\ Take(w, Head(highPrio))
          /\ highPrio' = Tail(highPrio) /\ UNCHANGED lowPrio
       \/ /\ lowPrio # <<>>
          /\ Take(w, Head(lowPrio))
          /\ lowPrio' = Tail(lowPrio) /\ UNCHANGED highPrio
    /\ UNCHANGED <<submitVars, requeuedTransaction, closed, retryVars, cancelled, breakerVars,
                   endVars, stopVars>>

Blocked(e) == blockedFor[e] > 0

\* callProcess has returned; a worker that was told to stop ends.
Processed(w) ==
    /\ workerPc' = [workerPc EXCEPT ![w] =
                      IF w = 0 THEN "idle" ELSE IF w \in cancelled THEN "done" ELSE "poll"]
    /\ workerTx' = [workerTx EXCEPT ![w] = NoTx]

\* Mutant: a transaction that failed is requeued even when it is dropped.
RequeueTwice(t) ==
    IF HasRoom(requeuedTransaction)
    THEN requeuedTransaction' = Append(requeuedTransaction, t) /\ retryQueue' = retryQueue \cup {t}
         /\ UNCHANGED dropped
    ELSE dropped' = dropped \cup {t} /\ UNCHANGED <<requeuedTransaction, retryQueue>>

\* requeue(): the transaction is dropped when the channel is full.
Requeue(t) ==
    /\ IF HasRoom(requeuedTransaction)
       THEN requeuedTransaction' = Append(requeuedTransaction, t) /\ UNCHANGED dropped
       ELSE dropped' = dropped \cup {t} /\ UNCHANGED requeuedTransaction
    /\ UNCHANGED retryQueue

\* process(): a transaction for a blocked endpoint is requeued, another is sent.
Process(w) ==
    /\ ~panicked
    /\ workerPc[w] = "got"
    /\ IF Blocked(Target[workerTx[w]])
       THEN Requeue(workerTx[w]) /\ Processed(w)
       ELSE /\ workerPc' = [workerPc EXCEPT ![w] = "send"]
            /\ UNCHANGED <<requeuedTransaction, retryQueue, dropped, workerTx>>
    /\ UNCHANGED <<submitVars, highPrio, lowPrio, closed, retrying, retryAlive, cancelled,
                   breakerVars, delivered, stopVars>>

\* blockedEndpoints: the number of errors of e and the time for which it is blocked.
SetErrors(e, n) ==
    /\ nbError' = [nbError EXCEPT ![e] = n]
    /\ \E d \in BackoffDurations(Breaker, n) : blockedFor' = [blockedFor EXCEPT ![e] = d]

Close(e) == SetErrors(e, ErrorsAfterClose(Breaker, nbError[e]))

Recover(e) == SetErrors(e, ErrorsAfterRecover(Breaker, nbError[e]))

\* HTTPTransaction.Process succeeds, or the payload is refused for good (400, 403,
\* 404, 413), or cannot be retried: all the same to the circuit breaker.
SendSucceeds(w) ==
    /\ ~panicked
    /\ workerPc[w] = "send"
    /\ Recover(Target[workerTx[w]])
    /\ delivered' = delivered \cup {workerTx[w]}
    /\ Processed(w)
    /\ UNCHANGED <<submitVars, chanVars, retryVars, cancelled, dropped, stopVars>>

\* It was cancelled because the worker stops: the transaction is dropped, and this
\* counts as a success.
SendCancelled(w) ==
    /\ ~panicked
    /\ workerPc[w] = "send" /\ w \in cancelled
    /\ Recover(Target[workerTx[w]])
    /\ dropped' = dropped \cup {workerTx[w]}
    /\ Processed(w)
    /\ UNCHANGED <<submitVars, chanVars, retryVars, cancelled, delivered, stopVars>>

\* It fails: the endpoint is blocked and the transaction is requeued.
SendFails(w) ==
    /\ ~panicked
    /\ workerPc[w] = "send"
    /\ Close(Target[workerTx[w]])
    /\ Requeue(workerTx[w])
    /\ Processed(w)
    /\ UNCHANGED <<submitVars, highPrio, lowPrio, closed, retrying, retryAlive, cancelled,
                   delivered, stopVars>>

-----------------------------------------------------------------------------
(* handleFailedTransactions. *)

\* A requeued transaction is added to the retry queue.
RequeueTransaction ==
    /\ ~panicked
    /\ retryAlive /\ retrying = {}
    /\ requeuedTransaction # <<>>
    /\ AddToContainer(Head(requeuedTransaction))
    /\ requeuedTransaction' = Tail(requeuedTransaction)
    /\ UNCHANGED <<submitVars, highPrio, lowPrio, closed, retrying, retryAlive, workerVars,
                   breakerVars, delivered, stopVars>>

\* The ticker fires: retryTransactions extracts what is in memory, or one file, ...
ExtractTransactions ==
    /\ ~panicked
    /\ retryAlive /\ retrying = {}
    /\ \E ts \in SUBSET retryQueue :
          /\ ts # {}
          /\ retrying' = ts
          /\ retryQueue' = retryQueue \ ts
    /\ UNCHANGED <<submitVars, chanVars, retryAlive, workerVars, breakerVars, endVars, stopVars>>

\* ... and hands them out, those of high priority first.  What is blocked or does not
\* fit in lowPrio goes back to the retry queue.
RetryOne ==
    /\ ~panicked
    /\ \E t \in retrying :
          /\ \A u \in retrying : TxPriority[u] <= TxPriority[t]
          /\ retrying' = retrying \ {t}
          /\ IF ~Blocked(Target[t]) /\ HasRoom(lowPrio)
             THEN lowPrio' = Append(lowPrio, t) /\ UNCHANGED <<retryQueue, dropped>>
             ELSE AddToContainer(t) /\ UNCHANGED lowPrio
    /\ UNCHANGED <<submitVars, highPrio, requeuedTransaction, closed, retryAlive, workerVars,
                   breakerVars, delivered, stopVars>>

\* Time passes.
BackoffTick ==
    /\ ~panicked
    /\ \E e \in Endpoints : Blocked(e)
    /\ blockedFor' = [e \in Endpoints |-> IF Blocked(e) THEN blockedFor[e] - 1 ELSE 0]
    /\ UNCHANGED <<submitVars, chanVars, retryVars, workerVars, nbError, endVars, stopVars>>

-----------------------------------------------------------------------------
(* Stop. *)

\* DefaultForwarder.Stop: internalState first, then the domains.
StopForwarder ==
    /\ ~panicked
    /\ started
    /\ started' = FALSE
    /\ stopPc' = "retry"
    /\ UNCHANGED <<submitVars, chanVars, retryVars, workerVars, breakerVars, endVars,
                   domainsGone, stopAt>>

\* domainForwarder.Stop: handleFailedTransactions takes stopRetry in its select.
StopRetry ==
    /\ ~panicked
    /\ stopPc = "retry" /\ retrying = {}
    /\ retryAlive' = FALSE
    /\ stopPc' = "worker" /\ stopAt' = 1
    /\ UNCHANGED <<submitVars, chanVars, retryQueue, retrying, workerVars, breakerVars, endVars,
                   started, domainsGone>>

\* Mutant: the worker is not told while it sends.
StopWorkerIdle ==
    /\ ~panicked
    /\ stopPc = "worker" /\ stopAt \in Workers
    /\ workerPc' = [workerPc EXCEPT ![stopAt] = IF @ \in {"poll", "wait"} THEN "done" ELSE @]
    /\ stopPc' = "join"
    /\ UNCHANGED <<submitVars, chanVars, retryVars, workerTx, cancelled, breakerVars, endVars,
                   started, domainsGone, stopAt>>

\* Worker.Stop: the worker takes stopChan in one of its selects.
StopWorker ==
    /\ ~panicked
    /\ stopPc = "worker" /\ stopAt \in Workers
    /\ cancelled' = cancelled \cup {stopAt}
    /\ workerPc' = [workerPc EXCEPT ![stopAt] = IF @ \in {"poll", "wait"} THEN "done" ELSE @]
    /\ stopPc' = "join"
    /\ UNCHANGED <<submitVars, chanVars, retryVars, workerTx, breakerVars, endVars, started,
                   domainsGone, stopAt>>

NextWorker == stopPc' = "worker" /\ stopAt' = stopAt + 1

\* Mutant: the end of the worker is not waited for.
JoinWorkerEarly ==
    /\ ~panicked
    /\ stopPc = "join"
    /\ NextWorker
    /\ UNCHANGED <<submitVars, chanVars, retryVars, workerVars, breakerVars, endVars,
                   started, domainsGone>>

\* The worker has ended; what is left in highPrio is sent if there is time for it.
JoinWorker ==
    /\ ~panicked
    /\ stopPc = "join" /\ workerPc[stopAt] = "done"
    /\ IF PurgeHighPrio THEN stopPc' = "purge" /\ UNCHANGED stopAt ELSE NextWorker
    /\ UNCHANGED <<submitVars, chanVars, retryVars, workerVars, breakerVars, endVars,
                   started, domainsGone>>

\* Worker.Stop: the next transaction of highPrio, or none.
Purge ==
    /\ ~panicked
    /\ stopPc = "purge" /\ workerPc[0] = "idle"
    /\ \/ /\ highPrio # <<>>
          /\ Take(0, Head(highPrio))
          /\ highPrio' = Tail(highPrio)
          /\ UNCHANGED <<stopPc, stopAt>>
       \/ /\ highPrio = <<>>
          /\ NextWorker
          /\ UNCHANGED <<workerPc, workerTx, highPrio>>
    /\ UNCHANGED <<submitVars, lowPrio, requeuedTransaction, closed, retryVars, cancelled,
                   breakerVars, endVars, started, domainsGone>>

\* All the workers have ended: the channels are closed.
CloseChannels ==
    /\ ~panicked
    /\ stopPc = "worker" /\ stopAt > NumberOfWorkers
    /\ closed' = TRUE
    /\ stopPc' = "stopped"
    /\ UNCHANGED <<submitVars, highPrio, lowPrio, requeuedTransaction, retryVars, workerVars,
                   breakerVars, endVars, started, domainsGone, stopAt>>

\* DefaultForwarder.Stop returns, when the domain has stopped or after the timeout.
ForgetDomains ==
    /\ ~panicked
    /\ ~started /\ ~domainsGone
    /\ stopPc = "stopped" \/ PurgeHighPrio
    /\ domainsGone' = TRUE
    /\ UNCHANGED <<submitVars, chanVars, retryVars, workerVars, breakerVars, endVars,
                   started, stopPc, stopAt>>

-----------------------------------------------------------------------------

WorkerStep(w) ==
    \/ PollHighPrio(w) \/ PollNothing(w) \/ WaitTransaction(w)
    \/ Process(w) \/ SendSucceeds(w) \/ SendCancelled(w) \/ SendFails(w)

ForwarderStopStep == StopRetry \/ StopWorker \/ JoinWorker \/ Purge \/ CloseChannels \/ ForgetDomains

ForwarderNext ==
    \/ \E t \in Txs : SubmitCheck(t)
    \/ SubmitSend
    \/ \E w \in Workers : PollHighPrio(w) \/ PollNothing(w) \/ WaitTransaction(w)
    \/ \E w \in 0..NumberOfWorkers :
          Process(w) \/ SendSucceeds(w) \/ SendCancelled(w) \/ SendFails(w)
    \/ RequeueTransaction
    \/ ExtractTransactions
    \/ RetryOne
    \/ BackoffTick
    \/ StopForwarder
    \/ StopRetry
    \/ StopWorker
    \/ JoinWorker
    \/ Purge
    \/ CloseChannels
    \/ ForgetDomains

ForwarderSpec == ForwarderInit /\ [][ForwarderNext]_forwarderVars

\* Goroutines that can run do, requests end (they have a timeout) and time passes.
\* A select chooses at random among the channels that are ready, so none that is
\* ready again and again is ignored for ever: strong fairness for the ticker and
\* for stopRetry in handleFailedTransactions.  Of the endpoints it is assumed that
\* they do not fail for ever.
ForwarderFairness ==
    /\ WF_forwarderVars(SubmitSend)
    /\ \A w \in 0..NumberOfWorkers : WF_forwarderVars(WorkerStep(w))
    /\ SF_forwarderVars(\E w \in 0..NumberOfWorkers : SendSucceeds(w))
    /\ WF_forwarderVars(RequeueTransaction)
    /\ SF_forwarderVars(ExtractTransactions)
    /\ WF_forwarderVars(RetryOne)
    /\ WF_forwarderVars(BackoffTick)
    /\ SF_forwarderVars(StopRetry)
    /\ WF_forwarderVars(ForwarderStopStep)

-----------------------------------------------------------------------------
(* Properties. *)

\* The values the variables range over.
ForwarderTypeOK ==
    /\ submitPc \in {"idle", "checked"} /\ submitTx \in Txs \cup {NoTx}
    /\ submitted \subseteq Txs
    /\ \A chan \in {highPrio, lowPrio, requeuedTransaction} :
          chan \in Seq(Txs) /\ Len(chan) <= ChanBufferSize
    /\ closed \in BOOLEAN /\ retryAlive \in BOOLEAN /\ started \in BOOLEAN
    /\ domainsGone \in BOOLEAN /\ panicked \in BOOLEAN
    /\ retryQueue \subseteq Txs /\ retrying \subseteq Txs
    /\ workerPc \in [0..NumberOfWorkers -> {"idle", "poll", "wait", "got", "send", "done"}]
    /\ workerTx \in [0..NumberOfWorkers -> Txs \cup {NoTx}]
    /\ cancelled \subseteq Workers
    /\ nbError \in [Endpoints -> 0..Breaker.maxErrors]
    /\ blockedFor \in [Endpoints -> 0..Breaker.max]
    /\ delivered \subseteq Txs /\ dropped \subseteq Txs
    /\ stopPc \in {"no", "retry", "worker", "join", "purge", "stopped"}
    /\ stopAt \in 0..(NumberOfWorkers + 1)

\* The places where transaction t is.
Places(t) ==
    {c \in {"high", "low", "requeued"} :
        LET chan == CASE c = "high" -> highPrio [] c = "low" -> lowPrio
                      [] OTHER -> requeuedTransaction
        IN \E k \in DOMAIN chan : chan[k] = t}
    \cup {w \in {<<"worker", v>> : v \in 0..NumberOfWorkers} : workerTx[w[2]] = t}
    \cup {q \in {"queue", "retrying", "delivered", "dropped", "submit"} :
            CASE q = "queue" -> t \in retryQueue [] q = "retrying" -> t \in retrying
              [] q = "delivered" -> t \in delivered [] q = "dropped" -> t \in dropped
              [] OTHER -> submitTx = t}

\* A submitted transaction is in one place, between the submitter, the channels, the
\* workers and the retry queue: it is never sent twice at the same time, and none
\* disappears without being counted, also while the forwarder stops.
InOnePlace == ~panicked => \A t \in submitted : Cardinality(Places(t)) = 1

\* Once the channels are closed nobody is left who could send to them: the workers
\* have ended, nothing is being sent and the retry goroutine is gone.
StoppedIsQuiet ==
    closed => /\ ~retryAlive /\ retrying = {}
              /\ \A w \in 0..NumberOfWorkers : workerPc[w] \in {"done", "idle"}

\* What is submitted to a running forwarder is delivered or counted as dropped in the
\* end, if its endpoint does not fail for ever: no transaction waits in a channel or in the retry
\* queue for ever, and those that are retried are not starved by the new ones.
EventuallyDelivered ==
    \A t \in Txs : t \in submitted ~>
                       (t \in delivered \cup dropped \/ ~started \/ panicked)

\* A stop comes to its end although the workers are sending, the endpoints fail and
\* transactions are still submitted.
StopEnds == ~started ~> (stopPc = "stopped" \/ panicked)

===============================================================================
