------------------------- MODULE DomainForwarderProofs -------------------------
(* Proofs about DomainForwarder, for any transactions, endpoints, priorities, number *)
(* of workers and size of the channels.                                             *)
EXTENDS DomainForwarder, DataTheorems

AllWorkers == 0..NumberOfWorkers

-----------------------------------------------------------------------------
(* Types of what the transactions are kept in. *)

Chans == Seq(Txs)

ForwarderTypes ==
    /\ submitPc \in {"idle", "checked"} /\ submitTx \in Txs \cup {NoTx}
    /\ submitPc = "checked" <=> submitTx \in Txs
    /\ submitted \subseteq Txs
    /\ highPrio \in Chans /\ lowPrio \in Chans /\ requeuedTransaction \in Chans
    /\ retryQueue \subseteq Txs /\ retrying \subseteq Txs
    /\ workerPc \in [AllWorkers -> {"idle", "poll", "wait", "got", "send", "done"}]
    /\ workerTx \in [AllWorkers -> Txs \cup {NoTx}]
    /\ \A w \in AllWorkers : workerPc[w] \in {"got", "send"} <=> workerTx[w] # NoTx
    /\ NumberOfWorkers \in Nat

LEMMA WorkerTypes ==
    ASSUME ForwarderTypes, NEW w \in AllWorkers
    PROVE  /\ Processed(w) => /\ workerPc' \in [AllWorkers -> {"idle", "poll", "wait", "got", "send", "done"}]
                              /\ workerTx' \in [AllWorkers -> Txs \cup {NoTx}]
                              /\ \A v \in AllWorkers : workerPc'[v] \in {"got", "send"} <=> workerTx'[v] # NoTx
           /\ \A t \in Txs : Take(w, t) =>
                              /\ workerPc' \in [AllWorkers -> {"idle", "poll", "wait", "got", "send", "done"}]
                              /\ workerTx' \in [AllWorkers -> Txs \cup {NoTx}]
                              /\ \A v \in AllWorkers : workerPc'[v] \in {"got", "send"} <=> workerTx'[v] # NoTx
<1>1. NoTx \notin Txs
  BY ForwarderAssumption DEF ForwarderAssumption
<1> QED BY <1>1 DEF ForwarderTypes, Processed, Take

LEMMA ForwarderTypesStep ==
    ASSUME ForwarderTypes, [ForwarderNext]_forwarderVars
    PROVE  ForwarderTypes'
<1>0. NumberOfWorkers \in Nat /\ NoTx \notin Txs
  BY ForwarderAssumption DEF ForwarderAssumption
<1>1. \A chan \in Chans : chan # <<>> => Head(chan) \in Txs /\ Tail(chan) \in Chans
  BY HeadTail DEF Chans
<1>2. \A chan \in Chans, t \in Txs : Append(chan, t) \in Chans
  BY DEF Chans
<1>3. \A t \in Txs : AddToContainer(t) => retryQueue' \subseteq Txs
  BY DEF AddToContainer, ForwarderTypes
<1>4. \A w \in Workers : w \in AllWorkers
  BY <1>0 DEF Workers, AllWorkers
<1>5. ASSUME NEW t \in Txs, SubmitCheck(t)
      PROVE  ForwarderTypes'
  BY <1>5 DEF SubmitCheck, ForwarderTypes, chanVars, retryVars, workerVars
<1>6. CASE SubmitSend
  BY <1>0, <1>2, <1>3, <1>6 DEF SubmitSend, ForwarderTypes, workerVars
<1>7. ASSUME NEW w \in Workers, PollHighPrio(w) \/ WaitTransaction(w)
      PROVE  ForwarderTypes'
  <2>1. \E t \in Txs : Take(w, t)
    BY <1>1, <1>7 DEF PollHighPrio, WaitTransaction, ForwarderTypes
  <2>2. highPrio' \in Chans /\ lowPrio' \in Chans
    BY <1>1, <1>7 DEF PollHighPrio, WaitTransaction, ForwarderTypes
  <2>3. UNCHANGED <<submitPc, submitTx, submitted, requeuedTransaction, retryQueue, retrying>>
    BY <1>7 DEF PollHighPrio, WaitTransaction, submitVars, retryVars
  <2> QED BY <1>4, <2>1, <2>2, <2>3, WorkerTypes DEF ForwarderTypes
<1>8. ASSUME NEW w \in Workers, PollNothing(w)
      PROVE  ForwarderTypes'
  BY <1>4, <1>8 DEF PollNothing, ForwarderTypes, submitVars, chanVars, retryVars
<1>9. ASSUME NEW w \in AllWorkers, Process(w) \/ SendSucceeds(w) \/ SendCancelled(w) \/ SendFails(w)
      PROVE  ForwarderTypes'
  <2>1. workerTx[w] \in Txs
    BY <1>9 DEF Process, SendSucceeds, SendCancelled, SendFails, ForwarderTypes
  <2>2. UNCHANGED <<submitPc, submitTx, submitted, highPrio, lowPrio, retrying>>
    BY <1>9 DEF Process, SendSucceeds, SendCancelled, SendFails, submitVars, chanVars, retryVars
  <2>3. requeuedTransaction' \in Chans /\ retryQueue' \subseteq Txs
    BY <1>2, <1>9, <2>1 DEF Process, SendSucceeds, SendCancelled, SendFails, Requeue, chanVars,
                            retryVars, ForwarderTypes
  <2>4. CASE Processed(w)
    BY <2>2, <2>3, <2>4, WorkerTypes DEF ForwarderTypes
  <2>5. CASE workerPc[w] = "got" /\ workerPc' = [workerPc EXCEPT ![w] = "send"] /\ UNCHANGED workerTx
    BY <2>2, <2>3, <2>5 DEF ForwarderTypes
  <2> QED BY <1>9, <2>4, <2>5 DEF Process, SendSucceeds, SendCancelled, SendFails
<1>10. CASE RequeueTransaction
  BY <1>1, <1>3, <1>10 DEF RequeueTransaction, ForwarderTypes, submitVars, workerVars
<1>11. CASE ExtractTransactions
  BY <1>11 DEF ExtractTransactions, ForwarderTypes, submitVars, chanVars, workerVars
<1>12. CASE RetryOne
  BY <1>2, <1>3, <1>12 DEF RetryOne, ForwarderTypes, submitVars, workerVars
<1>13. CASE StopWorker
  BY <1>4, <1>13 DEF StopWorker, ForwarderTypes, submitVars, chanVars, retryVars
<1>14. CASE Purge
  <2>1. 0 \in AllWorkers
    BY <1>0 DEF AllWorkers
  <2>2. CASE highPrio # <<>> /\ Take(0, Head(highPrio)) /\ highPrio' = Tail(highPrio)
    <3>1. \E t \in Txs : Take(0, t)
      BY <1>1, <2>2 DEF ForwarderTypes
    <3> QED BY <1>1, <1>14, <2>1, <2>2, <3>1, WorkerTypes DEF Purge, ForwarderTypes, submitVars, retryVars
  <2>3. CASE UNCHANGED <<workerPc, workerTx, highPrio>>
    BY <1>14, <2>3 DEF Purge, ForwarderTypes, submitVars, retryVars
  <2> QED BY <1>14, <2>2, <2>3 DEF Purge
<1>15. CASE UNCHANGED <<submitPc, submitTx, submitted, highPrio, lowPrio, requeuedTransaction, retryQueue,
                        retrying, workerPc, workerTx>>
  BY <1>15 DEF ForwarderTypes
<1> QED BY <1>5, <1>6, <1>7, <1>8, <1>9, <1>10, <1>11, <1>12, <1>13, <1>14, <1>15
        DEF ForwarderNext, forwarderVars, submitVars, chanVars, retryVars, workerVars, BackoffTick,
            StopForwarder, StopRetry, JoinWorker, CloseChannels, ForgetDomains, AllWorkers

LEMMA ForwarderTypesInit ==
    ASSUME ForwarderInit
    PROVE  ForwarderTypes
<1>1. NumberOfWorkers \in Nat /\ NoTx \notin Txs
  BY ForwarderAssumption DEF ForwarderAssumption
<1> QED BY <1>1 DEF ForwarderInit, ForwarderTypes, Chans, AllWorkers

-----------------------------------------------------------------------------
(* The order in which Stop ends the goroutines. *)

\* Stop has ended the retry goroutine, and the workers before stopAt; the goroutine of
\* Stop itself processes a transaction only while it purges highPrio.
StopInv ==
    /\ stopPc \in {"no", "retry", "worker", "join", "purge", "stopped"}
    /\ stopAt \in Nat
    /\ stopPc \in {"worker", "join", "purge", "stopped"} =>
          /\ ~retryAlive /\ retrying = {}
          /\ \A w \in Workers : w < stopAt => workerPc[w] = "done"
    /\ stopPc \in {"join", "purge"} => stopAt \in Workers
    /\ stopPc = "purge" => workerPc[stopAt] = "done"
    /\ stopPc # "purge" => workerPc[0] = "idle"
    /\ stopPc = "stopped" => stopAt > NumberOfWorkers
    /\ closed => stopPc = "stopped"
    /\ started => stopPc = "no"

LEMMA StopStep ==
    ASSUME ForwarderTypes, StopInv, [ForwarderNext]_forwarderVars
    PROVE  StopInv'
<1>0. /\ NumberOfWorkers \in Nat /\ Workers = 1..NumberOfWorkers /\ AllWorkers = 0..NumberOfWorkers
      /\ DOMAIN workerPc = AllWorkers
  BY DEF ForwarderTypes, Workers, AllWorkers
<1>1. CASE UNCHANGED <<stopVars, closed, retryAlive, retrying, workerPc>>
  BY <1>1 DEF StopInv, stopVars
\* A worker that has ended stays so; the goroutine of Stop has something to process.
<1>2. ASSUME UNCHANGED <<stopVars, closed, retryAlive, retrying>>, NEW w \in AllWorkers, NEW p,
             workerPc' = [workerPc EXCEPT ![w] = p], workerPc[w] # "done",
             w = 0 => workerPc[w] # "idle"
      PROVE  StopInv'
  BY <1>0, <1>2 DEF StopInv, stopVars
<1>3. ASSUME NEW w \in Workers, PollHighPrio(w) \/ PollNothing(w) \/ WaitTransaction(w)
      PROVE  StopInv'
  <2>1. w \in AllWorkers /\ w # 0
    BY <1>0
  <2>2. UNCHANGED <<stopVars, closed, retryAlive, retrying>> /\ workerPc[w] # "done"
    BY <1>3 DEF PollHighPrio, PollNothing, WaitTransaction, chanVars, retryVars
  <2>3. \E p : workerPc' = [workerPc EXCEPT ![w] = p]
    BY <1>3 DEF PollHighPrio, PollNothing, WaitTransaction, Take
  <2> QED BY <1>2, <2>1, <2>2, <2>3
<1>4. ASSUME NEW w \in AllWorkers, Process(w) \/ SendSucceeds(w) \/ SendCancelled(w) \/ SendFails(w)
      PROVE  StopInv'
  <2>1. UNCHANGED <<stopVars, closed, retryAlive, retrying>> /\ workerPc[w] \in {"got", "send"}
    BY <1>4 DEF Process, SendSucceeds, SendCancelled, SendFails, chanVars, retryVars
  <2>2. \E p : workerPc' = [workerPc EXCEPT ![w] = p]
    BY <1>4 DEF Process, SendSucceeds, SendCancelled, SendFails, Processed
  <2> QED BY <1>2, <2>1, <2>2
<1>5. CASE ExtractTransactions
  BY <1>5 DEF ExtractTransactions, StopInv, stopVars, chanVars, workerVars
<1>6. CASE RetryOne
  BY <1>6 DEF RetryOne, StopInv, stopVars, workerVars
<1>7. CASE StopForwarder
  BY <1>7 DEF StopForwarder, StopInv, chanVars, retryVars, workerVars
<1>8. CASE StopRetry
  BY <1>0, <1>8 DEF StopRetry, StopInv, chanVars, workerVars
<1>9. CASE StopWorker
  <2>1. /\ stopPc = "worker" /\ stopPc' = "join" /\ stopAt \in Workers
        /\ UNCHANGED <<stopAt, closed, retryAlive, retrying, started>>
        /\ \A w \in AllWorkers : w # stopAt => workerPc'[w] = workerPc[w]
    BY <1>0, <1>9 DEF StopWorker, chanVars, retryVars
  <2>2. \A w \in Workers : w < stopAt => w \in AllWorkers /\ w # stopAt
    BY <1>0, <2>1
  <2>3. 0 \in AllWorkers /\ 0 # stopAt
    BY <1>0, <2>1
  <2> QED BY <2>1, <2>2, <2>3 DEF StopInv
<1>10. ASSUME NextWorker, stopAt \in Workers, stopPc \in {"join", "purge"}, workerPc[stopAt] = "done",
              workerPc[0] = "idle", UNCHANGED <<closed, retryAlive, retrying, workerPc, started>>
       PROVE  StopInv'
  <2>1. \A w \in Workers : w < stopAt + 1 => w < stopAt \/ w = stopAt
    BY <1>0, <1>10
  <2>2. stopPc' = "worker" /\ stopAt' = stopAt + 1 /\ stopAt + 1 \in Nat
    BY <1>0, <1>10 DEF NextWorker
  <2> QED BY <1>10, <2>1, <2>2 DEF StopInv
<1>11. CASE JoinWorker
  <2>1. /\ stopPc = "join" /\ workerPc[stopAt] = "done" /\ stopAt \in Workers /\ workerPc[0] = "idle"
        /\ UNCHANGED <<closed, retryAlive, retrying, workerPc, started>>
    BY <1>11 DEF JoinWorker, StopInv, chanVars, retryVars, workerVars
  <2>2. CASE stopPc' = "purge" /\ UNCHANGED stopAt
    BY <2>1, <2>2 DEF StopInv
  <2> QED BY <1>10, <1>11, <2>1, <2>2 DEF JoinWorker
<1>12. CASE Purge
  <2>1. /\ stopPc = "purge" /\ workerPc[stopAt] = "done" /\ stopAt \in Workers /\ workerPc[0] = "idle"
        /\ UNCHANGED <<closed, retryAlive, retrying, started>>
    BY <1>12 DEF Purge, StopInv, chanVars, retryVars
  <2>2. CASE Take(0, Head(highPrio)) /\ UNCHANGED <<stopPc, stopAt>>
    <3>1. \A w \in Workers : workerPc'[w] = workerPc[w]
      BY <1>0, <2>2 DEF Take
    <3> QED BY <2>1, <2>2, <3>1 DEF StopInv
  <2>3. CASE NextWorker /\ UNCHANGED workerPc
    BY <1>10, <2>1, <2>3
  <2> QED BY <1>12, <2>2, <2>3 DEF Purge
<1>13. CASE CloseChannels
  BY <1>13 DEF CloseChannels, StopInv, retryVars, workerVars
<1>14. CASE ForgetDomains
  BY <1>14 DEF ForgetDomains, StopInv, chanVars, retryVars, workerVars
<1>15. CASE SubmitSend
  BY <1>1, <1>15 DEF SubmitSend, workerVars
<1>16. CASE RequeueTransaction
  BY <1>1, <1>16 DEF RequeueTransaction, workerVars
<1>17. CASE BackoffTick
  BY <1>1, <1>17 DEF BackoffTick, workerVars, chanVars, retryVars
<1>18. ASSUME NEW t \in Txs, SubmitCheck(t)
       PROVE  StopInv'
  BY <1>1, <1>18 DEF SubmitCheck, workerVars, chanVars, retryVars
<1>19. CASE UNCHANGED forwarderVars
  BY <1>1, <1>19 DEF forwarderVars, workerVars, chanVars, retryVars
<1> QED BY <1>3, <1>4, <1>5, <1>6, <1>7, <1>8, <1>9, <1>11, <1>12, <1>13, <1>14, <1>15, <1>16, <1>17,
           <1>18, <1>19 DEF ForwarderNext, AllWorkers

\* When Stop has closed the channels, the retry goroutine has ended with nothing in its
\* hands, every worker has ended, and Stop itself processes nothing: nobody is left who
\* could send to a closed channel, but a submitter that was already on its way.
THEOREM StopLeavesQuiet == ForwarderSpec => []StoppedIsQuiet
<1>1. ForwarderInit => ForwarderTypes /\ StopInv
  <2> SUFFICES ASSUME ForwarderInit
               PROVE  ForwarderTypes /\ StopInv
    OBVIOUS
  <2>1. ForwarderTypes
    BY ForwarderTypesInit
  <2>2. 0 \in AllWorkers
    BY <2>1 DEF ForwarderTypes, AllWorkers
  <2>3. workerPc[0] = "idle"
    BY <2>2 DEF ForwarderInit, AllWorkers
  <2> QED BY <2>1, <2>3 DEF ForwarderInit, StopInv
<1>2. (ForwarderTypes /\ StopInv) /\ [ForwarderNext]_forwarderVars => (ForwarderTypes /\ StopInv)'
  BY ForwarderTypesStep, StopStep
<1>3. ForwarderTypes /\ StopInv => StoppedIsQuiet
  <2> SUFFICES ASSUME ForwarderTypes, StopInv, closed
               PROVE  /\ ~retryAlive /\ retrying = {}
                      /\ \A w \in 0..NumberOfWorkers : workerPc[w] \in {"done", "idle"}
    BY DEF StoppedIsQuiet
  <2>1. \A w \in 0..NumberOfWorkers : w = 0 \/ (w \in Workers /\ w < stopAt)
    BY DEF Workers, ForwarderTypes, StopInv
  <2> QED BY <2>1 DEF StopInv
<1> QED BY <1>1, <1>2, <1>3, PTL DEF ForwarderSpec

-----------------------------------------------------------------------------
(* A transaction is in one place.  The places are a function from their names to *)
(* what is in them; the workers are one place, each with another transaction.    *)

PlaceNames ==
    {"high", "low", "requeued", "worker", "queue", "retrying", "delivered", "dropped", "submit"}

Elements(chan) == {chan[k] : k \in DOMAIN chan}

Once(chan) == \A k, l \in DOMAIN chan : chan[k] = chan[l] => k = l

InWorkers(tx) == {tx[w] : w \in AllWorkers} \ {NoTx}

OnceInWorkers(tx) == \A v, w \in AllWorkers : tx[v] = tx[w] /\ tx[v] # NoTx => v = w

Located ==
    [p \in PlaceNames |->
        CASE p = "high" -> Elements(highPrio)
          [] p = "low" -> Elements(lowPrio)
          [] p = "requeued" -> Elements(requeuedTransaction)
          [] p = "worker" -> InWorkers(workerTx)
          [] p = "queue" -> retryQueue
          [] p = "retrying" -> retrying
          [] p = "delivered" -> delivered
          [] p = "dropped" -> dropped
          [] p = "submit" -> {submitTx} \ {NoTx}]

AtMostOne(F) == \A p, q \in PlaceNames : p # q => F[p] \cap F[q] = {}

Anywhere(F) == UNION {F[p] : p \in PlaceNames}

PlacesInv ==
    /\ AtMostOne(Located)
    /\ Anywhere(Located) = submitted
    /\ Once(highPrio) /\ Once(lowPrio) /\ Once(requeuedTransaction)
    /\ OnceInWorkers(workerTx)

LEMMA LocatedIs ==
    /\ Located["high"] = Elements(highPrio) /\ Located["low"] = Elements(lowPrio)
    /\ Located["requeued"] = Elements(requeuedTransaction) /\ Located["worker"] = InWorkers(workerTx)
    /\ Located["queue"] = retryQueue /\ Located["retrying"] = retrying
    /\ Located["delivered"] = delivered /\ Located["dropped"] = dropped
    /\ Located["submit"] = {submitTx} \ {NoTx}
BY DEF Located, PlaceNames

LEMMA LocatedIsNext ==
    /\ Located'["high"] = Elements(highPrio') /\ Located'["low"] = Elements(lowPrio')
    /\ Located'["requeued"] = Elements(requeuedTransaction') /\ Located'["worker"] = InWorkers(workerTx')
    /\ Located'["queue"] = retryQueue' /\ Located'["retrying"] = retrying'
    /\ Located'["delivered"] = delivered' /\ Located'["dropped"] = dropped'
    /\ Located'["submit"] = {submitTx'} \ {NoTx}
BY DEF Located, PlaceNames, Elements, InWorkers

\* Transactions go from one place to another.
Moved(F, G, from, to, M) ==
    /\ M \subseteq F[from]
    /\ G[from] = F[from] \ M
    /\ G[to] = F[to] \cup M
    /\ \A p \in PlaceNames \ {from, to} : G[p] = F[p]

LEMMA MovedKeeps ==
    ASSUME NEW F, NEW G, NEW from \in PlaceNames, NEW to \in PlaceNames, from # to, NEW M,
           Moved(F, G, from, to, M), AtMostOne(F)
    PROVE  AtMostOne(G) /\ Anywhere(G) = Anywhere(F)
<1>1. AtMostOne(G)
  <2> SUFFICES ASSUME NEW p \in PlaceNames, NEW q \in PlaceNames, p # q, NEW t, t \in G[p], t \in G[q]
               PROVE  FALSE
    BY DEF AtMostOne
  <2> QED BY DEF AtMostOne, Moved
<1>2. \A t : t \in Anywhere(F) <=> \E p \in PlaceNames : t \in F[p]
  BY DEF Anywhere
<1>3. \A t : t \in Anywhere(G) <=> \E p \in PlaceNames : t \in G[p]
  BY DEF Anywhere
<1>4. \A t : (\E p \in PlaceNames : t \in G[p]) <=> (\E p \in PlaceNames : t \in F[p])
  BY DEF Moved
<1> QED BY <1>1, <1>2, <1>3, <1>4

\* A new transaction.
Arrived(F, G, to, t) ==
    /\ t \notin Anywhere(F)
    /\ G[to] = F[to] \cup {t}
    /\ \A p \in PlaceNames \ {to} : G[p] = F[p]

LEMMA ArrivedKeeps ==
    ASSUME NEW F, NEW G, NEW to \in PlaceNames, NEW t, Arrived(F, G, to, t), AtMostOne(F)
    PROVE  AtMostOne(G) /\ Anywhere(G) = Anywhere(F) \cup {t}
<1>1. \A p \in PlaceNames : t \notin F[p]
  BY DEF Anywhere, Arrived
<1>2. AtMostOne(G)
  BY <1>1 DEF AtMostOne, Arrived
<1> QED BY <1>2 DEF Anywhere, Arrived

\* Through add(), which may drop what is in the queue.
LEMMA AddedKeeps ==
    ASSUME NEW F, NEW G, NEW from \in PlaceNames \ {"queue", "dropped"}, NEW t, t \in F[from],
           NEW drops, drops \subseteq F["queue"] \cup {t},
           G[from] = F[from] \ {t}, G["queue"] = (F["queue"] \cup {t}) \ drops,
           G["dropped"] = F["dropped"] \cup drops,
           \A p \in PlaceNames \ {from, "queue", "dropped"} : G[p] = F[p], AtMostOne(F)
    PROVE  AtMostOne(G) /\ Anywhere(G) = Anywhere(F)
<1> DEFINE E == [p \in PlaceNames |-> IF p = from THEN F[p] \ {t}
                                      ELSE IF p = "queue" THEN F[p] \cup {t} ELSE F[p]]
<1>0. "queue" \in PlaceNames /\ "dropped" \in PlaceNames /\ from # "queue" /\ from # "dropped"
  BY DEF PlaceNames
<1>1. Moved(F, E, from, "queue", {t})
  BY <1>0 DEF Moved
<1>2. Moved(E, G, "queue", "dropped", drops)
  BY <1>0 DEF Moved
<1> HIDE DEF E
<1>3. AtMostOne(E) /\ Anywhere(E) = Anywhere(F)
  BY <1>0, <1>1, MovedKeeps
<1> QED BY <1>0, <1>2, <1>3, MovedKeeps

-----------------------------------------------------------------------------
(* The channels and the workers. *)

LEMMA Sent ==
    ASSUME NEW chan \in Chans, NEW t \in Txs
    PROVE  /\ Elements(Append(chan, t)) = Elements(chan) \cup {t}
           /\ Once(chan) /\ t \notin Elements(chan) => Once(Append(chan, t))
<1> DEFINE e == Append(chan, t)
           n == Len(chan) + 1
<1>1. DOMAIN e = DOMAIN chan \cup {n} /\ e[n] = t /\ \A k \in DOMAIN chan : e[k] = chan[k]
  BY DEF Chans
<1> HIDE DEF e, n
<1>2. Elements(e) = Elements(chan) \cup {t}
  BY <1>1 DEF Elements
<1>3. Once(chan) /\ t \notin Elements(chan) => Once(e)
  BY <1>1 DEF Elements, Once
<1> QED BY <1>2, <1>3 DEF e

LEMMA Received ==
    ASSUME NEW chan \in Chans, chan # <<>>, Once(chan)
    PROVE  /\ Head(chan) \in Txs /\ Head(chan) \in Elements(chan)
           /\ Elements(Tail(chan)) = Elements(chan) \ {Head(chan)}
           /\ Once(Tail(chan))
<1> DEFINE r == Tail(chan)
<1>1. /\ Head(chan) \in Txs /\ Head(chan) = chan[1] /\ 1 \in DOMAIN chan
      /\ \A k \in DOMAIN r : k \in Nat /\ k + 1 # 1 /\ k + 1 \in DOMAIN chan /\ r[k] = chan[k + 1]
  BY HeadTail DEF Chans
<1>2. \A k \in DOMAIN chan : k # 1 => \E j \in DOMAIN r : r[j] = chan[k]
  <2> TAKE k \in DOMAIN chan
  <2> HAVE k # 1
  <2>1. k - 1 \in DOMAIN r /\ r[k - 1] = chan[k]
    BY DEF Chans
  <2> QED BY <2>1
<1>3. \A k, l \in DOMAIN r : k + 1 = l + 1 => k = l
  BY <1>1
<1> HIDE DEF r
<1>4. Elements(r) = Elements(chan) \ {Head(chan)}
  <2>1. ASSUME NEW t \in Elements(r)
        PROVE  t \in Elements(chan) /\ t # Head(chan)
    <3>1. PICK k \in DOMAIN r : t = r[k]
      BY DEF Elements
    <3>2. k + 1 \in DOMAIN chan /\ t = chan[k + 1] /\ k + 1 # 1
      BY <1>1, <3>1
    <3> QED BY <1>1, <3>2 DEF Elements, Once
  <2>2. ASSUME NEW t \in Elements(chan), t # Head(chan)
        PROVE  t \in Elements(r)
    <3>1. PICK k \in DOMAIN chan : t = chan[k]
      BY DEF Elements
    <3> QED BY <1>1, <1>2, <2>2, <3>1 DEF Elements
  <2> QED BY <2>1, <2>2
<1>5. Once(r)
  BY <1>1, <1>3 DEF Once
<1>6. Head(chan) \in Elements(chan)
  BY <1>1 DEF Elements
<1> QED BY <1>1, <1>4, <1>5, <1>6 DEF r

LEMMA Taken ==
    ASSUME ForwarderTypes, NEW w \in AllWorkers, NEW t \in Txs, Take(w, t), workerTx[w] = NoTx
    PROVE  /\ InWorkers(workerTx') = InWorkers(workerTx) \cup {t}
           /\ OnceInWorkers(workerTx) /\ t \notin InWorkers(workerTx) => OnceInWorkers(workerTx')
<1>1. NoTx \notin Txs /\ t # NoTx
  BY ForwarderAssumption DEF ForwarderAssumption
<1>2. workerTx'[w] = t /\ \A v \in AllWorkers : v # w => workerTx'[v] = workerTx[v]
  BY DEF Take, ForwarderTypes
<1> QED BY <1>1, <1>2 DEF InWorkers, OnceInWorkers

LEMMA Finished ==
    ASSUME ForwarderTypes, NEW w \in AllWorkers, Processed(w), workerTx[w] # NoTx, OnceInWorkers(workerTx)
    PROVE  /\ workerTx[w] \in Txs /\ workerTx[w] \in InWorkers(workerTx)
           /\ InWorkers(workerTx') = InWorkers(workerTx) \ {workerTx[w]}
           /\ OnceInWorkers(workerTx')
<1>1. workerTx'[w] = NoTx /\ \A v \in AllWorkers : v # w => workerTx'[v] = workerTx[v]
  BY DEF Processed, ForwarderTypes
<1>2. workerTx[w] \in Txs
  BY DEF ForwarderTypes
<1>3. \A v \in AllWorkers : v # w => workerTx[v] # workerTx[w]
  BY DEF OnceInWorkers
<1> QED BY <1>1, <1>2, <1>3 DEF InWorkers, OnceInWorkers

-----------------------------------------------------------------------------
(* Every step moves transactions between the places. *)

LEMMA PlacesStep ==
    ASSUME ForwarderTypes, ~panicked => PlacesInv, [ForwarderNext]_forwarderVars, ~panicked'
    PROVE  PlacesInv'
<1>0. ~panicked
  BY DEF ForwarderNext, forwarderVars, submitVars, SubmitCheck, SubmitSend, PollHighPrio, PollNothing,
         WaitTransaction, Process, SendSucceeds, SendCancelled, SendFails, RequeueTransaction,
         ExtractTransactions, RetryOne, BackoffTick, StopForwarder, StopRetry, StopWorker, JoinWorker,
         Purge, CloseChannels, ForgetDomains
<1>1. /\ AtMostOne(Located) /\ Anywhere(Located) = submitted
      /\ Once(highPrio) /\ Once(lowPrio) /\ Once(requeuedTransaction) /\ OnceInWorkers(workerTx)
  BY <1>0 DEF PlacesInv
<1>2. /\ highPrio \in Chans /\ lowPrio \in Chans /\ requeuedTransaction \in Chans
      /\ NoTx \notin Txs /\ \A w \in Workers : w \in AllWorkers
  BY ForwarderAssumption DEF ForwarderTypes, ForwarderAssumption, Workers, AllWorkers
\* It remains to show, of a step, that the places stay apart and that no transaction is lost.
<1>3. ASSUME AtMostOne(Located'), Anywhere(Located') = submitted', Once(highPrio'), Once(lowPrio'),
             Once(requeuedTransaction'), OnceInWorkers(workerTx')
      PROVE  PlacesInv'
  BY <1>3 DEF PlacesInv, AtMostOne, Anywhere, Once, OnceInWorkers
<1>4. CASE UNCHANGED <<submitTx, submitted, highPrio, lowPrio, requeuedTransaction, retryQueue, retrying,
                       workerTx, delivered, dropped>>
  <2>1. Located' = Located
    BY <1>4 DEF Located, Elements, InWorkers
  <2> QED BY <1>1, <1>3, <1>4, <2>1
\* What is in one place is in no other.
<1>5. ASSUME NEW p \in PlaceNames, NEW q \in PlaceNames, p # q, NEW t \in Located[p]
      PROVE  t \notin Located[q]
  BY <1>1, <1>5 DEF AtMostOne
<1>6. ASSUME NEW t \in Txs, SubmitCheck(t)
      PROVE  PlacesInv'
  <2>1. /\ t \notin Anywhere(Located) /\ submitted' = submitted \cup {t} /\ submitTx = NoTx
        /\ UNCHANGED <<highPrio, lowPrio, requeuedTransaction, retryQueue, retrying, workerTx, delivered>>
    BY <1>1, <1>6 DEF SubmitCheck, chanVars, retryVars, workerVars, ForwarderTypes
  <2>2. ASSUME NEW to \in PlaceNames, Located'[to] = Located[to] \cup {t},
               \A p \in PlaceNames \ {to} : Located'[p] = Located[p]
        PROVE  PlacesInv'
    <3>0. Arrived(Located, Located', to, t)
      BY <2>1, <2>2 DEF Arrived
    <3>1. AtMostOne(Located') /\ Anywhere(Located') = Anywhere(Located) \cup {t}
      BY <1>1, <3>0, ArrivedKeeps
    <3> QED BY <1>1, <1>3, <2>1, <3>1
  <2>3. CASE submitTx' = t /\ UNCHANGED dropped
    <3>1. Located'["submit"] = Located["submit"] \cup {t}
      BY <1>2, <2>1, <2>3, LocatedIs, LocatedIsNext
    <3>2. \A p \in PlaceNames \ {"submit"} : Located'[p] = Located[p]
      BY <2>1, <2>3, LocatedIs, LocatedIsNext DEF PlaceNames
    <3>3. "submit" \in PlaceNames
      BY DEF PlaceNames
    <3> QED BY <2>2, <3>1, <3>2, <3>3
  <2>4. CASE dropped' = dropped \cup {t} /\ UNCHANGED submitTx
    <3>1. Located'["dropped"] = Located["dropped"] \cup {t}
      BY <2>1, <2>4, LocatedIs, LocatedIsNext
    <3>2. \A p \in PlaceNames \ {"dropped"} : Located'[p] = Located[p]
      BY <2>1, <2>4, LocatedIs, LocatedIsNext DEF PlaceNames
    <3>3. "dropped" \in PlaceNames
      BY DEF PlaceNames
    <3> QED BY <2>2, <3>1, <3>2, <3>3
  <2> QED BY <1>6, <2>3, <2>4 DEF SubmitCheck
\* The step that a transaction makes through add(), from one of three places.
<1>7. ASSUME NEW from \in {"submit", "requeued", "retrying"}, NEW t \in Located[from], AddToContainer(t),
             Located'[from] = Located[from] \ {t},
             \A p \in PlaceNames \ {from, "queue", "dropped"} : Located'[p] = Located[p]
      PROVE  AtMostOne(Located') /\ Anywhere(Located') = Anywhere(Located)
  <2>1. PICK drops \in SUBSET (retryQueue \cup {t}) :
           retryQueue' = (retryQueue \cup {t}) \ drops /\ dropped' = dropped \cup drops
    BY <1>7 DEF AddToContainer
  <2>2. /\ drops \subseteq Located["queue"] \cup {t}
        /\ Located'["queue"] = (Located["queue"] \cup {t}) \ drops
        /\ Located'["dropped"] = Located["dropped"] \cup drops
    BY <2>1, LocatedIs, LocatedIsNext
  <2>3. from \in PlaceNames \ {"queue", "dropped"}
    BY DEF PlaceNames
  <2> QED BY <1>1, <1>7, <2>2, <2>3, AddedKeeps
<1>8. CASE SubmitSend
  <2>1. /\ submitTx \in Txs /\ submitTx' = NoTx
        /\ UNCHANGED <<submitted, lowPrio, requeuedTransaction, retrying, workerTx, delivered>>
    BY <1>8 DEF SubmitSend, workerVars, ForwarderTypes
  <2>2. submitTx \in Located["submit"] /\ Located'["submit"] = Located["submit"] \ {submitTx}
    BY <1>2, <2>1, LocatedIs, LocatedIsNext
  <2>3. CASE highPrio' = Append(highPrio, submitTx) /\ UNCHANGED <<retryQueue, dropped>>
    <3>1. submitTx \notin Elements(highPrio)
      BY <1>5, <2>2, LocatedIs DEF PlaceNames
    <3>2. Elements(highPrio') = Elements(highPrio) \cup {submitTx} /\ Once(highPrio')
      BY <1>1, <1>2, <2>1, <2>3, <3>1, Sent
    <3>3. Moved(Located, Located', "submit", "high", {submitTx})
      BY <2>1, <2>2, <2>3, <3>2, LocatedIs, LocatedIsNext DEF Moved, PlaceNames
    <3>4. AtMostOne(Located') /\ Anywhere(Located') = Anywhere(Located)
      BY <1>1, <3>3, MovedKeeps DEF PlaceNames
    <3> QED BY <1>1, <1>3, <2>1, <3>2, <3>4
  <2>4. CASE AddToContainer(submitTx) /\ UNCHANGED highPrio
    <3>1. \A p \in PlaceNames \ {"submit", "queue", "dropped"} : Located'[p] = Located[p]
      BY <2>1, <2>4, LocatedIs, LocatedIsNext DEF PlaceNames
    <3>2. AtMostOne(Located') /\ Anywhere(Located') = Anywhere(Located)
      BY <1>7, <2>2, <2>4, <3>1
    <3> QED BY <1>1, <1>3, <2>1, <2>4, <3>2
  <2> QED BY <1>0, <1>8, <2>3, <2>4 DEF SubmitSend
\* A worker takes a transaction from a channel.
<1>9. ASSUME NEW w \in AllWorkers, workerTx[w] = NoTx,
             \/ highPrio # <<>> /\ Take(w, Head(highPrio)) /\ highPrio' = Tail(highPrio) /\ UNCHANGED lowPrio
             \/ lowPrio # <<>> /\ Take(w, Head(lowPrio)) /\ lowPrio' = Tail(lowPrio) /\ UNCHANGED highPrio,
             UNCHANGED <<submitTx, submitted, requeuedTransaction, retryQueue, retrying, delivered, dropped>>
      PROVE  PlacesInv'
  <2>1. CASE highPrio # <<>> /\ Take(w, Head(highPrio)) /\ highPrio' = Tail(highPrio) /\ UNCHANGED lowPrio
    <3> DEFINE t == Head(highPrio)
    <3>1. /\ t \in Txs /\ t \in Elements(highPrio) /\ Elements(highPrio') = Elements(highPrio) \ {t}
          /\ Once(highPrio')
      BY <1>1, <1>2, <2>1, Received
    <3>2. t \notin InWorkers(workerTx)
      BY <1>5, <3>1, LocatedIs DEF PlaceNames
    <3> HIDE DEF t
    <3>3. InWorkers(workerTx') = InWorkers(workerTx) \cup {t} /\ OnceInWorkers(workerTx')
      BY <1>1, <1>9, <2>1, <3>1, <3>2, Taken DEF t
    <3>4. Moved(Located, Located', "high", "worker", {t})
      BY <1>9, <2>1, <3>1, <3>3, LocatedIs, LocatedIsNext DEF Moved, PlaceNames
    <3>5. AtMostOne(Located') /\ Anywhere(Located') = Anywhere(Located)
      BY <1>1, <3>4, MovedKeeps DEF PlaceNames
    <3> QED BY <1>1, <1>3, <1>9, <2>1, <3>1, <3>3, <3>5
  <2>2. CASE lowPrio # <<>> /\ Take(w, Head(lowPrio)) /\ lowPrio' = Tail(lowPrio) /\ UNCHANGED highPrio
    <3> DEFINE t == Head(lowPrio)
    <3>1. /\ t \in Txs /\ t \in Elements(lowPrio) /\ Elements(lowPrio') = Elements(lowPrio) \ {t}
          /\ Once(lowPrio')
      BY <1>1, <1>2, <2>2, Received
    <3>2. t \notin InWorkers(workerTx)
      BY <1>5, <3>1, LocatedIs DEF PlaceNames
    <3> HIDE DEF t
    <3>3. InWorkers(workerTx') = InWorkers(workerTx) \cup {t} /\ OnceInWorkers(workerTx')
      BY <1>1, <1>9, <2>2, <3>1, <3>2, Taken DEF t
    <3>4. Moved(Located, Located', "low", "worker", {t})
      BY <1>9, <2>2, <3>1, <3>3, LocatedIs, LocatedIsNext DEF Moved, PlaceNames
    <3>5. AtMostOne(Located') /\ Anywhere(Located') = Anywhere(Located)
      BY <1>1, <3>4, MovedKeeps DEF PlaceNames
    <3> QED BY <1>1, <1>3, <1>9, <2>2, <3>1, <3>3, <3>5
  <2> QED BY <1>9, <2>1, <2>2
<1>10. ASSUME NEW w \in Workers, PollHighPrio(w) \/ WaitTransaction(w)
       PROVE  PlacesInv'
  <2>1. w \in AllWorkers /\ workerTx[w] = NoTx
    BY <1>2, <1>10 DEF PollHighPrio, WaitTransaction, ForwarderTypes
  <2> QED BY <1>9, <1>10, <2>1 DEF PollHighPrio, WaitTransaction, submitVars, retryVars, endVars
<1>11. CASE Purge
  <2>1. 0 \in AllWorkers /\ workerTx[0] = NoTx
    BY <1>11 DEF Purge, ForwarderTypes, AllWorkers
  <2>2. CASE UNCHANGED <<workerPc, workerTx, highPrio>>
    BY <1>4, <1>11, <2>2 DEF Purge, submitVars, retryVars, endVars
  <2> QED BY <1>9, <1>11, <2>1, <2>2 DEF Purge, submitVars, retryVars, endVars
\* A worker ends the processing of its transaction.
<1>12. ASSUME NEW w \in AllWorkers, workerTx[w] # NoTx, Processed(w),
              UNCHANGED <<submitTx, submitted, highPrio, lowPrio, retryQueue, retrying>>,
              \/ Requeue(workerTx[w]) /\ UNCHANGED delivered
              \/ delivered' = delivered \cup {workerTx[w]} /\ UNCHANGED <<requeuedTransaction, dropped>>
              \/ dropped' = dropped \cup {workerTx[w]} /\ UNCHANGED <<requeuedTransaction, delivered>>
       PROVE  PlacesInv'
  <2> DEFINE t == workerTx[w]
  <2>1. /\ t \in Txs /\ t \in InWorkers(workerTx) /\ OnceInWorkers(workerTx')
        /\ InWorkers(workerTx') = InWorkers(workerTx) \ {t}
    BY <1>1, <1>12, Finished
  <2>2. t \notin Elements(requeuedTransaction)
    BY <1>5, <2>1, LocatedIs DEF PlaceNames
  <2> HIDE DEF t
  <2>3. CASE requeuedTransaction' = Append(requeuedTransaction, t) /\ UNCHANGED <<delivered, dropped>>
    <3>1. Elements(requeuedTransaction') = Elements(requeuedTransaction) \cup {t} /\ Once(requeuedTransaction')
      BY <1>1, <1>2, <2>1, <2>2, <2>3, Sent
    <3>2. Moved(Located, Located', "worker", "requeued", {t})
      BY <1>12, <2>1, <2>3, <3>1, LocatedIs, LocatedIsNext DEF Moved, PlaceNames
    <3>3. AtMostOne(Located') /\ Anywhere(Located') = Anywhere(Located)
      BY <1>1, <3>2, MovedKeeps DEF PlaceNames
    <3> QED BY <1>1, <1>3, <1>12, <2>1, <3>1, <3>3
  <2>4. CASE delivered' = delivered \cup {t} /\ UNCHANGED <<requeuedTransaction, dropped>>
    <3>1. Moved(Located, Located', "worker", "delivered", {t})
      BY <1>12, <2>1, <2>4, LocatedIs, LocatedIsNext DEF Moved, PlaceNames
    <3>2. AtMostOne(Located') /\ Anywhere(Located') = Anywhere(Located)
      BY <1>1, <3>1, MovedKeeps DEF PlaceNames
    <3> QED BY <1>1, <1>3, <1>12, <2>1, <2>4, <3>2
  <2>5. CASE dropped' = dropped \cup {t} /\ UNCHANGED <<requeuedTransaction, delivered>>
    <3>1. Moved(Located, Located', "worker", "dropped", {t})
      BY <1>12, <2>1, <2>5, LocatedIs, LocatedIsNext DEF Moved, PlaceNames
    <3>2. AtMostOne(Located') /\ Anywhere(Located') = Anywhere(Located)
      BY <1>1, <3>1, MovedKeeps DEF PlaceNames
    <3> QED BY <1>1, <1>3, <1>12, <2>1, <2>5, <3>2
  <2> QED BY <1>12, <2>3, <2>4, <2>5 DEF Requeue, t
<1>13. ASSUME NEW w \in AllWorkers, Process(w) \/ SendSucceeds(w) \/ SendCancelled(w) \/ SendFails(w)
       PROVE  PlacesInv'
  <2>1. workerTx[w] # NoTx
    BY <1>13 DEF Process, SendSucceeds, SendCancelled, SendFails, ForwarderTypes
  <2>2. CASE UNCHANGED workerTx /\ Process(w) /\ UNCHANGED <<requeuedTransaction, retryQueue, dropped>>
    BY <1>4, <2>2 DEF Process, submitVars
  <2> QED BY <1>12, <1>13, <2>1, <2>2
          DEF Process, SendSucceeds, SendCancelled, SendFails, Requeue, submitVars, chanVars, retryVars
<1>14. CASE RequeueTransaction
  <2> DEFINE t == Head(requeuedTransaction)
  <2>1. /\ AddToContainer(t) /\ requeuedTransaction # <<>> /\ requeuedTransaction' = Tail(requeuedTransaction)
        /\ UNCHANGED <<submitTx, submitted, highPrio, lowPrio, retrying, workerTx, delivered>>
    BY <1>14 DEF RequeueTransaction, submitVars, workerVars
  <2>2. /\ t \in Elements(requeuedTransaction) /\ Once(requeuedTransaction')
        /\ Elements(requeuedTransaction') = Elements(requeuedTransaction) \ {t}
    BY <1>1, <1>2, <2>1, Received
  <2> HIDE DEF t
  <2>3. /\ t \in Located["requeued"] /\ Located'["requeued"] = Located["requeued"] \ {t}
        /\ \A p \in PlaceNames \ {"requeued", "queue", "dropped"} : Located'[p] = Located[p]
    BY <2>1, <2>2, LocatedIs, LocatedIsNext DEF PlaceNames
  <2>4. AtMostOne(Located') /\ Anywhere(Located') = Anywhere(Located)
    BY <1>7, <2>1, <2>3
  <2> QED BY <1>1, <1>3, <2>1, <2>2, <2>4
<1>15. CASE ExtractTransactions
  <2>1. PICK ts \in SUBSET retryQueue : retrying' = ts /\ retryQueue' = retryQueue \ ts
    BY <1>15 DEF ExtractTransactions
  <2>2. /\ retrying = {}
        /\ UNCHANGED <<submitTx, submitted, highPrio, lowPrio, requeuedTransaction, workerTx, delivered, dropped>>
    BY <1>15 DEF ExtractTransactions, submitVars, chanVars, workerVars, endVars
  <2>3. Moved(Located, Located', "queue", "retrying", ts)
    BY <2>1, <2>2, LocatedIs, LocatedIsNext DEF Moved, PlaceNames
  <2>4. AtMostOne(Located') /\ Anywhere(Located') = Anywhere(Located)
    BY <1>1, <2>3, MovedKeeps DEF PlaceNames
  <2> QED BY <1>1, <1>3, <2>2, <2>4
<1>16. CASE RetryOne
  <2>1. PICK t \in retrying :
           /\ retrying' = retrying \ {t}
           /\ \/ lowPrio' = Append(lowPrio, t) /\ UNCHANGED <<retryQueue, dropped>>
              \/ AddToContainer(t) /\ UNCHANGED lowPrio
    BY <1>16 DEF RetryOne
  <2>2. UNCHANGED <<submitTx, submitted, highPrio, requeuedTransaction, workerTx, delivered>>
    BY <1>16 DEF RetryOne, submitVars, workerVars
  <2>3. t \in Txs /\ t \in Located["retrying"] /\ Located'["retrying"] = Located["retrying"] \ {t}
    BY <2>1, LocatedIs, LocatedIsNext DEF ForwarderTypes
  <2>4. CASE lowPrio' = Append(lowPrio, t) /\ UNCHANGED <<retryQueue, dropped>>
    <3>1. t \notin Elements(lowPrio)
      BY <1>5, <2>3, LocatedIs DEF PlaceNames
    <3>2. Elements(lowPrio') = Elements(lowPrio) \cup {t} /\ Once(lowPrio')
      BY <1>1, <1>2, <2>3, <2>4, <3>1, Sent
    <3>3. Moved(Located, Located', "retrying", "low", {t})
      BY <2>2, <2>3, <2>4, <3>2, LocatedIs, LocatedIsNext DEF Moved, PlaceNames
    <3>4. AtMostOne(Located') /\ Anywhere(Located') = Anywhere(Located)
      BY <1>1, <3>3, MovedKeeps DEF PlaceNames
    <3> QED BY <1>1, <1>3, <2>2, <3>2, <3>4
  <2>5. CASE AddToContainer(t) /\ UNCHANGED lowPrio
    <3>1. \A p \in PlaceNames \ {"retrying", "queue", "dropped"} : Located'[p] = Located[p]
      BY <2>2, <2>5, LocatedIs, LocatedIsNext DEF PlaceNames
    <3>2. AtMostOne(Located') /\ Anywhere(Located') = Anywhere(Located)
      BY <1>7, <2>3, <2>5, <3>1
    <3> QED BY <1>1, <1>3, <2>2, <2>5, <3>2
  <2> QED BY <2>1, <2>4, <2>5
<1> QED BY <1>4, <1>6, <1>8, <1>10, <1>11, <1>13, <1>14, <1>15, <1>16
        DEF ForwarderNext, forwarderVars, submitVars, chanVars, retryVars, workerVars, endVars, PollNothing,
            BackoffTick, StopForwarder, StopRetry, StopWorker, JoinWorker, CloseChannels, ForgetDomains,
            AllWorkers

\* What the places say of Places(t).
LEMMA OnePlace ==
    ASSUME ForwarderTypes, PlacesInv, NEW t \in submitted
    PROVE  \E p : Places(t) = {p}
<1>1. PICK p \in PlaceNames : t \in Located[p]
  BY DEF PlacesInv, Anywhere
<1>2. \A q \in PlaceNames : q # p => t \notin Located[q]
  BY <1>1 DEF PlacesInv, AtMostOne
<1>3. t # NoTx
  BY ForwarderAssumption DEF ForwarderAssumption, ForwarderTypes
<1> DEFINE A == {c \in {"high", "low", "requeued"} :
                    LET chan == CASE c = "high" -> highPrio [] c = "low" -> lowPrio
                                  [] OTHER -> requeuedTransaction
                    IN \E k \in DOMAIN chan : chan[k] = t}
           B == {w \in {<<"worker", v>> : v \in 0..NumberOfWorkers} : workerTx[w[2]] = t}
           C == {q \in {"queue", "retrying", "delivered", "dropped", "submit"} :
                    CASE q = "queue" -> t \in retryQueue [] q = "retrying" -> t \in retrying
                      [] q = "delivered" -> t \in delivered [] q = "dropped" -> t \in dropped
                      [] OTHER -> submitTx = t}
<1>4. Places(t) = A \cup B \cup C
  BY DEF Places
<1>5. \A x : x \in A <=> x \in {"high", "low", "requeued"} /\ t \in Located[x]
  BY LocatedIs DEF Elements
<1>6. \A x : x \in B <=> \E v \in AllWorkers : x = <<"worker", v>> /\ workerTx[v] = t
  BY DEF AllWorkers
<1>7. \A x : x \in C <=> x \in {"queue", "retrying", "delivered", "dropped", "submit"} /\ t \in Located[x]
  BY <1>3, LocatedIs
<1> HIDE DEF A, B, C
<1>8. t \in Located["worker"] <=> \E v \in AllWorkers : workerTx[v] = t
  BY <1>3, LocatedIs DEF InWorkers
<1>9. CASE p = "worker"
  <2>1. PICK v \in AllWorkers : workerTx[v] = t
    BY <1>1, <1>8, <1>9
  <2>2. \A u \in AllWorkers : workerTx[u] = t => u = v
    BY <1>3, <2>1 DEF PlacesInv, OnceInWorkers
  <2>3. A = {} /\ C = {}
    BY <1>2, <1>5, <1>7, <1>9 DEF PlaceNames
  <2> DEFINE place == <<"worker", v>>
  <2>4. \A x : x \in B <=> x = place
    BY <1>6, <2>1, <2>2
  <2> HIDE DEF place
  <2>5. Places(t) = {place}
    BY <1>4, <2>3, <2>4
  <2> QED BY <2>5
<1>10. CASE p # "worker"
  <2>1. "worker" \in PlaceNames
    BY DEF PlaceNames
  <2>2. B = {}
    BY <1>2, <1>6, <1>8, <1>10, <2>1
  <2>3. A \cup C = {p}
    BY <1>1, <1>2, <1>5, <1>7, <1>10 DEF PlaceNames
  <2> QED BY <1>4, <2>2, <2>3
<1> QED BY <1>9, <1>10

\* Until a submission meets a closed channel, a submitted transaction is in exactly one
\* place, whichever goroutines run and however the forwarder stops: with the submitter,
\* in one channel, with one worker, in the retry queue, delivered, or counted as dropped.
THEOREM OneCopy == ForwarderSpec => []InOnePlace
<1> DEFINE I == ForwarderTypes /\ (~panicked => PlacesInv)
<1>1. ForwarderInit => I
  <2> SUFFICES ASSUME ForwarderInit
               PROVE  I
    OBVIOUS
  <2>1. \A q \in PlaceNames : Located[q] = {}
    <3>1. Elements(<<>>) = {} /\ InWorkers(workerTx) = {}
      BY DEF Elements, InWorkers, ForwarderInit, AllWorkers
    <3> QED BY <3>1, LocatedIs DEF PlaceNames, ForwarderInit
  <2>2. AtMostOne(Located) /\ Anywhere(Located) = {}
    BY <2>1 DEF AtMostOne, Anywhere
  <2>3. Once(<<>>) /\ OnceInWorkers(workerTx)
    BY DEF Once, OnceInWorkers, ForwarderInit, AllWorkers
  <2> QED BY <2>2, <2>3, ForwarderTypesInit DEF ForwarderInit, PlacesInv
<1>2. I /\ [ForwarderNext]_forwarderVars => I'
  BY ForwarderTypesStep, PlacesStep
<1>3. I => InOnePlace
  <2> SUFFICES ASSUME I, ~panicked, NEW t \in submitted
               PROVE  Cardinality(Places(t)) = 1
    BY DEF InOnePlace
  <2>1. PICK p : Places(t) = {p}
    BY OnePlace
  <2> QED BY <2>1, FS_Singleton
<1> QED BY <1>1, <1>2, <1>3, PTL DEF ForwarderSpec
===============================================================================
