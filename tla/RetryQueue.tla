------------------------------ MODULE RetryQueue ------------------------------
(***************************************************************************)
(* What the forwarder's retry queue promises: a transaction that is put     *)
(* into it comes out at most once, wherever it was kept meanwhile.  The      *)
(* queue is bounded and may lose transactions, in memory and on disk; a      *)
(* crash loses what was taken out.                                          *)
(***************************************************************************)
CONSTANT Transactions

VARIABLES
    queue,    \* the transactions in the queue
    out       \* those taken out of it and neither delivered nor put back

queueVars == <<queue, out>>

QueueInit == queue = {} /\ out = {}

\* A transaction comes in, a new one or one that could not be delivered.
Put(t) ==
    /\ t \notin queue
    /\ out' = out \ {t}
    /\ queue' = queue \cup {t}

\* Some transactions come out; others may turn out to be unreadable.
Take ==
    LET taken == out' \ out
    IN  /\ out \subseteq out' /\ taken \subseteq queue
        /\ queue' \subseteq queue \ taken

Lose ==
    /\ queue' \subseteq queue
    /\ UNCHANGED out

\* A transaction is delivered, or given up.
Discard(t) ==
    /\ out' = out \ {t}
    /\ UNCHANGED queue

CrashLoses ==
    /\ queue' \subseteq queue
    /\ out' = {}

QueueNext ==
    \/ \E t \in Transactions : Put(t) \/ Discard(t)
    \/ Take \/ Lose \/ CrashLoses

QueueSpec == QueueInit /\ [][QueueNext]_queueVars
=============================================================================
