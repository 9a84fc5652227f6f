----------------------------- MODULE NetworkState -----------------------------
(***************************************************************************)
(* The network tracer's account of connections (pkg/network/state.go): what *)
(* each client is told of the bytes that a connection has sent since it     *)
(* last asked.  One connection key, which several connections in a row may   *)
(* have: their counters all begin at zero, and nothing else tells them apart *)
(* than the time of their last update.                                      *)
(*                                                                         *)
(* GetActiveConnections (tracer.go) reads the kernel's map, removes expired  *)
(* entries from it and calls Connections; the closed connections come from   *)
(* the kernel in between, and late.  Its lock lets one client in at a time.   *)
(***************************************************************************)
EXTENDS Integers, Sequences, SequencesExt

CONSTANTS
    NsClients,        \* the clients of the tracer
    MaxBytes,         \* bound on the bytes sent
    Modulus           \* of the counters: 2^64 for bytes, 2^32 for the others

ASSUME NetworkAssumption == MaxBytes \in Nat /\ Modulus \in Nat \ {0}

VARIABLES
    kernel,           \* the entry of the eBPF map
    batched,          \* closed connections that have not been delivered, oldest first
    bytes, opened,    \* how many bytes were sent, and by how many connections
    nsClients,        \* networkState.clients
    caller,           \* who is in GetActiveConnections, how far, and the entry that was read:
                      \* that of the nth connection
    \* what really happened
    reported,         \* the bytes that each client was told of, and
    before,           \* those that were sent before the client came
    late,             \* closed connections were delivered after an answer, out of order or never
    crossed           \* an entry that had been read was closed, or expired, before the answer

kernelVars == <<kernel, batched, bytes, opened>>
truthVars == <<reported, before, late, crossed>>
networkVars == <<kernelVars, nsClients, caller, truthVars>>

None == [present |-> FALSE]
\* A connection: est is MonotonicTCPEstablished, epoch is LastUpdateEpoch.
Conn(s, e, t) == [present |-> TRUE, sent |-> s, est |-> e, epoch |-> t]
Stats(s, e) == [present |-> TRUE, totalSent |-> s, totalEst |-> e]
ClientState(st, closed) == [present |-> TRUE, stats |-> st, closed |-> closed]
NoCaller == [client |-> "", step |-> "idle", read |-> None, nth |-> 0]

NetworkInit ==
    /\ kernel = None /\ batched = <<>> /\ bytes = 0 /\ opened = 0
    /\ nsClients = [c \in NsClients |-> None]
    /\ caller = NoCaller
    /\ reported = [c \in NsClients |-> 0] /\ before = [c \in NsClients |-> 0]
    /\ late = FALSE /\ crossed = FALSE

-----------------------------------------------------------------------------
(* The kernel (external). *)

\* A byte is sent, by the connection or by a new one.
Traffic ==
    /\ bytes < MaxBytes
    /\ bytes' = bytes + 1
    /\ \/ /\ kernel.present
          /\ kernel' = [kernel EXCEPT !.sent = @ + 1, !.epoch = bytes + 1]
          /\ UNCHANGED opened
       \/ /\ ~kernel.present
          /\ kernel' = Conn(1, 1, bytes + 1)
          /\ opened' = opened + 1
    /\ UNCHANGED <<batched, nsClients, caller, truthVars>>

\* tcp_close: the entry goes to the batch of the processor.
TCPClose ==
    /\ kernel.present
    /\ kernel' = None
    /\ batched' = Append(batched, kernel)
    /\ UNCHANGED <<bytes, opened, nsClients, caller, truthVars>>

-----------------------------------------------------------------------------
(* StoreClosedConnection *)

\* A closed connection with the key of another one is added to it, unless it is not newer.
MergeClosed(prev, conn) ==
    IF ~prev.present THEN conn
    ELSE IF prev.epoch >= conn.epoch THEN prev
    ELSE Conn(prev.sent + conn.sent, prev.est + conn.est, conn.epoch)

Stored(clients, conn) ==
    [c \in NsClients |->
        IF clients[c].present
        THEN ClientState(clients[c].stats, MergeClosed(clients[c].closed, conn))
        ELSE None]

\* A batch that is full comes through the perf map, those of two processors in any order ...
StoreClosedConnection ==
    \E i \in DOMAIN batched :
        /\ nsClients' = Stored(nsClients, batched[i])
        /\ batched' = RemoveAt(batched, i)
        /\ late' = (late \/ i # 1)
        /\ UNCHANGED <<kernel, bytes, opened, caller, reported, before, crossed>>

\* ... or is lost.
PerfLost ==
    /\ batched # <<>>
    /\ batched' = <<>>
    /\ late' = TRUE
    /\ UNCHANGED <<kernel, bytes, opened, nsClients, caller, reported, before, crossed>>

-----------------------------------------------------------------------------
(* GetActiveConnections *)

\* getConnections reads the map; an entry that has been idle for long is expired.
ReadMap(c) ==
    /\ caller.step = "idle"
    /\ \E expired \in {FALSE, kernel.present} :
          caller' = [client |-> c, step |-> IF expired THEN "remove" ELSE "flush",
                     read |-> IF expired THEN None ELSE kernel, nth |-> opened]
    /\ UNCHANGED <<kernelVars, nsClients, truthVars>>

\* RemoveConnections
WithoutStats(clients) ==
    [c \in NsClients |-> IF clients[c].present THEN ClientState(None, clients[c].closed) ELSE None]

\* Mutant: the statistics are removed although the entry was not there any more.
RemoveEntriesAnyway ==
    /\ caller.step = "remove"
    /\ kernel' = None
    /\ nsClients' = WithoutStats(nsClients)
    /\ caller' = [caller EXCEPT !.step = "flush"]
    /\ crossed' = TRUE
    /\ UNCHANGED <<batched, bytes, opened, reported, before, late>>

\* removeEntries: the entry goes, and with it the statistics of all the clients; the
\* statistics stay when tcp_close was faster.
RemoveEntries ==
    /\ caller.step = "remove"
    /\ kernel' = None
    /\ nsClients' = IF kernel.present THEN WithoutStats(nsClients) ELSE nsClients
    /\ caller' = [caller EXCEPT !.step = "flush"]
    /\ crossed' = TRUE
    /\ UNCHANGED <<batched, bytes, opened, reported, before, late>>

\* flushIdle, answered by the goroutine that stores closed connections: a batch that has been
\* idle for TCPClosedTimeout is stored, a younger one stays in the kernel.
FlushIdle ==
    /\ caller.step = "flush"
    /\ caller' = [caller EXCEPT !.step = "merge"]
    /\ \/ nsClients' = FoldLeft(Stored, nsClients, batched) /\ batched' = <<>>
       \/ batched # <<>> /\ UNCHANGED <<nsClients, batched>>
    /\ UNCHANGED <<kernel, bytes, opened, truthVars>>

\* RemoveExpiredClients, and RemoveClient on the client's demand.
RemoveClient(c) ==
    /\ nsClients[c].present
    /\ nsClients' = [nsClients EXCEPT ![c] = None]
    /\ UNCHANGED <<kernelVars, caller, truthVars>>

\* handleStatsUnderflow: statistics that are ahead of the connection are those of another one.
\* The count of established connections is not looked at.
HandleStatsUnderflow(st, conn) ==
    IF conn.sent < st.totalSent THEN [st EXCEPT !.totalSent = 0] ELSE st

Minus(a, b) == (a - b) % Modulus

\* updateConnWithStats: what is reported of the connection, and the statistics after it.
UpdateConnWithStats(st, conn) ==
    IF ~st.present THEN [sent |-> conn.sent, est |-> conn.est, stats |-> st]
    ELSE LET s == HandleStatsUnderflow(st, conn) IN
         [sent  |-> Minus(conn.sent, s.totalSent), est |-> Minus(conn.est, s.totalEst),
          stats |-> Stats(conn.sent, conn.est)]

\* updateConnWithStatWithActiveConn: the active connection has been added to the closed one.
\* LastTCPEstablished is computed from itself, which is zero.
UpdateConnWithStatWithActiveConn(st, active, closed) ==
    LET s == HandleStatsUnderflow(st, closed) IN
    [sent  |-> Minus(closed.sent, s.totalSent), est |-> Minus(0, s.totalEst),
     stats |-> Stats(active.sent, active.est)]

\* createStatsForKey
Created(st) == IF st.present THEN st ELSE Stats(0, 0)

\* Mutant: the statistics count the closed connection also when it is active again.
MergeConnectionsSum(cl, active) ==
    IF cl.closed.present
    THEN IF active.present /\ cl.closed.epoch < active.epoch
         THEN UpdateConnWithStats(
                 Created(cl.stats),
                 Conn(cl.closed.sent + active.sent, cl.closed.est + active.est, cl.closed.epoch))
         ELSE UpdateConnWithStats(cl.stats, cl.closed)
    ELSE IF active.present
         THEN UpdateConnWithStats(Created(cl.stats), active)
         ELSE [sent |-> 0, est |-> 0, stats |-> cl.stats]

\* mergeConnections, for the closed and the active connection of the key.
MergeConnections(cl, active) ==
    IF cl.closed.present
    THEN IF active.present /\ cl.closed.epoch < active.epoch
         THEN UpdateConnWithStatWithActiveConn(
                 Created(cl.stats), active,
                 Conn(cl.closed.sent + active.sent, cl.closed.est + active.est, cl.closed.epoch))
         ELSE UpdateConnWithStats(cl.stats, cl.closed)
    ELSE IF active.present
         THEN UpdateConnWithStats(Created(cl.stats), active)
         ELSE [sent |-> 0, est |-> 0, stats |-> cl.stats]

\* Connections: a new client is told of nothing yet, another one of what is new.  Closed
\* connections are forgotten, and the statistics of the connections that are not active.
Connections ==
    LET c == caller.client
        active == caller.read
        isNew == ~nsClients[c].present
        merged == MergeConnections(IF isNew THEN ClientState(None, None) ELSE nsClients[c], active)
    IN
    /\ caller.step = "merge"
    /\ nsClients' = [nsClients EXCEPT ![c] =
                        ClientState(IF active.present THEN merged.stats ELSE None, None)]
    /\ reported' = [reported EXCEPT ![c] = IF isNew THEN 0 ELSE @ + merged.sent]
    /\ before' = [before EXCEPT ![c] =
                     IF ~isNew THEN @
                     ELSE IF ~kernel.present THEN bytes
                     ELSE bytes - kernel.sent + (IF active.present THEN active.sent ELSE 0)]
    /\ late' = (late \/ batched # <<>>)
    /\ crossed' = (crossed \/ (active.present /\ (~kernel.present \/ opened # caller.nth)))
    /\ caller' = NoCaller
    /\ UNCHANGED kernelVars

NetworkNext ==
    \/ Traffic \/ TCPClose \/ StoreClosedConnection \/ PerfLost
    \/ RemoveEntries \/ FlushIdle \/ Connections
    \/ \E c \in NsClients : ReadMap(c) \/ RemoveClient(c)

NetworkSpec == NetworkInit /\ [][NetworkNext]_networkVars

-----------------------------------------------------------------------------
(* Properties. *)

\* What the client would be told if it asked now, with nothing left to deliver.
Pending(c) ==
    MergeConnections(FoldLeft(Stored, nsClients, batched)[c], kernel).sent

\* No byte is lost and none is counted twice: what a client was told and what it will be told
\* next are what was sent since it came, however often the key was used again in between and
\* whoever else asked.  The cases that the code's comments give up are left out: a connection
\* that is closed or expires while the map is read, and one that is delivered after a later read.
BytesConserved ==
    ~late /\ ~crossed =>
        \A c \in NsClients : nsClients[c].present =>
            reported[c] + Pending(c) = bytes - before[c]

\* One connection is not reported twice, also when tcp_close and its expiration race, as long as
\* closed connections are delivered before the next answer: "we can't delete the corresponding
\* client state or we'll likely over-report the metric values" (removeEntries).
NeverOverReported ==
    ~late /\ opened <= 1 =>
        \A c \in NsClients : nsClients[c].present => reported[c] <= bytes - before[c]

-----------------------------------------------------------------------------
(* What the comments say and the code does not do. *)

\* "checks if we are going to have an underflow when computing last stats and if it's the case
\* it resets the stats to avoid it" (handleStatsUnderflow).
NoUnderflow ==
    caller.step = "merge" /\ nsClients[caller.client].present =>
        MergeConnections(nsClients[caller.client], caller.read).est <= opened
=============================================================================
