--------------------------- MODULE ClusterCheckSync ---------------------------
(***************************************************************************)
(* How one node agent follows the cluster checks that are dispatched to it: *)
(* its configPoller and ClusterChecksConfigProvider on one side, the       *)
(* nodeStore that the leading cluster agent keeps for it on the other.     *)
(*                                                                         *)
(* A poll is a POST of the status and, unless the answer is "up to date",  *)
(* a GET of the configurations.  Each request has three steps (sent,       *)
(* served, answered) and may fail before or after it was served.  The      *)
(* leader can change, forget the node and dispatch between any two steps.  *)
(* One tick of the clock is one second of the timestamps of nodeStore.     *)
(***************************************************************************)
EXTENDS Naturals

CONSTANTS
    SyncConfigs,     \* configurations the cluster agent can dispatch here
    Expiration,      \* node_expiration_timeout
    Grace,           \* graceDuration of the provider
    PollInterval,    \* of the poller: a poll ends, and the next begins, within it
    MaxTime,         \* bound on the clock
    SameSecond       \* the store may change in the second the node has just read

ASSUME SyncAssumption ==
    /\ Expiration \in Nat /\ MaxTime \in Nat
    /\ Grace \in Nat \ {0}          \* GraceTimeSeconds counts when it is positive
    /\ PollInterval \in Nat \ {0}   \* a ticker's interval is positive
    /\ SameSecond \in BOOLEAN

VARIABLES
    now,
    \* the leader's clusterStore and its nodeStore for this node
    serving,         \* clusterStore.active
    known,           \* the node has a nodeStore
    dispatched,      \* nodeStore.digestToConfig
    lastConfigChange,
    nodeSeen,        \* now - nodeStore.heartbeat, at most Expiration + 1
    \* ClusterChecksConfigProvider and configPoller
    lastChange,
    heartbeat,       \* now - heartbeat, at most Grace
    flushedConfigs,
    polled,          \* configPoller.configs, which are the scheduled ones
    pollPc,          \* "idle", "post", "posted", "get" or "got"
    answer,          \* what the server has answered
    sincePoll,       \* ticks since the last poll began
    silent           \* ticks without an answer, at most TwoPolls

nodeStoreVars == <<serving, known, dispatched, lastConfigChange, nodeSeen>>
providerVars == <<lastChange, heartbeat, flushedConfigs, polled>>
pollVars == <<pollPc, answer, sincePoll>>
syncVars == <<now, nodeStoreVars, providerVars, pollVars, silent>>

\* The grace period and two polls: the one it ends in, and the first that begins after it.
TwoPolls == Grace + 2 * PollInterval

NoAnswer == [upToDate |-> FALSE, configs |-> {}, lastChange |-> 0]

SyncInit ==
    /\ now = 1
    /\ serving = FALSE
    /\ known = FALSE
    /\ dispatched = {}
    /\ lastConfigChange = 0
    /\ nodeSeen = Expiration + 1
    /\ lastChange = 0
    /\ heartbeat = Grace
    /\ flushedConfigs = FALSE
    /\ polled = {}
    /\ pollPc = "idle"
    /\ answer = NoAnswer
    /\ sincePoll = 0
    /\ silent = 0

-----------------------------------------------------------------------------
(* The cluster agent. *)

\* The timestamps have a resolution of one second: unless SameSecond, the store
\* does not change in a second whose timestamp the node has read.
Distinguishable == SameSecond \/ now \notin {lastChange, answer.lastChange}

\* nodeStore.addConfig; the nodeStore is created when it is missing.
Dispatch(c) ==
    /\ c \notin dispatched
    /\ Distinguishable
    /\ known' = TRUE
    /\ dispatched' = dispatched \cup {c}
    /\ lastConfigChange' = now
    /\ UNCHANGED <<now, serving, nodeSeen, providerVars, pollVars, silent>>

\* Mutant: removeConfig does not record the change.
WithdrawSilently(c) ==
    /\ c \in dispatched
    /\ Distinguishable
    /\ dispatched' = dispatched \ {c}
    /\ UNCHANGED <<now, serving, known, lastConfigChange, nodeSeen, providerVars, pollVars, silent>>

\* nodeStore.removeConfig.
Withdraw(c) ==
    /\ c \in dispatched
    /\ Distinguishable
    /\ dispatched' = dispatched \ {c}
    /\ lastConfigChange' = now
    /\ UNCHANGED <<now, serving, known, nodeSeen, providerVars, pollVars, silent>>

Forget ==
    /\ known' = FALSE
    /\ dispatched' = {}
    /\ lastConfigChange' = 0
    /\ nodeSeen' = Expiration + 1

\* expireNodes: the next nodeStore is a new one.
ExpireNode ==
    /\ known
    /\ nodeSeen > Expiration
    /\ Forget
    /\ UNCHANGED <<now, serving, providerVars, pollVars, silent>>

\* The leadership moves, or the cluster agent restarts: the new leader begins
\* with an empty store, in its warmup.
NewLeader ==
    /\ serving
    /\ serving' = FALSE
    /\ Forget
    /\ UNCHANGED <<now, providerVars, pollVars, silent>>

\* dispatcher.run: the warmup is over.
Serve ==
    /\ ~serving
    /\ serving' = TRUE
    /\ UNCHANGED <<now, known, dispatched, lastConfigChange, nodeSeen, providerVars, pollVars, silent>>

\* processNodeStatus, for a POST of the status.
ProcessNodeStatus ==
    /\ pollPc = "post"
    /\ known' = TRUE
    /\ nodeSeen' = 0
    /\ answer' = [NoAnswer EXCEPT !.upToDate = lastConfigChange = lastChange \/ ~serving]
    /\ pollPc' = "posted"
    /\ UNCHANGED <<now, serving, dispatched, lastConfigChange, providerVars, sincePoll, silent>>

\* getNodeConfigs, for a GET of the configurations of a known node: the
\* configurations and their timestamp are read under one lock.
GetNodeConfigs ==
    /\ pollPc = "get"
    /\ known
    /\ answer' = [NoAnswer EXCEPT !.configs = dispatched, !.lastChange = lastConfigChange]
    /\ pollPc' = "got"
    /\ UNCHANGED <<now, nodeStoreVars, providerVars, sincePoll, silent>>

-----------------------------------------------------------------------------
(* The node agent. *)

\* The poller's ticker: IsUpToDate sends the status.
Poll ==
    /\ pollPc = "idle"
    /\ pollPc' = "post"
    /\ sincePoll' = 0
    /\ UNCHANGED <<now, nodeStoreVars, providerVars, answer, silent>>

\* IsUpToDate gets an answer.
StatusAnswered ==
    /\ pollPc = "posted"
    /\ heartbeat' = 0
    /\ silent' = 0
    /\ pollPc' = IF answer.upToDate THEN "idle" ELSE "get"
    /\ answer' = NoAnswer
    /\ UNCHANGED <<now, nodeStoreVars, lastChange, flushedConfigs, polled, sincePoll>>

WithinGracePeriod == heartbeat < Grace

\* Mutant: an error always counts as up to date.
StatusFailsForever ==
    /\ pollPc \in {"post", "posted"}
    /\ pollPc' = "idle"
    /\ answer' = NoAnswer
    /\ UNCHANGED <<now, nodeStoreVars, providerVars, sincePoll, silent>>

\* The POST fails, before or after it was served: the provider says it is up to
\* date during the grace period, and asks for the configurations after it.
StatusFails ==
    /\ pollPc \in {"post", "posted"}
    /\ pollPc' = IF WithinGracePeriod THEN "idle" ELSE "get"
    /\ answer' = NoAnswer
    /\ UNCHANGED <<now, nodeStoreVars, providerVars, sincePoll, silent>>

\* Mutant: the timestamp is the node agent's own.
CollectedLocalTime ==
    /\ pollPc = "got"
    /\ flushedConfigs' = FALSE
    /\ lastChange' = now
    /\ polled' = answer.configs
    /\ silent' = 0
    /\ pollPc' = "idle"
    /\ answer' = NoAnswer
    /\ UNCHANGED <<now, nodeStoreVars, heartbeat, sincePoll>>

\* Collect succeeds: the poller schedules what is new and unschedules the rest.
Collected ==
    /\ pollPc = "got"
    /\ flushedConfigs' = FALSE
    /\ lastChange' = answer.lastChange
    /\ polled' = answer.configs
    /\ silent' = 0
    /\ pollPc' = "idle"
    /\ answer' = NoAnswer
    /\ UNCHANGED <<now, nodeStoreVars, heartbeat, sincePoll>>

\* Collect fails, because the request does or because the node is unknown: the
\* first error is masked, which unschedules everything; the others change nothing.
CollectFails ==
    /\ pollPc \in {"get", "got"}
    /\ flushedConfigs' = TRUE
    /\ polled' = IF flushedConfigs THEN polled ELSE {}
    /\ pollPc' = "idle"
    /\ answer' = NoAnswer
    /\ UNCHANGED <<now, nodeStoreVars, lastChange, heartbeat, sincePoll, silent>>

\* The agent restarts, until the clock of the model stops.
Restart ==
    /\ now < MaxTime
    /\ lastChange' = 0
    /\ heartbeat' = Grace
    /\ flushedConfigs' = FALSE
    /\ polled' = {}
    /\ pollPc' = "idle"
    /\ answer' = NoAnswer
    /\ UNCHANGED <<now, nodeStoreVars, sincePoll, silent>>

\* Time passes.
Capped(n, max) == IF n < max THEN n + 1 ELSE max

SyncTick ==
    /\ now < MaxTime
    /\ sincePoll < PollInterval
    /\ now' = now + 1
    /\ nodeSeen' = Capped(nodeSeen, Expiration + 1)
    /\ heartbeat' = Capped(heartbeat, Grace)
    /\ sincePoll' = sincePoll + 1
    /\ silent' = Capped(silent, TwoPolls)
    /\ UNCHANGED <<serving, known, dispatched, lastConfigChange, lastChange, flushedConfigs,
                   polled, pollPc, answer>>

-----------------------------------------------------------------------------

SyncNext ==
    \/ \E c \in SyncConfigs : Dispatch(c) \/ Withdraw(c)
    \/ ExpireNode
    \/ NewLeader
    \/ Serve
    \/ ProcessNodeStatus
    \/ GetNodeConfigs
    \/ Poll
    \/ StatusAnswered
    \/ StatusFails
    \/ Collected
    \/ CollectFails
    \/ Restart
    \/ SyncTick

SyncSpec == SyncInit /\ [][SyncNext]_syncVars

\* Time passes, the poller keeps polling, and among the requests that are sent again and again
\* some are served and answered; a request that is not answered times out.
SyncFairness ==
    /\ WF_syncVars(Poll)
    /\ SF_syncVars(ProcessNodeStatus)
    /\ SF_syncVars(StatusAnswered)
    /\ SF_syncVars(GetNodeConfigs)
    /\ SF_syncVars(Collected)
    /\ WF_syncVars(StatusFails)
    /\ WF_syncVars(CollectFails)
    /\ WF_syncVars(SyncTick)

-----------------------------------------------------------------------------
(* Properties. *)

\* The values the variables range over.
SyncTypeOK ==
    /\ now \in 1..MaxTime
    /\ serving \in BOOLEAN /\ known \in BOOLEAN /\ flushedConfigs \in BOOLEAN
    /\ dispatched \subseteq SyncConfigs
    /\ polled \subseteq SyncConfigs
    /\ lastConfigChange \in 0..MaxTime /\ lastChange \in 0..MaxTime
    /\ nodeSeen \in 0..(Expiration + 1)
    /\ heartbeat \in 0..Grace
    /\ pollPc \in {"idle", "post", "posted", "get", "got"}
    /\ answer \in [upToDate : BOOLEAN, configs : SUBSET SyncConfigs, lastChange : 0..MaxTime]
    /\ sincePoll \in 0..PollInterval
    /\ silent \in 0..TwoPolls

\* A node agent whose timestamp matches is left alone by processNodeStatus, so it
\* must run what is dispatched to it, whatever was lost, restarted or forgotten.
\* The exception is real: Collect does not reset lastChange when it flushes the
\* configurations, so that a node whose store survived the outage is told that it
\* is up to date while it runs nothing.
MatchedIsSynced ==
    (known /\ lastChange = lastConfigChange) =>
        polled = dispatched \/ (flushedConfigs /\ polled = {})

\* The configurations of a node that was cut off are given to another node after
\* Expiration: a node agent that gets no answer stops its checks by itself, at the
\* latest with the first poll that begins after the grace period, and does not start
\* them again.
SilentNodeStops == silent = TwoPolls => polled = {}

\* When the leader stays, the node agent ends with what is dispatched to it
\* although requests are lost, or in the exception of MatchedIsSynced.
EventuallySynced ==
    <>[]serving =>
        <>[](polled = dispatched \/ (flushedConfigs /\ lastChange = lastConfigChange))

===============================================================================
