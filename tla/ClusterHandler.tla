---------------------------- MODULE ClusterHandler ----------------------------
(***************************************************************************)
(* The cluster-check Handler of the cluster agent                          *)
(* (pkg/clusteragent/clusterchecks/handler.go and api.go).  Goroutines:    *)
(*                                                                         *)
(*   leaderWatch  asks the leader-election engine and reports a change of  *)
(*                state on leadershipChan, a channel of capacity one, while *)
(*                it holds the handler's mutex;                             *)
(*   Run          waits for the leadership, then for the warmup, then       *)
(*                starts a runDispatch and waits for the loss of the        *)
(*                leadership;                                               *)
(*   runDispatch  one per leadership: it is cancelled, not waited for;      *)
(*   the API      which reads the state under the mutex.                    *)
(*                                                                         *)
(* The dispatcher's own steps are in ClusterDispatcher: here AddScheduler   *)
(* (register and replay), run, reset and RemoveScheduler are one step each. *)
(***************************************************************************)
EXTENDS Naturals, Sequences, SequencesExt

CONSTANTS
    MaxDispatches,   \* bound on the runDispatch goroutines at one time
    SlowDispatch,    \* a cancelled runDispatch may outlive the next warmup
    Requests         \* API requests that are served concurrently

ASSUME HandlerAssumption ==
    /\ MaxDispatches \in Nat \ {0}
    /\ SlowDispatch \in BOOLEAN

VARIABLES
    elected,         \* the engine's answer: "" (this agent leads) is TRUE
    hState,          \* Handler.state
    leadershipChan,  \* the channel
    watcher,         \* "idle", "send" (it holds the mutex) or "done"
    runPc,           \* Run: "follow", "warmup", "lead" or "done"
    ctxDone,         \* the context of Run and leaderWatch is cancelled
    dispatch,        \* the runDispatch goroutines that have not ended, oldest first
    inScheduler,     \* the dispatcher is registered in the MetaScheduler
    loadedStore,     \* the store holds the replayed configurations
    activeStore,     \* clusterStore.active
    waiting          \* requests that wait for the mutex

runVars == <<runPc, dispatch>>
dispatcherVars == <<inScheduler, loadedStore, activeStore>>
watchVars == <<elected, hState, watcher>>
handlerVars == <<watchVars, leadershipChan, runVars, ctxDone, dispatcherVars, waiting>>

HandlerInit ==
    /\ elected \in BOOLEAN
    /\ hState = "unknown"
    /\ leadershipChan = <<>>
    /\ watcher = "idle"
    /\ runPc = "follow"
    /\ ctxDone = FALSE
    /\ dispatch = <<>>
    /\ inScheduler = FALSE
    /\ loadedStore = FALSE
    /\ activeStore = FALSE
    /\ waiting = {}

-----------------------------------------------------------------------------
(* The leader-election engine, and leaderWatch. *)

Elect ==
    /\ elected' = ~elected
    /\ UNCHANGED <<hState, watcher, leadershipChan, runVars, ctxDone, dispatcherVars, waiting>>

StateOf(e) == IF e THEN "leader" ELSE "follower"

\* updateLeaderIP after the engine has answered: a change of state is stored and
\* the mutex is kept until the channel has taken it.  When the engine fails, or
\* the state is still the same, nothing changes.
UpdateLeaderIP ==
    /\ watcher = "idle"
    /\ StateOf(elected) # hState
    /\ hState' = StateOf(elected)
    /\ watcher' = "send"
    /\ UNCHANGED <<elected, leadershipChan, runVars, ctxDone, dispatcherVars, waiting>>

\* The channel has room: the state is sent and the mutex is released.
SendState ==
    /\ watcher = "send"
    /\ leadershipChan = <<>>
    /\ leadershipChan' = <<hState>>
    /\ watcher' = "idle"
    /\ UNCHANGED <<elected, hState, runVars, ctxDone, dispatcherVars, waiting>>

\* leaderWatch sees that the context is done.
WatchDone ==
    /\ watcher = "idle" /\ ctxDone
    /\ watcher' = "done"
    /\ UNCHANGED <<elected, hState, leadershipChan, runVars, ctxDone, dispatcherVars, waiting>>

-----------------------------------------------------------------------------
(* Run. *)

\* The last runDispatch is cancelled, if it has not ended.
CancelLast ==
    dispatch' = [i \in DOMAIN dispatch |->
                   IF i = Len(dispatch) THEN [dispatch[i] EXCEPT !.cancelled = TRUE]
                                        ELSE dispatch[i]]

\* Mutant: nothing is received any more once the dispatching has started.
ReceiveNotLeading ==
    /\ leadershipChan # <<>> /\ runPc \in {"follow", "warmup"}
    /\ leadershipChan' = <<>>
    /\ runPc' = IF Head(leadershipChan) = "leader" THEN "warmup" ELSE "follow"
    /\ UNCHANGED <<watchVars, dispatch, ctxDone, dispatcherVars, waiting>>

\* Mutant: the dispatching is not cancelled when the leadership is lost.
ReceiveNoCancel ==
    /\ leadershipChan # <<>> /\ runPc # "done"
    /\ leadershipChan' = <<>>
    /\ runPc' = IF Head(leadershipChan) # "leader" THEN "follow"
                ELSE IF runPc = "follow" THEN "warmup" ELSE runPc
    /\ UNCHANGED <<watchVars, dispatch, ctxDone, dispatcherVars, waiting>>

\* The three receives of Run: anything but "leader" brings it back to its first
\* select, and cancels the dispatching if there is one.  (A second "leader" would
\* end the warmup: the states on the channel alternate, so there is none.)
Receive ==
    /\ leadershipChan # <<>>
    /\ leadershipChan' = <<>>
    /\ LET s == Head(leadershipChan) IN
       \/ /\ runPc \in {"follow", "warmup"}
          /\ runPc' = IF s = "leader" THEN "warmup" ELSE "follow"
          /\ UNCHANGED dispatch
       \/ /\ runPc = "lead"
          /\ IF s = "leader" THEN UNCHANGED <<runPc, dispatch>>
                             ELSE runPc' = "follow" /\ CancelLast
    /\ UNCHANGED <<watchVars, ctxDone, dispatcherVars, waiting>>

\* Mutant: there is no warmup.
EndWarmupEarly ==
    /\ runPc = "warmup"
    /\ Len(dispatch) < MaxDispatches
    /\ runPc' = "lead"
    /\ dispatch' = Append(dispatch, [stage |-> "add", cancelled |-> FALSE])
    /\ UNCHANGED <<watchVars, leadershipChan, ctxDone, dispatcherVars, waiting>>

\* The warmup is over: the goroutine runDispatch starts.  Unless SlowDispatch, the
\* previous one has finished within the duration of the warmup.
EndWarmup ==
    /\ runPc = "warmup"
    /\ Len(dispatch) < MaxDispatches
    /\ SlowDispatch \/ dispatch = <<>>
    /\ runPc' = "lead"
    /\ dispatch' = Append(dispatch, [stage |-> "add", cancelled |-> FALSE])
    /\ UNCHANGED <<watchVars, leadershipChan, ctxDone, dispatcherVars, waiting>>

\* The agent stops; Run may see it in any of its selects.
Cancel ==
    /\ ~ctxDone
    /\ ctxDone' = TRUE
    /\ UNCHANGED <<watchVars, leadershipChan, runVars, dispatcherVars, waiting>>

RunDone ==
    /\ ctxDone /\ runPc # "done"
    /\ IF runPc = "lead" THEN CancelLast ELSE UNCHANGED dispatch
    /\ runPc' = "done"
    /\ UNCHANGED <<watchVars, leadershipChan, ctxDone, dispatcherVars, waiting>>

-----------------------------------------------------------------------------
(* runDispatch. *)

Stage(i, from, to) ==
    /\ dispatch[i].stage = from
    /\ dispatch' = [dispatch EXCEPT ![i].stage = to]

\* AddScheduler, with a replay.
AddScheduler(i) ==
    /\ Stage(i, "add", "start")
    /\ inScheduler' = TRUE
    /\ loadedStore' = TRUE
    /\ UNCHANGED <<watchVars, leadershipChan, runPc, ctxDone, activeStore, waiting>>

\* dispatcher.run: the store is active ...
StartLoop(i) ==
    /\ Stage(i, "start", "run")
    /\ activeStore' = TRUE
    /\ UNCHANGED <<watchVars, leadershipChan, runPc, ctxDone, inScheduler, loadedStore, waiting>>

\* Mutant: the dispatcher is not reset when it stops.
NoReset(i) ==
    /\ dispatch[i].cancelled \/ ctxDone
    /\ Stage(i, "run", "remove")
    /\ UNCHANGED <<watchVars, leadershipChan, runPc, ctxDone, dispatcherVars, waiting>>

\* ... until the context is cancelled: dispatcher.reset ...
ResetDispatcher(i) ==
    /\ dispatch[i].cancelled \/ ctxDone
    /\ Stage(i, "run", "remove")
    /\ loadedStore' = FALSE
    /\ activeStore' = FALSE
    /\ UNCHANGED <<watchVars, leadershipChan, runPc, ctxDone, inScheduler, waiting>>

\* ... and RemoveScheduler.
RemoveScheduler(i) ==
    /\ dispatch[i].stage = "remove"
    /\ dispatch' = RemoveAt(dispatch, i)
    /\ inScheduler' = FALSE
    /\ UNCHANGED <<watchVars, leadershipChan, runPc, ctxDone, loadedStore, activeStore, waiting>>

-----------------------------------------------------------------------------
(* The API: ShouldHandle and GetState take the mutex for reading. *)

Request(r) ==
    /\ r \notin waiting
    /\ waiting' = waiting \cup {r}
    /\ UNCHANGED <<watchVars, leadershipChan, runVars, ctxDone, dispatcherVars>>

Answer(r) ==
    /\ r \in waiting
    /\ watcher # "send"
    /\ waiting' = waiting \ {r}
    /\ UNCHANGED <<watchVars, leadershipChan, runVars, ctxDone, dispatcherVars>>

-----------------------------------------------------------------------------

DispatchStep(i) == AddScheduler(i) \/ StartLoop(i) \/ ResetDispatcher(i) \/ RemoveScheduler(i)

HandlerNext ==
    \/ Elect
    \/ UpdateLeaderIP
    \/ SendState
    \/ WatchDone
    \/ Receive
    \/ EndWarmup
    \/ Cancel
    \/ RunDone
    \/ \E i \in DOMAIN dispatch :
          AddScheduler(i) \/ StartLoop(i) \/ ResetDispatcher(i) \/ RemoveScheduler(i)
    \/ \E r \in Requests : Request(r) \/ Answer(r)

HandlerSpec == HandlerInit /\ [][HandlerNext]_handlerVars

\* leaderWatch's ticker fires, Run's selects are served, time passes during the
\* warmup, and goroutines that can run do.  The answers need strong fairness: the
\* mutex is free again and again, and sync.RWMutex starves no reader.
HandlerFairness ==
    /\ WF_handlerVars(UpdateLeaderIP)
    /\ WF_handlerVars(SendState)
    /\ WF_handlerVars(Receive)
    /\ WF_handlerVars(EndWarmup)
    /\ \A i \in 1..MaxDispatches :
          WF_handlerVars(i \in DOMAIN dispatch /\ DispatchStep(i))
    /\ \A r \in Requests : SF_handlerVars(Answer(r))

-----------------------------------------------------------------------------
(* Properties. *)

\* The values the variables range over.
HandlerTypeOK ==
    /\ elected \in BOOLEAN
    /\ hState \in {"unknown", "leader", "follower"}
    /\ leadershipChan \in {<<>>, <<"leader">>, <<"follower">>}
    /\ watcher \in {"idle", "send", "done"}
    /\ runPc \in {"follow", "warmup", "lead", "done"}
    /\ ctxDone \in BOOLEAN
    /\ dispatch \in Seq([stage : {"add", "start", "run", "remove"},
                         cancelled : BOOLEAN])
    /\ Len(dispatch) <= MaxDispatches
    /\ inScheduler \in BOOLEAN
    /\ loadedStore \in BOOLEAN
    /\ activeStore \in BOOLEAN
    /\ waiting \subseteq Requests

\* No change of the leadership is lost or reordered between leaderWatch and Run:
\* whenever nothing is on its way, Run leads (or warms up) exactly when the state
\* the API answers with is leader.
RunFollowsState ==
    (leadershipChan = <<>> /\ watcher # "send" /\ runPc # "done") =>
        (runPc \in {"warmup", "lead"} <=> hState = "leader")

\* An agent that does not lead dispatches nothing: once the cancelled goroutines
\* have ended, the dispatcher is out of the MetaScheduler and its store is empty
\* and inactive.
FollowerForgets ==
    (runPc \in {"follow", "warmup"} /\ dispatch = <<>>) =>
        ~inScheduler /\ ~loadedStore /\ ~activeStore

\* A leader whose dispatcher is in its loop gets the configurations: neither the
\* reset nor the RemoveScheduler of an earlier runDispatch undoes its AddScheduler.
LeaderServes ==
    (runPc = "lead" /\ ~ctxDone /\ Last(dispatch).stage = "run") =>
        inScheduler /\ loadedStore /\ activeStore

\* The requests of the node agents are answered although updateLeaderIP holds the
\* mutex while it waits for room in the channel: Run always comes back to receive.
RequestsAnswered ==
    \A r \in Requests : (r \in waiting) ~> (r \notin waiting \/ ctxDone)

\* The agent ends in the role that the engine settles on: an elected agent
\* dispatches in the end, one that is not elected stops.
RoleSettles ==
    /\ <>[](elected /\ ~ctxDone) => <>[](hState = "leader" /\ inScheduler /\ activeStore)
    /\ <>[](~elected) => <>[](~inScheduler /\ ~activeStore)
===============================================================================
