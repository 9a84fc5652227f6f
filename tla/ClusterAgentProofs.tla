-------------------------- MODULE ClusterAgentProofs --------------------------
(* Proofs about ClusterHandler, for any bound on the runDispatch goroutines, slow *)
(* or not, and any requests; and about ClusterCheckSync, for any configurations,  *)
(* timeouts and bound on the time.                                               *)
EXTENDS ClusterHandler, ClusterCheckSync, DataTheorems

Dispatches == [stage : {"add", "start", "run", "remove"}, cancelled : BOOLEAN]

-----------------------------------------------------------------------------
(* Type correctness. *)

\* HandlerTypeOK, with the goroutines apart.
DispatchOK == dispatch \in Seq(Dispatches) /\ Len(dispatch) <= MaxDispatches

LEMMA CancelLastType ==
    ASSUME DispatchOK, CancelLast
    PROVE  DispatchOK'
<1>1. Len(dispatch) \in Nat /\ dispatch \in [1..Len(dispatch) -> Dispatches]
  BY DEF DispatchOK
<1>2. \A k \in 1..Len(dispatch) : [dispatch[k] EXCEPT !.cancelled = TRUE] \in Dispatches
  BY <1>1 DEF Dispatches
<1>3. dispatch' \in [1..Len(dispatch) -> Dispatches]
  BY <1>1, <1>2 DEF CancelLast
<1>4. dispatch' \in Seq(Dispatches) /\ Len(dispatch') = Len(dispatch)
  BY <1>1, <1>3, FunctionIsSeq
<1> QED BY <1>4 DEF DispatchOK

LEMMA StageType ==
    ASSUME DispatchOK, NEW i \in DOMAIN dispatch, NEW from,
           NEW to \in {"add", "start", "run", "remove"}, Stage(i, from, to)
    PROVE  DispatchOK' /\ DOMAIN dispatch' = DOMAIN dispatch
<1>1. Len(dispatch) \in Nat /\ dispatch \in [1..Len(dispatch) -> Dispatches]
  BY DEF DispatchOK
<1>2. [dispatch[i] EXCEPT !.stage = to] \in Dispatches
  BY <1>1 DEF Dispatches
<1>3. dispatch' \in [1..Len(dispatch) -> Dispatches]
  BY <1>1, <1>2 DEF Stage
<1>4. dispatch' \in Seq(Dispatches) /\ Len(dispatch') = Len(dispatch)
  BY <1>1, <1>3, FunctionIsSeq
<1> QED BY <1>1, <1>3, <1>4 DEF DispatchOK

LEMMA DispatchStep_Type ==
    DispatchOK /\ [HandlerNext]_handlerVars => DispatchOK'
<1> SUFFICES ASSUME DispatchOK, [HandlerNext]_handlerVars
             PROVE  DispatchOK'
  OBVIOUS
<1>1. CASE UNCHANGED dispatch
  BY <1>1 DEF DispatchOK
<1>2. CASE Receive
  BY <1>1, <1>2, CancelLastType DEF Receive
<1>3. CASE EndWarmup
  <2>1. dispatch' \in Seq(Dispatches) /\ Len(dispatch') = Len(dispatch) + 1
    BY <1>3 DEF EndWarmup, DispatchOK, Dispatches
  <2> QED BY <1>3, <2>1, HandlerAssumption DEF EndWarmup, DispatchOK, HandlerAssumption
<1>4. CASE RunDone
  BY <1>1, <1>4, CancelLastType DEF RunDone
<1>5. ASSUME NEW i \in DOMAIN dispatch,
             AddScheduler(i) \/ StartLoop(i) \/ ResetDispatcher(i)
      PROVE  DispatchOK'
  BY <1>5, StageType DEF AddScheduler, StartLoop, ResetDispatcher
<1>6. ASSUME NEW i \in DOMAIN dispatch, RemoveScheduler(i)
      PROVE  DispatchOK'
  <2>1. dispatch' \in Seq(Dispatches) /\ Len(dispatch') = Len(dispatch) - 1
    BY <1>6, RemoveAtFacts DEF DispatchOK, RemoveScheduler
  <2> QED BY <2>1, HandlerAssumption DEF DispatchOK, HandlerAssumption
<1> QED BY <1>1, <1>2, <1>3, <1>4, <1>5, <1>6
        DEF HandlerNext, handlerVars, runVars, Elect, UpdateLeaderIP, SendState, WatchDone,
            Cancel, Request, Answer

ScalarsOK ==
    /\ elected \in BOOLEAN
    /\ hState \in {"unknown", "leader", "follower"}
    /\ leadershipChan \in {<<>>, <<"leader">>, <<"follower">>}
    /\ watcher \in {"idle", "send", "done"}
    /\ watcher = "send" => hState # "unknown"
    /\ runPc \in {"follow", "warmup", "lead", "done"}
    /\ ctxDone \in BOOLEAN
    /\ inScheduler \in BOOLEAN
    /\ loadedStore \in BOOLEAN
    /\ activeStore \in BOOLEAN
    /\ waiting \subseteq Requests

LEMMA ScalarsStep ==
    ScalarsOK /\ [HandlerNext]_handlerVars => ScalarsOK'
<1> SUFFICES ASSUME ScalarsOK, [HandlerNext]_handlerVars
             PROVE  ScalarsOK'
  OBVIOUS
<1>1. CASE Elect
  BY <1>1 DEF ScalarsOK, Elect, runVars, dispatcherVars
<1>2. CASE UpdateLeaderIP
  BY <1>2 DEF ScalarsOK, UpdateLeaderIP, StateOf, runVars, dispatcherVars
<1>3. CASE SendState
  BY <1>3 DEF ScalarsOK, SendState, runVars, dispatcherVars
<1>4. CASE WatchDone
  BY <1>4 DEF ScalarsOK, WatchDone, runVars, dispatcherVars
<1>5. CASE Receive
  <2>1. runPc' \in {"follow", "warmup", "lead", "done"}
    BY <1>5 DEF ScalarsOK, Receive
  <2> QED BY <1>5, <2>1 DEF ScalarsOK, Receive, watchVars, dispatcherVars
<1>6. CASE EndWarmup
  BY <1>6 DEF ScalarsOK, EndWarmup, watchVars, dispatcherVars
<1>7. CASE Cancel
  BY <1>7 DEF ScalarsOK, Cancel, watchVars, runVars, dispatcherVars
<1>8. CASE RunDone
  BY <1>8 DEF ScalarsOK, RunDone, watchVars, dispatcherVars
<1>9. ASSUME NEW i \in DOMAIN dispatch,
             AddScheduler(i) \/ StartLoop(i) \/ ResetDispatcher(i) \/ RemoveScheduler(i)
      PROVE  ScalarsOK'
  <2>1. CASE AddScheduler(i)
    BY <2>1 DEF ScalarsOK, AddScheduler, watchVars
  <2>2. CASE StartLoop(i)
    BY <2>2 DEF ScalarsOK, StartLoop, watchVars
  <2>3. CASE ResetDispatcher(i)
    BY <2>3 DEF ScalarsOK, ResetDispatcher, watchVars
  <2>4. CASE RemoveScheduler(i)
    BY <2>4 DEF ScalarsOK, RemoveScheduler, watchVars
  <2> QED BY <1>9, <2>1, <2>2, <2>3, <2>4
<1>10. ASSUME NEW r \in Requests, Request(r) \/ Answer(r)
       PROVE  ScalarsOK'
  BY <1>10 DEF ScalarsOK, Request, Answer, watchVars, runVars, dispatcherVars
<1>11. CASE UNCHANGED handlerVars
  BY <1>11 DEF ScalarsOK, handlerVars, watchVars, runVars, dispatcherVars
<1> QED BY <1>1, <1>2, <1>3, <1>4, <1>5, <1>6, <1>7, <1>8, <1>9, <1>10, <1>11
        DEF HandlerNext

\* The channel holds one state at most, no more than MaxDispatches goroutines are
\* under way, and the variables keep their types: HandlerTypeOK.
THEOREM HandlerTypeCorrect == HandlerSpec => []HandlerTypeOK
<1>1. HandlerInit => ScalarsOK /\ DispatchOK
  <2>1. HandlerInit => ScalarsOK
    BY DEF HandlerInit, ScalarsOK
  <2>2. HandlerInit => DispatchOK
    BY HandlerAssumption DEF HandlerInit, DispatchOK, HandlerAssumption
  <2> QED BY <2>1, <2>2
<1>2. (ScalarsOK /\ DispatchOK) /\ [HandlerNext]_handlerVars => (ScalarsOK /\ DispatchOK)'
  BY ScalarsStep, DispatchStep_Type
<1>3. ScalarsOK /\ DispatchOK => HandlerTypeOK
  BY DEF ScalarsOK, DispatchOK, HandlerTypeOK, Dispatches
<1> QED BY <1>1, <1>2, <1>3, PTL DEF HandlerSpec

-----------------------------------------------------------------------------
(* What Run does follows what the API answers. *)

\* Unless leaderWatch waits to send the next one, the state on the channel is the
\* state the handler answers with.
ChanIsState ==
    leadershipChan # <<>> /\ watcher # "send" => leadershipChan = <<hState>>

FollowInv == ScalarsOK /\ ChanIsState /\ RunFollowsState

LEMMA FollowStep ==
    FollowInv /\ [HandlerNext]_handlerVars => ChanIsState' /\ RunFollowsState'
<1> SUFFICES ASSUME FollowInv, [HandlerNext]_handlerVars
             PROVE  ChanIsState' /\ RunFollowsState'
  OBVIOUS
<1> USE DEF FollowInv, ChanIsState, RunFollowsState
<1>1. CASE UNCHANGED <<hState, watcher, leadershipChan, runPc>>
  BY <1>1
<1>2. CASE UpdateLeaderIP
  BY <1>2 DEF UpdateLeaderIP
<1>3. CASE SendState
  BY <1>3 DEF SendState
<1>4. CASE WatchDone
  BY <1>4 DEF WatchDone, runVars
<1>5. CASE Receive
  <2>1. leadershipChan' = <<>> /\ watcher' = watcher /\ hState' = hState
    BY <1>5 DEF Receive, watchVars
  <2>2. ASSUME watcher # "send"
        PROVE  runPc' \in {"warmup", "lead"} <=> hState = "leader"
    <3>1. Head(leadershipChan) = hState
      BY <1>5, <2>2 DEF Receive
    <3> QED BY <1>5, <3>1 DEF Receive
  <2> QED BY <2>1, <2>2
<1>6. CASE EndWarmup
  BY <1>6 DEF EndWarmup, watchVars
<1>7. CASE RunDone
  BY <1>7 DEF RunDone, watchVars
<1> QED BY <1>1, <1>2, <1>3, <1>4, <1>5, <1>6, <1>7
        DEF HandlerNext, handlerVars, watchVars, runVars, Elect, Cancel, AddScheduler,
            StartLoop, ResetDispatcher, RemoveScheduler, Request, Answer

\* No change of the leadership that updateLeaderIP sends is lost or overtaken: when
\* none is on its way, Run leads or warms up exactly when GetState says leader.
THEOREM RunFollows == HandlerSpec => []RunFollowsState
<1>1. HandlerInit => FollowInv
  BY DEF HandlerInit, FollowInv, ScalarsOK, ChanIsState, RunFollowsState
<1>2. FollowInv /\ [HandlerNext]_handlerVars => FollowInv'
  BY ScalarsStep, FollowStep DEF FollowInv
<1>3. FollowInv => RunFollowsState
  BY DEF FollowInv
<1> QED BY <1>1, <1>2, <1>3, PTL DEF HandlerSpec

-----------------------------------------------------------------------------
(* What a runDispatch has set, one that has not ended will reset. *)

InStage(stages) == \E i \in DOMAIN dispatch : dispatch[i].stage \in stages

OwnedInv ==
    /\ loadedStore => InStage({"start", "run"})
    /\ activeStore => InStage({"run"})
    /\ inScheduler => InStage({"start", "run", "remove"})

\* A step that leaves every goroutine at its stage leaves OwnedInv as it is.
LEMMA SameStages ==
    ASSUME OwnedInv, UNCHANGED dispatcherVars,
           \A i \in DOMAIN dispatch :
              i \in DOMAIN dispatch' /\ dispatch'[i].stage = dispatch[i].stage
    PROVE  OwnedInv'
BY DEF OwnedInv, InStage, dispatcherVars

LEMMA CancelKeepsStages ==
    ASSUME DispatchOK, CancelLast, NEW i \in DOMAIN dispatch
    PROVE  i \in DOMAIN dispatch' /\ dispatch'[i].stage = dispatch[i].stage
<1>1. dispatch[i] \in Dispatches
  BY DEF DispatchOK
<1> QED BY <1>1 DEF CancelLast, Dispatches

\* One goroutine passes to its next stage, the others stay.
LEMMA StageMoves ==
    ASSUME DispatchOK, NEW i \in DOMAIN dispatch, NEW from, NEW to, Stage(i, from, to)
    PROVE  /\ DOMAIN dispatch' = DOMAIN dispatch
           /\ dispatch'[i].stage = to
           /\ \A j \in DOMAIN dispatch : j # i => dispatch'[j] = dispatch[j]
<1>1. dispatch[i] \in Dispatches
  BY DEF DispatchOK
<1> QED BY <1>1 DEF Stage, Dispatches

LEMMA OwnedStep ==
    DispatchOK /\ OwnedInv /\ [HandlerNext]_handlerVars => OwnedInv'
<1> SUFFICES ASSUME DispatchOK, OwnedInv, [HandlerNext]_handlerVars
             PROVE  OwnedInv'
  OBVIOUS
<1>1. CASE UNCHANGED <<dispatch, dispatcherVars>>
  BY <1>1, SameStages
<1>2. CASE Receive
  <2>1. UNCHANGED dispatcherVars /\ (UNCHANGED dispatch \/ CancelLast)
    BY <1>2 DEF Receive
  <2> QED BY <2>1, SameStages, CancelKeepsStages
<1>3. CASE RunDone
  <2>1. UNCHANGED dispatcherVars /\ (UNCHANGED dispatch \/ CancelLast)
    BY <1>3 DEF RunDone
  <2> QED BY <2>1, SameStages, CancelKeepsStages
<1>4. CASE EndWarmup
  <2>1. UNCHANGED dispatcherVars
    BY <1>4 DEF EndWarmup
  <2>2. \A i \in DOMAIN dispatch : i \in DOMAIN dispatch' /\ dispatch'[i] = dispatch[i]
    BY <1>4 DEF EndWarmup, DispatchOK
  <2> QED BY <2>1, <2>2, SameStages
<1>5. ASSUME NEW i \in DOMAIN dispatch, AddScheduler(i)
      PROVE  OwnedInv'
  <2>1. Stage(i, "add", "start") /\ UNCHANGED activeStore
    BY <1>5 DEF AddScheduler
  <2>2. dispatch[i].stage = "add"
    BY <2>1 DEF Stage
  <2> QED BY <2>1, <2>2, StageMoves DEF OwnedInv, InStage
<1>6. ASSUME NEW i \in DOMAIN dispatch, StartLoop(i)
      PROVE  OwnedInv'
  <2>1. Stage(i, "start", "run") /\ UNCHANGED <<inScheduler, loadedStore>>
    BY <1>6 DEF StartLoop
  <2> QED BY <2>1, StageMoves DEF OwnedInv, InStage
<1>7. ASSUME NEW i \in DOMAIN dispatch, ResetDispatcher(i)
      PROVE  OwnedInv'
  <2>1. Stage(i, "run", "remove") /\ ~loadedStore' /\ ~activeStore'
    BY <1>7 DEF ResetDispatcher
  <2> QED BY <2>1, StageMoves DEF OwnedInv, InStage
<1>8. ASSUME NEW i \in DOMAIN dispatch, RemoveScheduler(i)
      PROVE  OwnedInv'
  <2>1. /\ dispatch[i].stage = "remove"
        /\ ~inScheduler'
        /\ UNCHANGED <<loadedStore, activeStore>>
    BY <1>8 DEF RemoveScheduler
  <2>2. \A j \in DOMAIN dispatch : j # i =>
           \E k \in DOMAIN dispatch' : dispatch'[k] = dispatch[j]
    BY <1>8, RemoveAtFacts DEF DispatchOK, RemoveScheduler
  <2> QED BY <2>1, <2>2 DEF OwnedInv, InStage
<1> QED BY <1>1, <1>2, <1>3, <1>4, <1>5, <1>6, <1>7, <1>8
        DEF HandlerNext, handlerVars, runVars, Elect, UpdateLeaderIP, SendState, WatchDone,
            Cancel, Request, Answer

\* An agent that does not lead, and whose runDispatch goroutines have ended, is out of
\* the MetaScheduler with an empty and inactive store: even if several of them
\* overlap, the last to end leaves nothing behind.
THEOREM Forgets == HandlerSpec => []FollowerForgets
<1>1. HandlerInit => DispatchOK /\ OwnedInv
  BY HandlerAssumption DEF HandlerInit, DispatchOK, HandlerAssumption, OwnedInv
<1>2. (DispatchOK /\ OwnedInv) /\ [HandlerNext]_handlerVars => (DispatchOK /\ OwnedInv)'
  BY DispatchStep_Type, OwnedStep
<1>3. OwnedInv => FollowerForgets
  BY DEF OwnedInv, InStage, FollowerForgets
<1> QED BY <1>1, <1>2, <1>3, PTL DEF HandlerSpec

-----------------------------------------------------------------------------
(* The dispatcher of a leader is served, when a cancelled runDispatch ends within *)
(* the warmup of the next one.                                                    *)

Leading == runPc = "lead" /\ ~ctxDone

\* The only goroutine, and what it has set so far.
Serving(d) ==
    /\ ~d.cancelled
    /\ d.stage \in {"add", "start", "run"}
    /\ d.stage \in {"start", "run"} => inScheduler /\ loadedStore
    /\ d.stage = "run" => activeStore

ServesInv ==
    /\ DOMAIN dispatch \subseteq {1}
    /\ Leading => 1 \in DOMAIN dispatch /\ Serving(dispatch[1])

LEMMA ServesStep ==
    ASSUME SlowDispatch = FALSE, DispatchOK, ScalarsOK, ServesInv, [HandlerNext]_handlerVars
    PROVE  ServesInv'
<1>1. \A i \in DOMAIN dispatch : i = 1 /\ dispatch[i] \in Dispatches
  BY DEF ServesInv, DispatchOK
<1>2. CASE UNCHANGED <<dispatch, dispatcherVars>> /\ (Leading' => Leading)
  BY <1>2 DEF ServesInv, Serving, Leading, dispatcherVars
<1>3. ASSUME UNCHANGED dispatch \/ CancelLast, ~Leading'
      PROVE  ServesInv'
  <2>1. DOMAIN dispatch' = DOMAIN dispatch
    BY <1>3 DEF CancelLast
  <2> QED BY <1>3, <2>1 DEF ServesInv
<1>4. CASE Receive
  <2>1. CASE UNCHANGED dispatch /\ (Leading' => Leading)
    BY <1>2, <1>4, <2>1 DEF Receive
  <2>2. CASE (UNCHANGED dispatch \/ CancelLast) /\ runPc' # "lead"
    BY <1>3, <2>2 DEF Leading
  <2> QED BY <1>4, <2>1, <2>2 DEF Receive, Leading
<1>5. CASE RunDone
  BY <1>3, <1>5 DEF RunDone, Leading
<1>6. CASE EndWarmup
  <2> DEFINE d == [stage |-> "add", cancelled |-> FALSE]
  <2>1. dispatch = <<>> /\ dispatch' = Append(dispatch, d)
    BY <1>6 DEF EndWarmup
  <2>2. DOMAIN dispatch' = {1} /\ dispatch'[1] = d
    <3> HIDE DEF d
    <3>1. dispatch' = <<d>>
      BY <2>1
    <3> QED BY <3>1
  <2> QED BY <2>2 DEF ServesInv, Serving
<1>7. ASSUME NEW i \in DOMAIN dispatch, AddScheduler(i)
      PROVE  ServesInv'
  <2>1. /\ dispatch[1].stage = "add" /\ dispatch' = [dispatch EXCEPT ![1].stage = "start"]
        /\ inScheduler' /\ loadedStore' /\ UNCHANGED <<runPc, ctxDone>>
    BY <1>1, <1>7 DEF AddScheduler, Stage
  <2>2. /\ DOMAIN dispatch' = DOMAIN dispatch /\ dispatch'[1].stage = "start"
        /\ dispatch'[1].cancelled = dispatch[1].cancelled
    BY <1>1, <2>1 DEF Dispatches
  <2> QED BY <2>1, <2>2 DEF ServesInv, Serving, Leading
<1>8. ASSUME NEW i \in DOMAIN dispatch, StartLoop(i)
      PROVE  ServesInv'
  <2>1. /\ dispatch[1].stage = "start" /\ dispatch' = [dispatch EXCEPT ![1].stage = "run"]
        /\ activeStore' /\ UNCHANGED <<runPc, ctxDone, inScheduler, loadedStore>>
    BY <1>1, <1>8 DEF StartLoop, Stage
  <2>2. /\ DOMAIN dispatch' = DOMAIN dispatch /\ dispatch'[1].stage = "run"
        /\ dispatch'[1].cancelled = dispatch[1].cancelled
    BY <1>1, <2>1 DEF Dispatches
  <2> QED BY <2>1, <2>2 DEF ServesInv, Serving, Leading
<1>9. ASSUME NEW i \in DOMAIN dispatch, ResetDispatcher(i)
      PROVE  ServesInv'
  <2>1. ~Leading /\ UNCHANGED <<runPc, ctxDone>>
    BY <1>1, <1>9 DEF ResetDispatcher, ServesInv, Serving, Leading
  <2>2. DOMAIN dispatch' = DOMAIN dispatch
    BY <1>9 DEF ResetDispatcher, Stage
  <2> QED BY <2>1, <2>2 DEF ServesInv, Leading
<1>10. ASSUME NEW i \in DOMAIN dispatch, RemoveScheduler(i)
       PROVE  ServesInv'
  <2>1. ~Leading /\ UNCHANGED <<runPc, ctxDone>>
    BY <1>1, <1>10 DEF RemoveScheduler, ServesInv, Serving, Leading
  <2>2. dispatch' \in Seq(Dispatches) /\ Len(dispatch') = Len(dispatch) - 1 /\ Len(dispatch) \in Nat
    BY <1>10, RemoveAtFacts DEF DispatchOK, RemoveScheduler
  <2>3. DOMAIN dispatch' \subseteq DOMAIN dispatch
    BY <2>2 DEF DispatchOK
  <2> QED BY <2>1, <2>3 DEF ServesInv, Leading
<1> QED BY <1>2, <1>4, <1>5, <1>6, <1>7, <1>8, <1>9, <1>10
        DEF HandlerNext, handlerVars, runVars, Elect, UpdateLeaderIP, SendState, WatchDone,
            Cancel, Request, Answer, Leading

\* While Run leads, the dispatcher whose loop has started stays registered, its store
\* loaded and active: no reset or RemoveScheduler of an earlier leadership undoes it.
\* It takes that the goroutine of the earlier one has ended when the warmup ends.
THEOREM LeaderIsServed == SlowDispatch = FALSE => (HandlerSpec => []LeaderServes)
<1> SUFFICES ASSUME SlowDispatch = FALSE
             PROVE  HandlerSpec => []LeaderServes
  OBVIOUS
<1> DEFINE I == DispatchOK /\ ScalarsOK /\ ServesInv
<1>1. HandlerInit => I
  <2> SUFFICES ASSUME HandlerInit
               PROVE  I
    OBVIOUS
  <2>1. DispatchOK
    BY HandlerAssumption DEF HandlerInit, DispatchOK, HandlerAssumption
  <2>2. ScalarsOK
    BY DEF HandlerInit, ScalarsOK
  <2>3. DOMAIN dispatch = {} /\ ~Leading
    BY DEF HandlerInit, Leading
  <2> QED BY <2>1, <2>2, <2>3 DEF ServesInv
<1>2. I /\ [HandlerNext]_handlerVars => I'
  BY DispatchStep_Type, ScalarsStep, ServesStep
<1>3. I => LeaderServes
  <2> SUFFICES ASSUME I, Leading
               PROVE  Last(dispatch) = dispatch[1]
    BY DEF LeaderServes, Leading, ServesInv, Serving
  <2>1. Len(dispatch) \in Nat /\ DOMAIN dispatch = 1..Len(dispatch)
    BY DEF DispatchOK
  <2>2. 1 \in DOMAIN dispatch /\ 2 \notin DOMAIN dispatch
    BY DEF ServesInv
  <2>3. Len(dispatch) = 1
    BY <2>1, <2>2
  <2> QED BY <2>3 DEF Last
<1> QED BY <1>1, <1>2, <1>3, PTL DEF HandlerSpec

-----------------------------------------------------------------------------
(* The synchronisation of a node agent.  MatchedIsSynced: a timestamp that   *)
(* the node has read, or is about to, stands for one set of configurations,  *)
(* because the store does not change twice in that second; zero stands for   *)
(* the empty set on both sides.                                              *)

SyncClocks ==
    /\ now \in Nat \ {0}
    /\ lastChange \in Nat /\ lastChange <= now
    /\ answer.lastChange \in Nat /\ answer.lastChange <= now
    /\ lastConfigChange \in Nat /\ lastConfigChange <= now
AnswerShape ==
    /\ answer = [upToDate |-> answer.upToDate, configs |-> answer.configs, lastChange |-> answer.lastChange]
    /\ pollPc # "got" => answer.lastChange = 0
ZeroIsEmpty ==
    /\ lastConfigChange = 0 => dispatched = {}
    /\ lastChange = 0 => polled = {}
    /\ answer.lastChange = 0 => answer.configs = {}
FlushedIsEmpty == flushedConfigs => polled = {}
ReadMatches ==
    /\ lastChange = lastConfigChange => polled = dispatched \/ (flushedConfigs /\ polled = {})
    /\ pollPc = "got" /\ answer.lastChange = lastConfigChange => answer.configs = dispatched

SyncInv == SyncClocks /\ AnswerShape /\ ZeroIsEmpty /\ FlushedIsEmpty /\ ReadMatches

\* A second whose timestamp the node has read is over when the store changes.
LEMMA SyncStore ==
    ASSUME SameSecond = FALSE, SyncInv,
           \/ \E c \in SyncConfigs : Dispatch(c) \/ Withdraw(c)
           \/ ExpireNode \/ NewLeader \/ Serve
    PROVE  SyncInv'
<1> USE DEF SyncInv, SyncClocks, AnswerShape, ZeroIsEmpty, FlushedIsEmpty, ReadMatches, providerVars, pollVars
<1>1. ASSUME NEW c \in SyncConfigs, Dispatch(c) \/ Withdraw(c) PROVE SyncInv'
  <2>1. now # lastChange /\ now # answer.lastChange /\ lastConfigChange' = now
    BY <1>1 DEF Dispatch, Withdraw, Distinguishable
  <2>2. UNCHANGED <<now, providerVars, pollVars>>
    BY <1>1 DEF Dispatch, Withdraw
  <2> QED BY <2>1, <2>2
<1>2. CASE ExpireNode \/ NewLeader
  BY <1>2 DEF ExpireNode, NewLeader, Forget
<1>3. CASE Serve
  BY <1>3 DEF Serve
<1> QED BY <1>1, <1>2, <1>3

\* The two requests, served and answered or not.
LEMMA SyncRequests ==
    ASSUME SyncInv,
           \/ ProcessNodeStatus \/ GetNodeConfigs \/ Poll \/ StatusAnswered \/ StatusFails
           \/ Collected \/ CollectFails
    PROVE  SyncInv'
<1> USE DEF SyncInv, SyncClocks, AnswerShape, ZeroIsEmpty, FlushedIsEmpty, ReadMatches, providerVars,
        nodeStoreVars, NoAnswer
<1>1. CASE ProcessNodeStatus
  BY <1>1 DEF ProcessNodeStatus
<1>2. CASE GetNodeConfigs
  BY <1>2 DEF GetNodeConfigs
<1>3. CASE Poll
  BY <1>3 DEF Poll
<1>4. CASE StatusAnswered
  BY <1>4 DEF StatusAnswered
<1>5. CASE StatusFails
  BY <1>5 DEF StatusFails
<1>6. CASE Collected
  BY <1>6 DEF Collected
<1>7. CASE CollectFails
  BY <1>7 DEF CollectFails
<1> QED BY <1>1, <1>2, <1>3, <1>4, <1>5, <1>6, <1>7

LEMMA SyncOthers ==
    ASSUME SyncInv, Restart \/ SyncTick \/ UNCHANGED syncVars
    PROVE  SyncInv'
<1> USE DEF SyncInv, SyncClocks, AnswerShape, ZeroIsEmpty, FlushedIsEmpty, ReadMatches, providerVars,
        nodeStoreVars, pollVars, NoAnswer
<1>1. CASE Restart
  BY <1>1 DEF Restart
<1>2. CASE SyncTick
  BY <1>2 DEF SyncTick
<1>3. CASE UNCHANGED syncVars
  BY <1>3 DEF syncVars
<1> QED BY <1>1, <1>2, <1>3

LEMMA SyncInvHolds == SameSecond = FALSE => (SyncSpec => []SyncInv)
<1> SUFFICES ASSUME SameSecond = FALSE PROVE SyncSpec => []SyncInv
  OBVIOUS
<1>1. SyncInit => SyncInv
  BY DEF SyncInit, SyncInv, SyncClocks, AnswerShape, ZeroIsEmpty, FlushedIsEmpty, ReadMatches, NoAnswer
<1>2. SyncInv /\ [SyncNext]_syncVars => SyncInv'
  BY SyncStore, SyncRequests, SyncOthers DEF SyncNext
<1> QED BY <1>1, <1>2, PTL DEF SyncSpec

\* A node agent that processNodeStatus leaves alone runs what is dispatched to it, whatever
\* was lost, restarted or forgotten, unless it has just flushed everything; as long as the
\* store does not change twice in a second that the node has read.
THEOREM MatchedNodeIsSynced == SameSecond = FALSE => (SyncSpec => []MatchedIsSynced)
<1> SUFFICES ASSUME SameSecond = FALSE PROVE SyncSpec => []MatchedIsSynced
  OBVIOUS
<1>1. SyncInv => MatchedIsSynced
  BY DEF SyncInv, ReadMatches, MatchedIsSynced
<1>2. SyncSpec => []SyncInv
  BY SyncInvHolds
<1> QED BY <1>1, <1>2, PTL

-----------------------------------------------------------------------------
(* SilentNodeStops: silent - sincePoll is the silence when the last poll     *)
(* began.  A node that is idle and has checks began it within the grace      *)
(* period; the next begins a PollInterval later at most.                     *)

Running == polled # {}

SilenceTypes ==
    /\ silent \in Nat /\ sincePoll \in Nat /\ heartbeat \in Nat
    /\ sincePoll <= PollInterval
    /\ heartbeat <= Grace
\* The provider's heartbeat is at least as old as the silence.
HeartbeatIsSilent == silent <= heartbeat \/ heartbeat = Grace
SilenceBounded ==
    /\ Running => silent < Grace + PollInterval + sincePoll
    /\ Running /\ pollPc = "idle" => silent < Grace + sincePoll
SilenceInv == SilenceTypes /\ HeartbeatIsSilent /\ FlushedIsEmpty /\ SilenceBounded

LEMMA SilenceStep ==
    ASSUME SilenceInv, [SyncNext]_syncVars
    PROVE  SilenceInv'
<1>0. Grace \in Nat \ {0} /\ PollInterval \in Nat \ {0}
  BY SyncAssumption
<1> USE <1>0 DEF SilenceInv, SilenceTypes, HeartbeatIsSilent, FlushedIsEmpty, SilenceBounded, Running
<1>1. CASE \/ \E c \in SyncConfigs : Dispatch(c) \/ Withdraw(c)
           \/ ExpireNode \/ NewLeader \/ Serve
  <2>1. UNCHANGED <<providerVars, pollVars, silent>>
    BY <1>1 DEF Dispatch, Withdraw, ExpireNode, NewLeader, Serve
  <2> QED BY <2>1 DEF providerVars, pollVars
<1>2. CASE ProcessNodeStatus \/ GetNodeConfigs
  BY <1>2 DEF ProcessNodeStatus, GetNodeConfigs, providerVars
<1>3. CASE Poll
  BY <1>3 DEF Poll, providerVars
<1>4. CASE StatusAnswered
  BY <1>4 DEF StatusAnswered
<1>5. CASE StatusFails
  <2>1. CASE WithinGracePeriod
    BY <1>5, <2>1 DEF StatusFails, WithinGracePeriod, providerVars
  <2>2. CASE ~WithinGracePeriod
    BY <1>5, <2>2 DEF StatusFails, providerVars
  <2> QED BY <2>1, <2>2
<1>6. CASE Collected
  BY <1>6 DEF Collected
<1>7. CASE CollectFails
  BY <1>7 DEF CollectFails
<1>8. CASE Restart
  BY <1>8 DEF Restart
<1>9. CASE SyncTick
  BY <1>9 DEF SyncTick, Capped, TwoPolls
<1>10. CASE UNCHANGED syncVars
  BY <1>10 DEF syncVars, providerVars, pollVars
<1> QED BY <1>1, <1>2, <1>3, <1>4, <1>5, <1>6, <1>7, <1>8, <1>9, <1>10 DEF SyncNext

\* A node agent without an answer has stopped its checks by the end of the first poll that
\* began after the grace period, whichever of its requests failed and how.
THEOREM SilentNodeHasStopped == SyncSpec => []SilentNodeStops
<1>1. SyncInit => SilenceInv
  BY SyncAssumption DEF SyncInit, SilenceInv, SilenceTypes, HeartbeatIsSilent, FlushedIsEmpty,
     SilenceBounded, Running
<1>2. SilenceInv /\ [SyncNext]_syncVars => SilenceInv'
  BY SilenceStep
<1>3. SilenceInv => SilentNodeStops
  BY SyncAssumption DEF SilenceInv, SilenceTypes, SilenceBounded, Running, SilentNodeStops, TwoPolls
<1> QED BY <1>1, <1>2, <1>3, PTL DEF SyncSpec

===============================================================================
