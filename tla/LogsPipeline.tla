------------------------------ MODULE LogsPipeline ------------------------------
(***************************************************************************)
(* The logs agent (pkg/logs): one log file, which may be rotated, the       *)
(* scanner and its tailers, one pipeline (processor, sender), the auditor    *)
(* and its registry file, and the stop of the agent.                        *)
(*                                                                         *)
(* A generation is one file under the path; its lines are 1, 2, ...; an      *)
(* offset is the number of lines before it.  A message is a line with the    *)
(* offset that the auditor will commit for it; it is tracked unless its      *)
(* tailer belongs to a rotated file.  The registry has one entry for the     *)
(* path: the generation in it is not in the code, which cannot tell.         *)
(*                                                                         *)
(* The process may crash at any step; what is left is the registry file.    *)
(***************************************************************************)
EXTENDS Naturals, Sequences, Functions

CONSTANTS
    MaxDisturbances,  \* bound on the rotations of the file and the restarts of the agent
    MaxLines,         \* bound on the lines of all the files
    Excluded,         \* the lines that the processing rules exclude
    MaxTailers,       \* bound on the tailers at a time
    ChanSize,         \* of the three channels of messages
    MaxBatchSize,
    Configurations    \* of the tailing mode and the strategy of the sender

ASSUME LogsAssumption ==
    /\ MaxDisturbances \in Nat /\ MaxLines \in Nat /\ Excluded \subseteq 1..MaxLines /\ MaxTailers \in Nat \ {0}
    /\ ChanSize \in Nat \ {0} /\ MaxBatchSize \in Nat \ {0}
    /\ Configurations \subseteq {"beginning", "end"} \X {"batch", "stream"}

Generations == 1..(MaxDisturbances + 1)
Lines       == 1..MaxLines
Offsets     == 0..MaxLines
TailerIds   == 1..MaxTailers

Messages == [gen : Generations, line : Lines, offset : Offsets, tracked : BOOLEAN]
Entries  == [gen : Generations, offset : Offsets]
NoEntry  == [gen |-> 0, offset |-> 0]
Torn     == [gen |-> 0, offset |-> 1]      \* a registry file cut off by a crash

VARIABLES
    \* the outside
    generation, present,    \* the file under the path, and whether it is there
    size,                   \* the lines of each generation
    \* the configuration
    tailingMode,            \* "beginning" or "end"
    strategy,               \* "batch" (HTTP) or "stream" (TCP)
    \* the agent
    agent,                  \* how far its life is
    starts,
    canceled,               \* the destinations' context is cancelled
    tailers,
    tailed,                 \* Scanner.tailers: the tailer of the path, or 0
    inputChan, senderChan, auditorChan,
    buffer, sender,         \* the messages of the sender, and what it does with them
    registry, registryFile,
    \* ghosts
    fate,                   \* what became of each line
    expired,                \* an entry has been removed because of its age
    stray                   \* a tailer of an old file may still send tracked messages

fileVars     == <<generation, present, size>>
confVars     == <<tailingMode, strategy>>
tailerVars   == <<tailers, tailed>>
senderVars   == <<buffer, sender>>
auditorVars  == <<registry, registryFile>>
pipelineVars == <<inputChan, senderChan, senderVars, auditorChan>>
logsVars == <<fileVars, confVars, agent, starts, canceled, tailerVars, pipelineVars, auditorVars,
              fate, expired, stray>>

\* The stop of the agent, in the order of Agent.Stop.
StopPhases == {"stopInputs", "stopProcessor", "stopSender", "stopAuditor", "flushed"}
Alive == agent \notin {"down", "stopped"}

NoMessage == [gen |-> 0]

NoTailer == [state |-> "none", gen |-> 1, readOffset |-> 0, forwarded |-> 0, decodedOffset |-> 0,
             didFileRotate |-> FALSE, timer |-> FALSE, stopForward |-> FALSE,
             asked |-> FALSE, stop |-> FALSE, message |-> NoMessage]

LogsInit ==
    /\ generation = 1 /\ present = TRUE
    /\ size \in [Generations -> {0}]
    /\ \E c \in Configurations : tailingMode = c[1] /\ strategy = c[2]
    /\ agent = "down" /\ starts = 0 /\ canceled = FALSE
    /\ tailers = [i \in TailerIds |-> NoTailer] /\ tailed = 0
    /\ inputChan = <<>> /\ senderChan = <<>> /\ auditorChan = <<>>
    /\ buffer = <<>> /\ sender = "receive"
    /\ registry = NoEntry /\ registryFile = NoEntry
    /\ fate = [g \in Generations |-> [l \in Lines |-> "none"]]
    /\ expired = FALSE /\ stray = FALSE

-----------------------------------------------------------------------------
(* The file. *)

\* The bound on rotations and restarts is not reached.
Undisturbed == generation + starts <= MaxDisturbances + 1

Write ==
    /\ present
    /\ SumFunction(size) < MaxLines
    /\ size' = [size EXCEPT ![generation] = @ + 1]
    /\ UNCHANGED <<generation, present, confVars, agent, starts, canceled, tailerVars,
                   pipelineVars, auditorVars, fate, expired, stray>>

\* The first half of a rotation; a tailer that has the file open goes on reading it.
RemoveFile ==
    /\ present
    /\ present' = FALSE
    /\ UNCHANGED <<generation, size, confVars, agent, starts, canceled, tailerVars,
                   pipelineVars, auditorVars, fate, expired, stray>>

Recreate ==
    /\ ~present
    /\ starts # 0 /\ Undisturbed
    /\ present' = TRUE
    /\ generation' = generation + 1
    /\ UNCHANGED <<size, confVars, agent, starts, canceled, tailerVars, pipelineVars,
                   auditorVars, fate, expired, stray>>

-----------------------------------------------------------------------------
(* The scanner. *)

\* Position: an entry of the registry, if there is one, whatever the mode.
Position(entry, mode) ==
    IF entry \in Entries THEN entry.offset
    ELSE IF mode = "beginning" THEN 0 ELSE size[generation]

\* The place of a new tailer: the first that has none, or one that is done.
Free(i) == tailers[i].state \in {"none", "done"} /\ i # tailed
FreeTailer == {i \in TailerIds : Free(i) /\ \A j \in 1..(i - 1) : ~Free(j)}

TailerAt(offset) ==
    [NoTailer EXCEPT !.state = "reads", !.gen = generation, !.readOffset = offset,
                     !.forwarded = offset, !.decodedOffset = offset]

\* What becomes of the lines of the generation that lie before the offset where it is opened.
Skipping(offset) ==
    [fate EXCEPT ![generation] =
        [l \in Lines |-> IF l <= offset /\ @[l] = "none" THEN "skipped" ELSE @[l]]]

\* StopAfterFileRotation.
AfterRotation(t) == [t EXCEPT !.didFileRotate = TRUE, !.timer = TRUE]

\* stopTailer: Stop in a goroutine that nobody waits for.
AskedToStop(t) == [t EXCEPT !.asked = TRUE]

\* Tailer.Stop, up to the wait for the decoder.
Stopped(t) == [t EXCEPT !.didFileRotate = FALSE, !.asked = FALSE, !.stop = TRUE]

\* DidRotate: another file, or one with less than what has been read.
DidRotate(t) == t.gen # generation \/ size[generation] < t.readOffset

\* startNewTailer, from scan: no tailer for the path.
ScanStarts ==
    /\ agent = "up" /\ present /\ tailed = 0
    /\ \E i \in FreeTailer :
          /\ tailers' = [tailers EXCEPT ![i] = TailerAt(Position(registry, "beginning"))]
          /\ tailed' = i
    /\ fate' = Skipping(Position(registry, "beginning"))
    /\ UNCHANGED <<fileVars, confVars, agent, starts, canceled, pipelineVars, auditorVars, expired, stray>>

\* restartTailerAfterFileRotation.
ScanRestarts ==
    /\ agent = "up" /\ present /\ tailed # 0
    /\ DidRotate(tailers[tailed])
    /\ \E i \in FreeTailer :
          /\ tailers' = [tailers EXCEPT ![tailed] = AfterRotation(@), ![i] = TailerAt(0)]
          /\ tailed' = i
    /\ stray' = (stray \/ tailers[tailed].message # NoMessage)
    /\ UNCHANGED <<fileVars, confVars, agent, starts, canceled, pipelineVars, auditorVars, fate,
                   expired>>

\* restartTailerAfterFileRotation when the new file cannot be opened: the old tailer is not
\* selected, and scan stops it as well.
ScanFailsToRestart ==
    /\ agent = "up" /\ present /\ tailed # 0
    /\ DidRotate(tailers[tailed])
    /\ tailers' = [tailers EXCEPT ![tailed] = AskedToStop(AfterRotation(@))]
    /\ tailed' = 0
    /\ stray' = TRUE
    /\ UNCHANGED <<fileVars, confVars, agent, starts, canceled, pipelineVars, auditorVars, fate,
                   expired>>

\* scan does not find the file.
ScanStops ==
    /\ agent = "up" /\ ~present /\ tailed # 0
    /\ tailers' = [tailers EXCEPT ![tailed] = AskedToStop(@)]
    /\ tailed' = 0
    /\ stray' = TRUE
    /\ UNCHANGED <<fileVars, confVars, agent, starts, canceled, pipelineVars, auditorVars, fate,
                   expired>>

Scan == ScanStarts \/ ScanRestarts \/ ScanFailsToRestart \/ ScanStops

-----------------------------------------------------------------------------
(* A tailer. *)

TailerTo(i, t) ==
    /\ Alive
    /\ tailers' = [tailers EXCEPT ![i] = t]
    /\ UNCHANGED <<fileVars, confVars, starts, canceled, tailed, senderChan, senderVars,
                   auditorChan, auditorVars, expired, stray>>

\* read: a chunk of some lines.
Read(i) ==
    LET t == tailers[i] IN
    /\ t.state = "reads"
    /\ \E offset \in (t.readOffset + 1)..size[t.gen] :
          TailerTo(i, [t EXCEPT !.readOffset = offset])
    /\ UNCHANGED <<agent, inputChan, fate>>

\* The goroutine of stopTailer runs.
Stop(i) ==
    /\ tailers[i].asked
    /\ TailerTo(i, Stopped(tailers[i]))
    /\ UNCHANGED <<agent, inputChan, fate>>

\* startStopTimer: the timeout after a rotation.
CloseTimeout(i) ==
    /\ tailers[i].timer
    /\ TailerTo(i, [tailers[i] EXCEPT !.timer = FALSE, !.stopForward = TRUE, !.stop = TRUE])
    /\ UNCHANGED <<agent, inputChan, fate>>

\* readForever ends; the decoder is closed and flushes.
ReaderEnds(i) ==
    /\ tailers[i].state = "reads" /\ tailers[i].stop
    /\ TailerTo(i, [tailers[i] EXCEPT !.state = "flushes"])
    /\ UNCHANGED <<agent, inputChan, fate>>

FlushEnds(i) ==
    /\ tailers[i].state = "flushes" /\ tailers[i].forwarded >= tailers[i].readOffset
    /\ TailerTo(i, [NoTailer EXCEPT !.state = "done"])
    /\ UNCHANGED <<agent, inputChan, fate>>

\* Mutant: the offsets of a rotated file go on being tracked.
AlwaysTracks(t) == TRUE

\* shouldTrackOffset.
ShouldTrackOffset(t) == ~t.didFileRotate

\* forwardMessages makes a message of the next line of the decoder, and counts its offset, ...
Decode(i) ==
    LET t == tailers[i]
        tracked == ShouldTrackOffset(t)
        offset  == IF tracked THEN t.decodedOffset + 1 ELSE 0
    IN
    /\ t.state \in {"reads", "flushes"} /\ t.message = NoMessage
    /\ t.forwarded < t.readOffset
    /\ TailerTo(i, [t EXCEPT !.decodedOffset = offset,
                             !.message = [gen |-> t.gen, line |-> t.forwarded + 1,
                                          offset |-> offset, tracked |-> tracked]])
    /\ UNCHANGED <<agent, inputChan, fate>>

Forwarded(t) == [t EXCEPT !.forwarded = @ + 1, !.message = NoMessage]

\* ... which goes to the pipeline as soon as there is room, ...
Forward(i) ==
    LET t == tailers[i] IN
    /\ t.message # NoMessage
    /\ agent \in {"up", "stopInputs"}
    /\ Len(inputChan) < ChanSize
    /\ inputChan' = Append(inputChan, t.message)
    /\ TailerTo(i, Forwarded(t))
    /\ UNCHANGED <<agent, fate>>

\* ... or is given up after the timeout ...
Abandon(i) ==
    LET t == tailers[i] IN
    /\ t.message # NoMessage
    /\ t.stopForward
    /\ fate' = [fate EXCEPT ![t.gen][t.message.line] = IF @ = "none" THEN "skipped" ELSE @]
    /\ TailerTo(i, Forwarded(t))
    /\ UNCHANGED <<agent, inputChan>>

Volatile ==
    /\ tailers' = [i \in TailerIds |-> NoTailer] /\ tailed' = 0
    /\ inputChan' = <<>> /\ senderChan' = <<>> /\ auditorChan' = <<>>
    /\ buffer' = <<>> /\ sender' = "receive"
    /\ registry' = NoEntry /\ canceled' = FALSE

\* ... or is sent to the closed channel of a stopped pipeline, which ends the process.
ForwardPanics(i) ==
    /\ tailers[i].message # NoMessage
    /\ agent \in StopPhases \ {"stopInputs"}
    /\ agent' = "down"
    /\ Volatile
    /\ UNCHANGED <<fileVars, confVars, starts, registryFile, fate, expired, stray>>

Tailer(i) ==
    \/ Read(i) \/ Stop(i) \/ CloseTimeout(i) \/ ReaderEnds(i) \/ FlushEnds(i)
    \/ Decode(i) \/ Forward(i) \/ Abandon(i) \/ ForwardPanics(i)

-----------------------------------------------------------------------------
(* The processor and the sender. *)

\* processMessage.
ProcessMessage ==
    /\ Alive
    /\ inputChan # <<>>
    /\ inputChan' = Tail(inputChan)
    /\ LET m == Head(inputChan) IN
       \/ /\ m.line \notin Excluded
          /\ Len(senderChan) < ChanSize
          /\ senderChan' = Append(senderChan, m)
          /\ UNCHANGED fate
       \/ /\ m.line \in Excluded
          /\ fate' = [fate EXCEPT ![m.gen][m.line] = "excluded"]
          /\ UNCHANGED senderChan
    /\ UNCHANGED <<fileVars, confVars, agent, starts, canceled, tailerVars, senderVars,
                   auditorChan, auditorVars, expired, stray>>

Batch == IF strategy = "batch" THEN MaxBatchSize ELSE 1

\* The sender takes a message; a full buffer is sent.
Receive ==
    /\ Alive
    /\ sender = "receive" /\ senderChan # <<>>
    /\ senderChan' = Tail(senderChan)
    /\ buffer' = Append(buffer, Head(senderChan))
    /\ sender' = IF Len(buffer) + 1 = Batch THEN "send" ELSE "receive"
    /\ UNCHANGED <<fileVars, confVars, agent, starts, canceled, tailerVars, inputChan,
                   auditorChan, auditorVars, fate, expired, stray>>

SenderTo(what) ==
    /\ Alive
    /\ sender' = what
    /\ UNCHANGED <<fileVars, confVars, agent, starts, canceled, tailerVars, inputChan, senderChan,
                   auditorVars, expired, stray>>

\* Mutant: the batch is sent when it is full, or at the end.
FlushTimerAtEnd ==
    /\ agent = "stopSender" /\ senderChan = <<>>
    /\ sender = "receive" /\ buffer # <<>>
    /\ SenderTo("send")
    /\ UNCHANGED <<buffer, auditorChan, fate>>

\* The batch has waited long enough, or does not have the room for the next message.
FlushTimer ==
    /\ sender = "receive" /\ buffer # <<>>
    /\ SenderTo("send")
    /\ UNCHANGED <<buffer, auditorChan, fate>>

\* The main destination accepts the payload, or refuses it for good (which is logged): either
\* way the messages go to the auditor.
Send ==
    /\ sender = "send" /\ ~canceled
    /\ fate' = [g \in Generations |-> [l \in Lines |->
                  IF \E k \in DOMAIN buffer : buffer[k].gen = g /\ buffer[k].line = l
                  THEN "sent" ELSE fate[g][l]]]
    /\ SenderTo("commit")
    /\ UNCHANGED <<buffer, auditorChan>>

\* Mutant: a cancelled payload is committed, like one that is refused.
SendCanceledCommits ==
    /\ sender = "send" /\ canceled
    /\ SenderTo("commit")
    /\ UNCHANGED <<buffer, auditorChan, fate>>

\* Mutant: a cancelled payload is tried again.
SendCanceledRetries ==
    /\ sender = "send" /\ canceled
    /\ SenderTo("send")
    /\ UNCHANGED <<buffer, auditorChan, fate>>

\* The context is cancelled: the batch is dropped, uncommitted; the stream strategy returns.
SendCanceled ==
    /\ sender = "send" /\ canceled
    /\ buffer' = <<>>
    /\ SenderTo(IF strategy = "batch" THEN "receive" ELSE "returned")
    /\ UNCHANGED <<auditorChan, fate>>

Commit ==
    /\ sender = "commit"
    /\ Len(auditorChan) < ChanSize
    /\ auditorChan' = Append(auditorChan, Head(buffer))
    /\ buffer' = Tail(buffer)
    /\ SenderTo(IF Len(buffer) = 1 THEN "receive" ELSE "commit")
    /\ UNCHANGED fate

\* The channel of the sender is closed and empty, and so is the buffer.
SenderReturns ==
    /\ agent = "stopSender"
    /\ sender = "receive" /\ senderChan = <<>> /\ buffer = <<>>
    /\ SenderTo("returned")
    /\ UNCHANGED <<buffer, auditorChan, fate>>

-----------------------------------------------------------------------------
(* The auditor. *)

AuditorStep ==
    /\ Alive
    /\ UNCHANGED <<fileVars, confVars, agent, starts, canceled, tailerVars, inputChan, senderChan,
                   senderVars, fate, stray>>

\* updateRegistry: a message that is not tracked has no identifier.
Audit ==
    /\ auditorChan # <<>>
    /\ auditorChan' = Tail(auditorChan)
    /\ LET m == Head(auditorChan) IN
       registry' = IF m.tracked THEN [gen |-> m.gen, offset |-> m.offset] ELSE registry
    /\ AuditorStep
    /\ UNCHANGED <<registryFile, expired>>

\* cleanupRegistry: the entry has not been updated for the time to live.
Cleanup ==
    /\ registry \in Entries /\ ~expired
    /\ registry' = NoEntry
    /\ expired' = TRUE
    /\ AuditorStep
    /\ UNCHANGED <<auditorChan, registryFile>>

\* flushRegistry.
FlushRegistry ==
    /\ registryFile' = registry
    /\ AuditorStep
    /\ UNCHANGED <<registry, auditorChan, expired>>

-----------------------------------------------------------------------------
(* The agent. *)

\* recoverRegistry: a file that cannot be parsed is as good as none.
Recovered == IF registryFile = Torn THEN NoEntry ELSE registryFile

\* Start, and the launch of a tailer for the source.
Start ==
    /\ agent \in {"down", "stopped"}
    /\ starts = 0 \/ Undisturbed
    /\ starts' = starts + 1
    /\ agent' = "up"
    /\ registry' = Recovered
    /\ IF present
       THEN /\ tailers' = [tailers EXCEPT ![1] = TailerAt(Position(Recovered, tailingMode))]
            /\ tailed' = 1
            /\ fate' = Skipping(Position(Recovered, tailingMode))
       ELSE UNCHANGED <<tailerVars, fate>>
    /\ UNCHANGED <<fileVars, confVars, canceled, pipelineVars, registryFile, expired, stray>>

\* The process dies, perhaps between the truncation of the registry file and its writing.
Crash ==
    /\ Alive
    /\ agent' = "down"
    /\ Volatile
    /\ registryFile' \in {registryFile, Torn}
    /\ UNCHANGED <<fileVars, confVars, starts, fate, expired, stray>>

AgentTo(what) ==
    /\ agent' = what
    /\ UNCHANGED <<fileVars, confVars, starts, canceled, tailed, pipelineVars, fate, expired, stray>>

\* Agent.Stop begins; the scanner stops, and tells its tailer to.
StopAgent ==
    /\ agent = "up"
    /\ tailers' = [i \in TailerIds |-> IF i = tailed THEN Stopped(tailers[i]) ELSE tailers[i]]
    /\ AgentTo("stopInputs")
    /\ UNCHANGED auditorVars

InputsStopped ==
    /\ agent = "stopInputs"
    /\ tailed # 0 => tailers[tailed].state = "done"
    /\ AgentTo("stopProcessor")
    /\ UNCHANGED <<tailers, auditorVars>>

ProcessorStopped ==
    /\ agent = "stopProcessor"
    /\ inputChan = <<>>
    /\ AgentTo("stopSender")
    /\ UNCHANGED <<tailers, auditorVars>>

SenderStopped ==
    /\ agent = "stopSender"
    /\ sender = "returned"
    /\ AgentTo("stopAuditor")
    /\ UNCHANGED <<tailers, auditorVars>>

\* Mutant: the auditor stops at once.
AuditorStoppedEarly ==
    /\ agent = "stopAuditor"
    /\ registryFile' = registry
    /\ AgentTo("flushed")
    /\ UNCHANGED <<tailers, registry>>

\* The auditor has read its channel to the end, and saves the registry for the last time.
AuditorStopped ==
    /\ agent = "stopAuditor"
    /\ auditorChan = <<>>
    /\ registryFile' = registry
    /\ AgentTo("flushed")
    /\ UNCHANGED <<tailers, registry>>

AgentStopped ==
    /\ agent = "flushed"
    /\ agent' = "stopped"
    /\ Volatile
    /\ UNCHANGED <<fileVars, confVars, starts, registryFile, fate, expired, stray>>

\* The grace period is over: the context of the destinations is cancelled.
GracePeriodEnds ==
    /\ agent \in StopPhases /\ ~canceled
    /\ canceled' = TRUE
    /\ UNCHANGED <<fileVars, confVars, agent, starts, tailerVars, pipelineVars, auditorVars, fate,
                   expired, stray>>

LogsStopStep ==
    \/ InputsStopped \/ ProcessorStopped \/ SenderStopped \/ AuditorStopped \/ AgentStopped
    \/ GracePeriodEnds

Pipeline ==
    \/ ProcessMessage \/ Receive \/ FlushTimer \/ Send \/ SendCanceled \/ Commit \/ SenderReturns

Auditor == Audit \/ Cleanup \/ FlushRegistry

LogsNext ==
    \/ Write \/ RemoveFile \/ Recreate
    \/ Scan \/ \E i \in TailerIds : Tailer(i)
    \/ Pipeline \/ Auditor
    \/ Start \/ Crash \/ StopAgent \/ LogsStopStep

LogsSpec == LogsInit /\ [][LogsNext]_logsVars

\* Goroutines run, and timers fire: the readers, the forwarders, the processor, the sender, the
\* auditor, the stopper.  A destination that is tried again and again accepts the payload in the
\* end, unless its context is cancelled first.
LogsFairness ==
    /\ \A i \in TailerIds :
          /\ WF_logsVars(Read(i) \/ ReaderEnds(i))
          /\ WF_logsVars(Decode(i) \/ Forward(i) \/ FlushEnds(i))
          /\ WF_logsVars(ReaderEnds(i))
    /\ WF_logsVars(ProcessMessage)
    /\ WF_logsVars(Receive \/ FlushTimer \/ Send \/ SendCanceled \/ Commit \/ SenderReturns)
    /\ WF_logsVars(Audit)
    /\ WF_logsVars(LogsStopStep)

-----------------------------------------------------------------------------
(* Properties. *)

\* Types: the channels and the buffer keep their capacities.
LogsTypeOK ==
    /\ generation \in Generations /\ present \in BOOLEAN /\ size \in [Generations -> Offsets]
    /\ agent \in {"down", "up", "stopped"} \cup StopPhases
    /\ \A i \in TailerIds :
          LET t == tailers[i] IN
          /\ t.state \in {"none", "reads", "flushes", "done"}
          /\ t.gen \in Generations
          /\ {t.readOffset, t.forwarded, t.decodedOffset} \subseteq Offsets
    /\ tailed \in {0} \cup TailerIds
    /\ inputChan \in Seq(Messages) /\ Len(inputChan) <= ChanSize
    /\ senderChan \in Seq(Messages) /\ Len(senderChan) <= ChanSize
    /\ auditorChan \in Seq(Messages) /\ Len(auditorChan) <= ChanSize
    /\ buffer \in Seq(Messages) /\ Len(buffer) <= Batch
    /\ sender \in {"receive", "send", "commit", "returned"}
    /\ registry \in Entries \cup {NoEntry} /\ registryFile \in Entries \cup {NoEntry, Torn}

\* What is committed has been dealt with: no line before an offset of the registry, in memory or
\* on disk, or of a message on its way to it, is one that has only been read.  A restart from
\* such an offset loses nothing that was in the pipeline, whatever was cancelled or cut short.
CommittedIsHandled ==
    \A e \in {registry, registryFile}
             \cup {[gen |-> auditorChan[k].gen, offset |-> auditorChan[k].offset] :
                       k \in {k \in DOMAIN auditorChan : auditorChan[k].tracked}} :
        e \in Entries => \A l \in 1..e.offset : fate[e.gen][l] # "none"

\* A stop within the grace period leaves in the registry file at least the offset of every line
\* that was sent: the next start sends no line of the file again.
CleanStopCommits ==
    (agent = "flushed" /\ ~canceled /\ ~expired /\ generation = 1 /\ starts = 1) =>
        \A l \in Lines : fate[1][l] = "sent" => l <= registryFile.offset

\* After a rotation the entry of the path follows the new file: it does not go back to an offset
\* of the old one, which would be taken for one of the new file.  Not so when the old tailer has
\* been stopped because the path was empty or could not be opened, or was waiting to forward a
\* line when the file was rotated: its messages still have the identifier of the path.
RegistryFollowsRotation ==
    [][(~stray /\ registry' \in Entries) => registry'.gen >= registry.gen]_logsVars

\* A line of the file that the agent tails leaves the pipeline, also when it is the last one for
\* long and the batch is not full.
EventuallyLeaves ==
    \A l \in Lines :
        (agent = "up" /\ generation = 1 /\ present /\ size[1] >= l)
            ~> (fate[1][l] # "none" \/ agent # "up" \/ ~present)

\* The stop of a pipeline that batches ends, whatever the destination does: the cancelled
\* context drains it.  The stream strategy does not drain it.
LogsStopEnds ==
    (agent \in StopPhases) ~>
        (agent \in {"down", "stopped"} \/ (strategy = "stream" /\ canceled))

\* "this call returns only when all the tailers are stopped" (Scanner.Stop).
StopWaitsForTailers ==
    agent \in StopPhases \ {"stopInputs"} =>
        \A i \in TailerIds : tailers[i].state \in {"none", "done"}
=============================================================================
