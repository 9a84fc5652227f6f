--------------------------- MODULE AgentInputsProofs ---------------------------
(* Proofs about LogsPipeline, for any number of lines, rotations, restarts and     *)
(* tailers, any capacities and both strategies; and, at the end, about             *)
(* AutoDiscovery, for any templates, services and changes of tags.                 *)
EXTENDS LogsPipeline, AutoDiscovery, DataTheorems

-----------------------------------------------------------------------------
(* Types.  A message never has an offset past its own line. *)

Good == {m \in Messages : m.tracked => m.offset <= m.line}
Fates == {"none", "skipped", "excluded", "sent"}
TailerSet ==
    [state : {"none", "reads", "flushes", "done"}, gen : Generations,
     readOffset : Offsets, forwarded : Offsets, decodedOffset : Offsets,
     didFileRotate : BOOLEAN, timer : BOOLEAN, stopForward : BOOLEAN,
     asked : BOOLEAN, stop : BOOLEAN, message : Good \cup {NoMessage}]

\* The line a tailer is about to forward is the next one, and its offsets do not run ahead.
InStep(t) ==
    /\ t \in TailerSet
    /\ t.message = NoMessage => t.decodedOffset <= t.forwarded
    /\ t.message # NoMessage => /\ t.forwarded < t.readOffset
                                /\ t.decodedOffset <= t.forwarded + 1
                                /\ t.message.gen = t.gen /\ t.message.line = t.forwarded + 1

FileTypes ==
    /\ generation \in Generations /\ size \in [Generations -> Offsets]
    /\ present \in BOOLEAN /\ starts \in Nat
FateTypes == fate \in [Generations -> [Lines -> Fates]]
TailerTypes ==
    /\ tailers = [i \in TailerIds |-> tailers[i]]
    /\ \A i \in TailerIds : InStep(tailers[i])
    /\ tailed \in {0} \cup TailerIds
ChanTypes ==
    /\ inputChan \in Seq(Good) /\ senderChan \in Seq(Good) /\ auditorChan \in Seq(Good)
    /\ buffer \in Seq(Good)
    /\ sender \in {"receive", "send", "commit", "returned"}
    /\ sender \in {"send", "commit"} => buffer # <<>>
RegistryTypes ==
    /\ registry \in Entries \cup {NoEntry}
    /\ registryFile \in Entries \cup {NoEntry, Torn}

LogsTypes == FileTypes /\ FateTypes /\ TailerTypes /\ ChanTypes /\ RegistryTypes

LEMMA LogsNumbers ==
    /\ MaxDisturbances \in Nat /\ MaxLines \in Nat /\ 1 \in TailerIds /\ TailerIds \subseteq Nat
    /\ Generations = 1..(MaxDisturbances + 1) /\ 1 \in Generations
    /\ Lines = 1..MaxLines /\ Offsets = 0..MaxLines
    /\ 0 \notin TailerIds
BY LogsAssumption DEF LogsAssumption, Generations, Lines, Offsets, TailerIds

LEMMA NotEntries ==
    /\ NoEntry \notin Entries /\ Torn \notin Entries /\ NoEntry # Torn
    /\ NoEntry.gen = 0 /\ NoEntry.offset = 0
    /\ \A m \in Messages : m # NoMessage
<1>1. \A e \in Entries : e.gen \in Generations
  BY DEF Entries
<1>2. \A m \in Messages : m.gen \in Generations
  BY DEF Messages
<1>3. 0 \notin Generations
  BY LogsNumbers
<1>4. NoEntry.gen = 0 /\ Torn.gen = 0 /\ NoMessage.gen = 0 /\ NoEntry.offset = 0 /\ Torn.offset = 1
  BY DEF NoEntry, Torn, NoMessage
<1> QED BY <1>1, <1>2, <1>3, <1>4

LEMMA NoTailerInStep ==
    /\ NoTailer \in TailerSet /\ InStep(NoTailer)
    /\ [NoTailer EXCEPT !.state = "done"] \in TailerSet
    /\ InStep([NoTailer EXCEPT !.state = "done"])
<1>1. NoTailer \in TailerSet
  <2>1. 1 \in Generations /\ 0 \in Offsets
    BY LogsNumbers
  <2> QED BY <2>1 DEF NoTailer, TailerSet
<1>2. [NoTailer EXCEPT !.state = "done"] \in TailerSet
  <2>1. 1 \in Generations /\ 0 \in Offsets
    BY LogsNumbers
  <2> QED BY <2>1 DEF NoTailer, TailerSet
<1> QED BY <1>1, <1>2 DEF NoTailer, InStep

\* Where a new tailer begins.
LEMMA NewTailer ==
    ASSUME FileTypes, NEW offset \in Offsets
    PROVE  /\ InStep(TailerAt(offset))
           /\ TailerAt(offset).forwarded = offset /\ TailerAt(offset).readOffset = offset
           /\ TailerAt(offset).decodedOffset = offset
           /\ TailerAt(offset).gen = generation /\ TailerAt(offset).message = NoMessage
           /\ TailerAt(offset).state = "reads"
           /\ TailerAt(offset).didFileRotate = FALSE /\ TailerAt(offset).timer = FALSE
           /\ TailerAt(offset).stopForward = FALSE /\ TailerAt(offset).asked = FALSE
<1>1. TailerAt(offset) \in TailerSet
  BY NoTailerInStep DEF TailerAt, TailerSet, FileTypes
<1>2. /\ TailerAt(offset).forwarded = offset /\ TailerAt(offset).readOffset = offset
      /\ TailerAt(offset).decodedOffset = offset
      /\ TailerAt(offset).gen = generation /\ TailerAt(offset).message = NoTailer.message
      /\ TailerAt(offset).state = "reads"
      /\ TailerAt(offset).didFileRotate = NoTailer.didFileRotate
      /\ TailerAt(offset).timer = NoTailer.timer
      /\ TailerAt(offset).stopForward = NoTailer.stopForward
      /\ TailerAt(offset).asked = NoTailer.asked
  BY NoTailerInStep DEF TailerAt, TailerSet
<1>3. /\ NoTailer.message = NoMessage /\ NoTailer.didFileRotate = FALSE /\ NoTailer.timer = FALSE
      /\ NoTailer.stopForward = FALSE /\ NoTailer.asked = FALSE
  BY DEF NoTailer
<1>4. offset \in Nat
  BY LogsNumbers
<1> QED BY <1>1, <1>2, <1>3, <1>4 DEF InStep

LEMMA PositionType ==
    ASSUME FileTypes, NEW e \in Entries \cup {NoEntry}, NEW mode
    PROVE  Position(e, mode) \in Offsets
BY LogsNumbers, NotEntries DEF Position, FileTypes, Entries

LEMMA RecoveredType ==
    ASSUME RegistryTypes
    PROVE  Recovered \in Entries \cup {NoEntry}
BY NotEntries DEF Recovered, RegistryTypes

\* What the steps make of a tailer.
SameCourse(t, u) ==
    /\ u.gen = t.gen /\ u.forwarded = t.forwarded /\ u.message = t.message
    /\ u.decodedOffset = t.decodedOffset

LEMMA Signals ==
    ASSUME NEW t, InStep(t)
    PROVE  /\ InStep(AfterRotation(t)) /\ SameCourse(t, AfterRotation(t))
           /\ InStep(AskedToStop(t)) /\ SameCourse(t, AskedToStop(t))
           /\ InStep(AskedToStop(AfterRotation(t))) /\ SameCourse(t, AskedToStop(AfterRotation(t)))
           /\ InStep(Stopped(t)) /\ SameCourse(t, Stopped(t))
<1>1. ASSUME NEW u, InStep(u)
      PROVE  /\ InStep(AfterRotation(u)) /\ SameCourse(u, AfterRotation(u))
             /\ InStep(AskedToStop(u)) /\ SameCourse(u, AskedToStop(u))
             /\ InStep(Stopped(u)) /\ SameCourse(u, Stopped(u))
  <2>1. AfterRotation(u) \in TailerSet /\ SameCourse(u, AfterRotation(u))
        /\ AfterRotation(u).readOffset = u.readOffset
    BY <1>1 DEF AfterRotation, InStep, TailerSet, SameCourse
  <2>2. AskedToStop(u) \in TailerSet /\ SameCourse(u, AskedToStop(u))
        /\ AskedToStop(u).readOffset = u.readOffset
    BY <1>1 DEF AskedToStop, InStep, TailerSet, SameCourse
  <2>3. Stopped(u) \in TailerSet /\ SameCourse(u, Stopped(u))
        /\ Stopped(u).readOffset = u.readOffset
    BY <1>1 DEF Stopped, InStep, TailerSet, SameCourse
  <2> QED BY <1>1, <2>1, <2>2, <2>3 DEF InStep, SameCourse
<1> QED BY <1>1 DEF SameCourse

LEMMA TailerSteps ==
    ASSUME LogsTypes, NEW i \in TailerIds, NEW t, t = tailers[i]
    PROVE  /\ Read(i) => \E u : TailerTo(i, u) /\ InStep(u) /\ SameCourse(t, u)
           /\ Stop(i) => \E u : TailerTo(i, u) /\ InStep(u) /\ SameCourse(t, u)
           /\ CloseTimeout(i) => \E u : TailerTo(i, u) /\ InStep(u) /\ SameCourse(t, u)
           /\ ReaderEnds(i) => \E u : TailerTo(i, u) /\ InStep(u) /\ SameCourse(t, u)
           /\ t.message # NoMessage =>
                 /\ InStep(Forwarded(t)) /\ Forwarded(t).forwarded = t.forwarded + 1
                 /\ Forwarded(t).gen = t.gen /\ Forwarded(t).message = NoMessage
                 /\ Forwarded(t).decodedOffset = t.decodedOffset
<1>0. InStep(t) /\ t \in TailerSet
  BY DEF LogsTypes, TailerTypes, InStep
<1>1. ASSUME Read(i)
      PROVE  \E u : TailerTo(i, u) /\ InStep(u) /\ SameCourse(t, u)
  <2>1. PICK o \in (t.readOffset + 1)..size[t.gen] : TailerTo(i, [t EXCEPT !.readOffset = o])
    BY <1>1 DEF Read
  <2> DEFINE u == [t EXCEPT !.readOffset = o]
  <2>2. t.readOffset \in Nat /\ size[t.gen] \in 0..MaxLines /\ MaxLines \in Nat
    BY <1>0, LogsNumbers DEF LogsTypes, FileTypes, TailerSet
  <2>3. o \in Offsets /\ o > t.readOffset
    BY <2>2, LogsNumbers
  <2>4. u \in TailerSet /\ SameCourse(t, u) /\ u.readOffset = o
    BY <1>0, <2>3 DEF TailerSet, SameCourse
  <2>5. t.forwarded \in Nat /\ o \in Nat
    BY <1>0, <2>3, LogsNumbers DEF TailerSet
  <2> HIDE DEF u
  <2>6. InStep(u)
    BY <1>0, <2>2, <2>3, <2>4, <2>5 DEF InStep, SameCourse
  <2> QED BY <2>1, <2>4, <2>6 DEF u
<1>2. ASSUME Stop(i)
      PROVE  \E u : TailerTo(i, u) /\ InStep(u) /\ SameCourse(t, u)
  BY <1>0, <1>2, Signals DEF Stop
<1>3. ASSUME CloseTimeout(i)
      PROVE  \E u : TailerTo(i, u) /\ InStep(u) /\ SameCourse(t, u)
  <2> DEFINE u == [t EXCEPT !.timer = FALSE, !.stopForward = TRUE, !.stop = TRUE]
  <2>1. u \in TailerSet /\ SameCourse(t, u) /\ u.readOffset = t.readOffset
    BY <1>0 DEF TailerSet, SameCourse
  <2>2. TailerTo(i, u)
    BY <1>3 DEF CloseTimeout
  <2> HIDE DEF u
  <2> QED BY <1>0, <2>1, <2>2 DEF InStep, SameCourse
<1>4. ASSUME ReaderEnds(i)
      PROVE  \E u : TailerTo(i, u) /\ InStep(u) /\ SameCourse(t, u)
  <2> DEFINE u == [t EXCEPT !.state = "flushes"]
  <2>1. u \in TailerSet /\ SameCourse(t, u) /\ u.readOffset = t.readOffset
    BY <1>0 DEF TailerSet, SameCourse
  <2>2. TailerTo(i, u)
    BY <1>4 DEF ReaderEnds
  <2> HIDE DEF u
  <2> QED BY <1>0, <2>1, <2>2 DEF InStep, SameCourse
<1>5. ASSUME t.message # NoMessage
      PROVE  /\ InStep(Forwarded(t)) /\ Forwarded(t).forwarded = t.forwarded + 1
             /\ Forwarded(t).gen = t.gen /\ Forwarded(t).message = NoMessage
             /\ Forwarded(t).decodedOffset = t.decodedOffset
  <2>1. t.forwarded < t.readOffset /\ t.readOffset \in Offsets /\ t.forwarded \in Offsets
        /\ t.decodedOffset <= t.forwarded + 1
    BY <1>0, <1>5 DEF InStep, TailerSet
  <2>2. t.forwarded + 1 \in Offsets
    BY <2>1, LogsNumbers
  <2>3. /\ Forwarded(t) \in TailerSet /\ Forwarded(t).forwarded = t.forwarded + 1
        /\ Forwarded(t).gen = t.gen /\ Forwarded(t).message = NoMessage
        /\ Forwarded(t).decodedOffset = t.decodedOffset
    BY <1>0, <2>2 DEF Forwarded, TailerSet
  <2> QED BY <2>1, <2>3 DEF InStep
<1> QED BY <1>1, <1>2, <1>3, <1>4, <1>5

\* The message that a tailer makes of the next line.
DecodedAs(t, u) ==
    /\ u.gen = t.gen /\ u.forwarded = t.forwarded /\ u.readOffset = t.readOffset
    /\ u.state = t.state /\ u.didFileRotate = t.didFileRotate /\ u.timer = t.timer
    /\ u.stopForward = t.stopForward /\ u.asked = t.asked
    /\ u.message # NoMessage /\ u.message.tracked = ~t.didFileRotate
    /\ ~t.didFileRotate =>
          /\ u.decodedOffset = t.decodedOffset + 1
          /\ u.message.offset = u.decodedOffset

LEMMA Decoded ==
    ASSUME LogsTypes, NEW i \in TailerIds, Decode(i)
    PROVE  \E u : TailerTo(i, u) /\ InStep(u) /\ DecodedAs(tailers[i], u)
<1> DEFINE t == tailers[i]
           tracked == ShouldTrackOffset(t)
           offset  == IF tracked THEN t.decodedOffset + 1 ELSE 0
           m == [gen |-> t.gen, line |-> t.forwarded + 1, offset |-> offset, tracked |-> tracked]
           u == [t EXCEPT !.decodedOffset = offset, !.message = m]
<1>1. InStep(t) /\ t \in TailerSet /\ t.message = NoMessage /\ t.forwarded < t.readOffset
  BY DEF LogsTypes, TailerTypes, InStep, Decode
<1>2. TailerTo(i, u)
  BY DEF Decode
<1>3. t.forwarded \in Offsets /\ t.readOffset \in Offsets /\ t.decodedOffset \in Offsets
      /\ t.gen \in Generations /\ t.didFileRotate \in BOOLEAN
  BY <1>1 DEF TailerSet
<1>4. tracked = ~t.didFileRotate /\ tracked \in BOOLEAN
  BY <1>3 DEF ShouldTrackOffset
<1>5. t.decodedOffset <= t.forwarded
  BY <1>1 DEF InStep
<1>6. t.forwarded + 1 \in Lines /\ t.decodedOffset + 1 \in Offsets /\ 0 \in Offsets
  <2>1. ASSUME NEW d \in Offsets, NEW f \in Offsets, NEW r \in Offsets, d <= f, f < r
        PROVE  f + 1 \in Lines /\ d + 1 \in Offsets /\ 0 \in Offsets
    BY <2>1, LogsNumbers
  <2> QED BY <1>1, <1>3, <1>5, <2>1
<1>7. offset \in Offsets /\ offset <= t.forwarded + 1
  BY <1>3, <1>5, <1>6, LogsNumbers
<1> HIDE DEF tracked, offset
<1>8. m \in Good
  BY <1>3, <1>4, <1>6, <1>7 DEF Good, Messages
<1> HIDE DEF m
<1>9. /\ u \in TailerSet /\ u.gen = t.gen /\ u.forwarded = t.forwarded
      /\ u.readOffset = t.readOffset /\ u.decodedOffset = offset /\ u.message = m
      /\ u.state = t.state /\ u.didFileRotate = t.didFileRotate /\ u.timer = t.timer
      /\ u.stopForward = t.stopForward /\ u.asked = t.asked
  BY <1>1, <1>7, <1>8 DEF TailerSet
<1>10. m # NoMessage
  BY <1>8, NotEntries DEF Good
<1>11. m.gen = t.gen /\ m.line = t.forwarded + 1 /\ m.offset = offset /\ m.tracked = tracked
  BY DEF m
<1> HIDE DEF u
<1>12. InStep(u)
  BY <1>1, <1>7, <1>9, <1>10, <1>11 DEF InStep
<1> QED BY <1>2, <1>4, <1>9, <1>10, <1>11, <1>12 DEF offset, DecodedAs

\* A line that has been dealt with stays so; nothing but Send makes a line sent.
Grows(f, h) == \A g \in Generations : \A l \in Lines : f[g][l] # "none" => h[g][l] # "none"
NoneSent(f, h) == \A g \in Generations : \A l \in Lines : h[g][l] = "sent" => f[g][l] = "sent"
FateSet == [Generations -> [Lines -> Fates]]

LEMMA SkippingFacts ==
    ASSUME FileTypes, FateTypes, NEW offset \in Offsets
    PROVE  /\ Skipping(offset) \in FateSet
           /\ Grows(fate, Skipping(offset)) /\ NoneSent(fate, Skipping(offset))
           /\ \A l \in 1..offset : l \in Lines /\ Skipping(offset)[generation][l] # "none"
<1>1. offset \in Nat /\ (\A l \in 1..offset : l \in Lines) /\ Lines \subseteq Nat
  BY LogsNumbers
<1>2. \A g \in Generations, l \in Lines :
        Skipping(offset)[g][l] = IF g = generation /\ l <= offset /\ fate[g][l] = "none"
                                 THEN "skipped" ELSE fate[g][l]
  BY DEF Skipping, FateTypes, FileTypes
<1>3. Skipping(offset) \in FateSet
  BY DEF Skipping, FateTypes, FileTypes, Fates, FateSet
<1> DEFINE h == Skipping(offset)
<1>4. \A g \in Generations, l \in Lines :
        /\ fate[g][l] # "none" => h[g][l] # "none"
        /\ h[g][l] = "sent" => fate[g][l] = "sent"
  BY <1>2
<1>5. generation \in Generations
  BY DEF FileTypes
<1>6. ASSUME NEW l \in 1..offset
      PROVE  l \in Lines /\ h[generation][l] # "none"
  <2>1. l \in Lines /\ l <= offset
    BY <1>1
  <2> QED BY <1>2, <1>5, <2>1
<1> HIDE DEF h
<1>7. Grows(fate, h) /\ NoneSent(fate, h)
  BY <1>4 DEF Grows, NoneSent
<1> QED BY <1>3, <1>6, <1>7 DEF h

LEMMA FateUpdate ==
    ASSUME FateTypes, NEW g \in Generations, NEW l \in Lines, NEW v \in Fates \ {"none", "sent"}
    PROVE  LET h == [fate EXCEPT ![g][l] = v] IN
           h \in FateSet /\ Grows(fate, h) /\ NoneSent(fate, h) /\ h[g][l] = v
BY DEF FateTypes, Fates, FateSet, Grows, NoneSent

LEMMA SendFate ==
    ASSUME FateTypes, Send
    PROVE  fate' \in FateSet /\ Grows(fate, fate')
BY DEF FateTypes, Fates, FateSet, Grows, Send

\* A line of the bounded files is written within the bound.
LEMMA WriteSize ==
    ASSUME LogsTypes, Write
    PROVE  size' \in [Generations -> Offsets] /\ size[1] <= size'[1]
<1>1. IsFiniteSet(Generations) /\ generation \in Generations
  BY LogsNumbers, FS_Interval DEF LogsTypes, FileTypes
<1>2. \A g \in Generations : size[g] \in Nat
  BY LogsNumbers DEF LogsTypes, FileTypes
<1>3. /\ SumFunctionOnSet(size, Generations)
             = size[generation] + SumFunctionOnSet(size, Generations \ {generation})
      /\ SumFunctionOnSet(size, Generations \ {generation}) \in Nat
  <2>1. IsFiniteSet(Generations \ {generation})
    BY <1>1, FS_RemoveElement
  <2> QED BY <1>1, <1>2, <2>1, SumRemove, SumType
<1>4. DOMAIN size = Generations
  BY DEF LogsTypes, FileTypes
<1>5. SumFunctionOnSet(size, Generations) < MaxLines
  BY <1>4 DEF Write, SumFunction
<1>6. size[generation] < MaxLines /\ size[generation] \in Nat
  BY <1>1, <1>2, <1>3, <1>5, LogsNumbers
<1>7. size' = [size EXCEPT ![generation] = @ + 1]
  BY DEF Write
<1> QED BY <1>1, <1>2, <1>6, <1>7, LogsNumbers DEF LogsTypes, FileTypes

LEMMA GoodSeqs ==
    ASSUME NEW s \in Seq(Good)
    PROVE  /\ \A m \in Good : Append(s, m) \in Seq(Good) /\ Append(s, m) # <<>>
           /\ s # <<>> => Head(s) \in Good /\ Tail(s) \in Seq(Good)
           /\ s # <<>> /\ Len(s) # 1 => Tail(s) # <<>>
<1>1. \A m \in Good : Append(s, m) \in Seq(Good) /\ Len(Append(s, m)) = Len(s) + 1
  OBVIOUS
<1>2. s # <<>> => Head(s) \in Good /\ Tail(s) \in Seq(Good) /\ Len(Tail(s)) = Len(s) - 1 /\ Len(s) # 0
  OBVIOUS
<1>3. Len(s) \in Nat /\ Len(<<>>) = 0
  OBVIOUS
<1>4. s # <<>> /\ Len(s) # 1 => Tail(s) # <<>>
  <2>1. s # <<>> /\ Len(s) # 1 => Len(Tail(s)) # 0
    BY <1>2, <1>3
  <2>2. Tail(s) = <<>> => Len(Tail(s)) = 0
    BY <1>3
  <2> QED BY <2>1, <2>2
<1>5. ASSUME NEW m \in Good
      PROVE  Append(s, m) # <<>>
  <2>1. Len(Append(s, m)) # 0
    BY <1>1, <1>3
  <2>2. Append(s, m) = <<>> => Len(Append(s, m)) = 0
    BY <1>3
  <2> QED BY <2>1, <2>2
<1> QED BY <1>1, <1>2, <1>4, <1>5

LEMMA TailerToTypes ==
    ASSUME LogsTypes, NEW i \in TailerIds, NEW u, InStep(u), TailerTo(i, u),
           inputChan' \in Seq(Good), fate' \in FateSet
    PROVE  LogsTypes'
<1>1. TailerTypes'
  BY DEF LogsTypes, TailerTypes, TailerTo
<1>2. FileTypes' /\ FateTypes' /\ ChanTypes' /\ RegistryTypes'
  BY DEF LogsTypes, FileTypes, FateTypes, FateSet, ChanTypes, RegistryTypes, TailerTo, fileVars,
         confVars, senderVars, auditorVars
<1> QED BY <1>1, <1>2 DEF LogsTypes

LEMMA VolatileTypes ==
    ASSUME LogsTypes, Volatile, UNCHANGED <<fileVars, starts, fate>>,
           registryFile' \in {registryFile, Torn}
    PROVE  LogsTypes'
<1>1. TailerTypes'
  BY NoTailerInStep DEF TailerTypes, Volatile
<1>2. FileTypes' /\ FateTypes' /\ ChanTypes' /\ RegistryTypes'
  BY DEF LogsTypes, FileTypes, FateTypes, ChanTypes, RegistryTypes, fileVars, Volatile
<1> QED BY <1>1, <1>2 DEF LogsTypes

Kept == LogsTypes' /\ Grows(fate, fate')

LEMMA TypesFile ==
    ASSUME LogsTypes, Write \/ RemoveFile \/ Recreate
    PROVE  Kept
<1>1. FileTypes'
  <2>1. CASE Write
    BY <2>1, WriteSize DEF Write, LogsTypes, FileTypes
  <2>2. CASE RemoveFile
    BY <2>2 DEF RemoveFile, LogsTypes, FileTypes
  <2>3. CASE Recreate
    BY <2>3, LogsNumbers DEF Recreate, Undisturbed, LogsTypes, FileTypes
  <2> QED BY <2>1, <2>2, <2>3
<1>2. UNCHANGED <<confVars, agent, canceled, tailerVars, pipelineVars, auditorVars, fate>>
  BY DEF Write, RemoveFile, Recreate
<1> QED BY <1>1, <1>2 DEF Kept, Grows, LogsTypes, FateTypes, TailerTypes, ChanTypes, RegistryTypes,
           tailerVars, pipelineVars, senderVars, auditorVars

LEMMA ScanTailers ==
    ASSUME LogsTypes, NEW offset \in Offsets, NEW i \in TailerIds
    PROVE  /\ tailers' = [tailers EXCEPT ![i] = TailerAt(offset)] /\ tailed' = i => TailerTypes'
           /\ tailed # 0 /\ tailed' = i
              /\ tailers' = [tailers EXCEPT ![tailed] = AfterRotation(@), ![i] = TailerAt(offset)]
                 => TailerTypes'
           /\ tailed # 0 /\ tailed' = 0 /\ tailers' = [tailers EXCEPT ![tailed] = AskedToStop(@)]
                 => TailerTypes'
           /\ tailed # 0 /\ tailed' = 0
              /\ tailers' = [tailers EXCEPT ![tailed] = AskedToStop(AfterRotation(@))] => TailerTypes'
<1>1. InStep(TailerAt(offset))
  BY NewTailer DEF LogsTypes
<1>2. tailed # 0 => tailed \in TailerIds
  BY DEF LogsTypes, TailerTypes
<1>3. tailed # 0 =>
         /\ InStep(AfterRotation(tailers[tailed])) /\ InStep(AskedToStop(tailers[tailed]))
         /\ InStep(AskedToStop(AfterRotation(tailers[tailed])))
  BY <1>2, Signals DEF LogsTypes, TailerTypes
<1> QED BY <1>1, <1>2, <1>3 DEF LogsTypes, TailerTypes

LEMMA TypesScan ==
    ASSUME LogsTypes, Scan
    PROVE  Kept
<1>0. 0 \in Offsets /\ 1 \in TailerIds
  BY LogsNumbers
<1>1. TailerTypes' /\ fate' \in FateSet /\ Grows(fate, fate')
  <2>1. CASE ScanStarts
    <3> DEFINE p == Position(registry, "beginning")
    <3>1. p \in Offsets
      BY PositionType DEF LogsTypes, RegistryTypes
    <3>2. PICK i \in TailerIds : tailers' = [tailers EXCEPT ![i] = TailerAt(p)] /\ tailed' = i
      BY <2>1 DEF ScanStarts, FreeTailer
    <3>3. fate' = Skipping(p)
      BY <2>1 DEF ScanStarts
    <3> HIDE DEF p
    <3> QED BY <3>1, <3>2, <3>3, ScanTailers, SkippingFacts DEF LogsTypes
  <2>2. CASE ScanRestarts
    <3>1. PICK i \in TailerIds :
            /\ tailers' = [tailers EXCEPT ![tailed] = AfterRotation(@), ![i] = TailerAt(0)]
            /\ tailed' = i
      BY <2>2 DEF ScanRestarts, FreeTailer
    <3>2. tailed # 0 /\ fate' = fate
      BY <2>2 DEF ScanRestarts
    <3> QED BY <1>0, <3>1, <3>2, ScanTailers DEF LogsTypes, FateTypes, FateSet, Grows
  <2>3. CASE ScanFailsToRestart
    BY <1>0, <2>3, ScanTailers DEF ScanFailsToRestart, LogsTypes, FateTypes, FateSet, Grows
  <2>4. CASE ScanStops
    BY <1>0, <2>4, ScanTailers DEF ScanStops, LogsTypes, FateTypes, FateSet, Grows
  <2> QED BY <2>1, <2>2, <2>3, <2>4 DEF Scan
<1>2. UNCHANGED <<fileVars, confVars, agent, starts, canceled, pipelineVars, auditorVars, expired>>
  BY DEF Scan, ScanStarts, ScanRestarts, ScanFailsToRestart, ScanStops
<1> QED BY <1>1, <1>2 DEF Kept, LogsTypes, FileTypes, FateTypes, FateSet, ChanTypes, RegistryTypes,
           fileVars, pipelineVars, senderVars, auditorVars

\* The message of a tailer, for what follows.
LEMMA MessageOf ==
    ASSUME LogsTypes, NEW i \in TailerIds, tailers[i].message # NoMessage
    PROVE  /\ tailers[i].message \in Good
           /\ tailers[i].message.gen = tailers[i].gen
           /\ tailers[i].message.line = tailers[i].forwarded + 1
           /\ tailers[i].gen \in Generations /\ tailers[i].message.line \in Lines
           /\ tailers[i].forwarded \in Nat
BY LogsNumbers DEF LogsTypes, TailerTypes, InStep, TailerSet, Good, Messages

LEMMA TypesTailer ==
    ASSUME LogsTypes, NEW i \in TailerIds, Tailer(i)
    PROVE  Kept
<1>0. inputChan \in Seq(Good) /\ fate \in FateSet /\ Grows(fate, fate)
  BY DEF LogsTypes, ChanTypes, FateTypes, FateSet, Grows
<1>1. ASSUME Read(i) \/ Stop(i) \/ CloseTimeout(i) \/ ReaderEnds(i) \/ FlushEnds(i) \/ Decode(i)
      PROVE  Kept
  <2>1. UNCHANGED <<inputChan, fate>>
    BY <1>1 DEF Read, Stop, CloseTimeout, ReaderEnds, FlushEnds, Decode
  <2>2. \E u : InStep(u) /\ TailerTo(i, u)
    <3>1. CASE Read(i) \/ Stop(i) \/ CloseTimeout(i) \/ ReaderEnds(i)
      BY <3>1, TailerSteps
    <3>2. CASE Decode(i)
      BY <3>2, Decoded
    <3>3. CASE FlushEnds(i)
      BY <3>3, NoTailerInStep DEF FlushEnds
    <3> QED BY <1>1, <3>1, <3>2, <3>3
  <2> QED BY <1>0, <2>1, <2>2, TailerToTypes DEF Kept
<1>2. ASSUME Forward(i)
      PROVE  Kept
  <2>1. tailers[i].message # NoMessage /\ TailerTo(i, Forwarded(tailers[i])) /\ fate' = fate
        /\ inputChan' = Append(inputChan, tailers[i].message)
    BY <1>2 DEF Forward
  <2>2. inputChan' \in Seq(Good) /\ InStep(Forwarded(tailers[i]))
    BY <1>0, <2>1, MessageOf, GoodSeqs, TailerSteps
  <2> QED BY <1>0, <2>1, <2>2, TailerToTypes DEF Kept
<1>3. ASSUME Abandon(i)
      PROVE  Kept
  <2> DEFINE t == tailers[i]
  <2>1. /\ t.message # NoMessage /\ TailerTo(i, Forwarded(t)) /\ inputChan' = inputChan
        /\ fate' = [fate EXCEPT ![t.gen][t.message.line] = IF @ = "none" THEN "skipped" ELSE @]
    BY <1>3 DEF Abandon
  <2>2. t.gen \in Generations /\ t.message.line \in Lines
    BY <2>1, MessageOf
  <2>3. fate' \in FateSet /\ Grows(fate, fate')
    BY <1>0, <2>1, <2>2 DEF FateSet, Grows, Fates
  <2>4. InStep(Forwarded(t))
    BY <2>1, TailerSteps
  <2> QED BY <1>0, <2>1, <2>3, <2>4, TailerToTypes DEF Kept
<1>4. ASSUME ForwardPanics(i)
      PROVE  Kept
  <2>1. Volatile /\ UNCHANGED <<fileVars, starts, fate>> /\ registryFile' = registryFile
    BY <1>4 DEF ForwardPanics
  <2> QED BY <1>0, <2>1, VolatileTypes DEF Kept
<1> QED BY <1>1, <1>2, <1>3, <1>4 DEF Tailer

LEMMA TypesPipeline ==
    ASSUME LogsTypes, Pipeline
    PROVE  Kept
<1>0. /\ inputChan \in Seq(Good) /\ senderChan \in Seq(Good) /\ auditorChan \in Seq(Good)
      /\ buffer \in Seq(Good) /\ fate \in FateSet /\ Grows(fate, fate)
  BY DEF LogsTypes, ChanTypes, FateTypes, FateSet, Grows
<1>1. UNCHANGED <<fileVars, starts, tailerVars, auditorVars>>
  BY DEF Pipeline, ProcessMessage, Receive, FlushTimer, Send, SendCanceled, Commit, SenderReturns, SenderTo
<1>2. ChanTypes' /\ fate' \in FateSet /\ Grows(fate, fate')
  <2>1. CASE ProcessMessage
    <3>1. /\ Head(inputChan) \in Good /\ Tail(inputChan) \in Seq(Good)
          /\ Append(senderChan, Head(inputChan)) \in Seq(Good)
      BY <1>0, <2>1, GoodSeqs DEF ProcessMessage
    <3>2. ChanTypes'
      BY <2>1, <3>1 DEF ProcessMessage, LogsTypes, ChanTypes, senderVars
    <3>3. Head(inputChan).gen \in Generations /\ Head(inputChan).line \in Lines
      BY <3>1 DEF Good, Messages
    <3>4. \/ fate' = fate
          \/ fate' = [fate EXCEPT ![Head(inputChan).gen][Head(inputChan).line] = "excluded"]
      BY <2>1 DEF ProcessMessage
    <3>5. "excluded" \in Fates \ {"none", "sent"} /\ FateTypes
      BY DEF Fates, LogsTypes
    <3>6. LET h == [fate EXCEPT ![Head(inputChan).gen][Head(inputChan).line] = "excluded"]
          IN  h \in FateSet /\ Grows(fate, h)
      BY <3>3, <3>5, FateUpdate
    <3> QED BY <1>0, <3>2, <3>4, <3>6
  <2>2. CASE Receive
    <3>1. Head(senderChan) \in Good /\ Tail(senderChan) \in Seq(Good)
      BY <1>0, <2>2, GoodSeqs DEF Receive
    <3>2. Append(buffer, Head(senderChan)) \in Seq(Good) /\ Append(buffer, Head(senderChan)) # <<>>
      BY <1>0, <3>1, GoodSeqs
    <3> QED BY <1>0, <2>2, <3>1, <3>2 DEF Receive, LogsTypes, ChanTypes
  <2>3. CASE FlushTimer
    BY <1>0, <2>3 DEF FlushTimer, SenderTo, LogsTypes, ChanTypes
  <2>4. CASE Send
    BY <1>0, <2>4, SendFate DEF Send, SenderTo, LogsTypes, ChanTypes
  <2>5. CASE SendCanceled
    <3>1. sender' \in {"receive", "returned"} /\ buffer' = <<>>
          /\ UNCHANGED <<inputChan, senderChan, auditorChan, fate>>
      BY <2>5 DEF SendCanceled, SenderTo
    <3> QED BY <1>0, <3>1 DEF LogsTypes, ChanTypes
  <2>6. CASE Commit
    <3>1. buffer # <<>> /\ Head(buffer) \in Good /\ Tail(buffer) \in Seq(Good)
          /\ (Len(buffer) # 1 => Tail(buffer) # <<>>)
      BY <1>0, <2>6, GoodSeqs DEF Commit, LogsTypes, ChanTypes
    <3>2. Append(auditorChan, Head(buffer)) \in Seq(Good)
      BY <1>0, <3>1, GoodSeqs
    <3> QED BY <1>0, <2>6, <3>1, <3>2 DEF Commit, SenderTo, LogsTypes, ChanTypes
  <2>7. CASE SenderReturns
    BY <1>0, <2>7 DEF SenderReturns, SenderTo, LogsTypes, ChanTypes
  <2> QED BY <2>1, <2>2, <2>3, <2>4, <2>5, <2>6, <2>7 DEF Pipeline
<1> QED BY <1>1, <1>2 DEF Kept, LogsTypes, FileTypes, FateTypes, FateSet, TailerTypes, RegistryTypes,
           fileVars, tailerVars, auditorVars

LEMMA TypesAuditor ==
    ASSUME LogsTypes, Auditor
    PROVE  Kept
<1>1. UNCHANGED <<fileVars, starts, tailerVars, inputChan, senderChan, senderVars, fate>>
  BY DEF Auditor, Audit, Cleanup, FlushRegistry, AuditorStep
<1>2. auditorChan' \in Seq(Good) /\ RegistryTypes'
  <2>1. CASE Audit
    <3>1. Head(auditorChan) \in Good /\ Tail(auditorChan) \in Seq(Good)
      BY <2>1, GoodSeqs DEF Audit, LogsTypes, ChanTypes
    <3>2. [gen |-> Head(auditorChan).gen, offset |-> Head(auditorChan).offset] \in Entries
      BY <3>1 DEF Good, Messages, Entries
    <3> QED BY <2>1, <3>1, <3>2 DEF Audit, LogsTypes, RegistryTypes
  <2>2. CASE Cleanup
    BY <2>2 DEF Cleanup, LogsTypes, RegistryTypes, ChanTypes
  <2>3. CASE FlushRegistry
    BY <2>3 DEF FlushRegistry, LogsTypes, RegistryTypes, ChanTypes
  <2> QED BY <2>1, <2>2, <2>3 DEF Auditor
<1> QED BY <1>1, <1>2 DEF Kept, Grows, LogsTypes, FileTypes, FateTypes, TailerTypes, ChanTypes,
           RegistryTypes, fileVars, tailerVars, senderVars

LEMMA TypesAgent ==
    ASSUME LogsTypes, Start \/ Crash \/ StopAgent \/ LogsStopStep
    PROVE  Kept
<1>0. Grows(fate, fate) /\ fate \in FateSet
  BY DEF Grows, LogsTypes, FateTypes, FateSet
<1>1. CASE Start
  <2> DEFINE p == Position(Recovered, tailingMode)
  <2>1. Recovered \in Entries \cup {NoEntry} /\ p \in Offsets
    BY RecoveredType, PositionType DEF LogsTypes
  <2> HIDE DEF p
  <2>2. TailerTypes' /\ fate' \in FateSet /\ Grows(fate, fate')
    <3>1. CASE present
      <4>1. tailers' = [tailers EXCEPT ![1] = TailerAt(p)] /\ tailed' = 1 /\ fate' = Skipping(p)
        BY <1>1, <3>1 DEF Start, p
      <4> QED BY <2>1, <4>1, ScanTailers, SkippingFacts, LogsNumbers DEF LogsTypes
    <3>2. CASE ~present
      BY <1>0, <1>1, <3>2 DEF Start, tailerVars, LogsTypes, TailerTypes
    <3> QED BY <3>1, <3>2
  <2>3. starts' \in Nat /\ registry' = Recovered
        /\ UNCHANGED <<fileVars, pipelineVars, registryFile>>
    BY <1>1 DEF Start, LogsTypes, FileTypes
  <2> QED BY <2>1, <2>2, <2>3 DEF Kept, LogsTypes, FileTypes, FateTypes, FateSet, ChanTypes,
             RegistryTypes, fileVars, pipelineVars, senderVars
<1>2. CASE Crash
  BY <1>0, <1>2, VolatileTypes DEF Crash, Kept
<1>3. CASE StopAgent
  <2>1. \A i \in TailerIds : InStep(tailers[i]) /\ InStep(Stopped(tailers[i]))
    BY Signals DEF LogsTypes, TailerTypes
  <2>2. TailerTypes'
    BY <1>3, <2>1 DEF StopAgent, AgentTo, LogsTypes, TailerTypes
  <2>3. UNCHANGED <<fileVars, starts, pipelineVars, auditorVars, fate>>
    BY <1>3 DEF StopAgent, AgentTo
  <2> QED BY <1>0, <2>2, <2>3 DEF Kept, LogsTypes, FileTypes, FateTypes, ChanTypes, RegistryTypes,
             fileVars, pipelineVars, senderVars, auditorVars
<1>4. CASE AgentStopped
  BY <1>0, <1>4, VolatileTypes DEF AgentStopped, Kept
<1>5. CASE InputsStopped \/ ProcessorStopped \/ SenderStopped \/ AuditorStopped \/ GracePeriodEnds
  <2>1. UNCHANGED <<fileVars, starts, tailerVars, pipelineVars, registry, fate>>
        /\ registryFile' \in {registry, registryFile}
    BY <1>5 DEF InputsStopped, ProcessorStopped, SenderStopped, AuditorStopped, GracePeriodEnds,
                AgentTo, auditorVars, tailerVars
  <2> QED BY <1>0, <2>1 DEF Kept, LogsTypes, FileTypes, FateTypes, TailerTypes, ChanTypes,
             RegistryTypes, fileVars, tailerVars, pipelineVars, senderVars
<1> QED BY <1>1, <1>2, <1>3, <1>4, <1>5 DEF LogsStopStep

LEMMA TypesStep ==
    ASSUME LogsTypes, [LogsNext]_logsVars
    PROVE  Kept
<1>1. CASE UNCHANGED logsVars
  BY <1>1 DEF logsVars, Kept, Grows, LogsTypes, FileTypes, FateTypes, TailerTypes, ChanTypes,
     RegistryTypes, fileVars, tailerVars, pipelineVars, senderVars, auditorVars
<1> QED BY <1>1, TypesFile, TypesScan, TypesTailer, TypesPipeline, TypesAuditor, TypesAgent DEF LogsNext

LEMMA TypesInit == LogsInit => LogsTypes
<1> SUFFICES ASSUME LogsInit
             PROVE  LogsTypes
  OBVIOUS
<1>1. FileTypes /\ ChanTypes /\ RegistryTypes
  BY LogsNumbers DEF LogsInit, FileTypes, ChanTypes, RegistryTypes
<1>2. TailerTypes
  BY NoTailerInStep DEF LogsInit, TailerTypes
<1>3. FateTypes
  BY DEF LogsInit, FateTypes, Fates
<1> QED BY <1>1, <1>2, <1>3 DEF LogsTypes

-----------------------------------------------------------------------------
(* CommittedIsHandled.  What the sender, the processor and the tailers have   *)
(* not dealt with yet is in the pipeline, in the order of the file: when a     *)
(* line is sent, all lines before it are dealt with or are sent with it.  A    *)
(* cancelled context breaks that order, and nothing is sent any more.          *)

Pipe == buffer \o (senderChan \o inputChan)

\* The lines of g up to n are dealt with or in p.
Behind(f, p, g, n) ==
    \A l \in 1..n : f[g][l] # "none" \/ \E k \in DOMAIN p : p[k].gen = g /\ p[k].line = l
\* The lines before a message of p are dealt with or ahead of it.
Ordered(f, p) ==
    \A k \in DOMAIN p : \A l \in 1..(p[k].line - 1) :
        \/ f[p[k].gen][l] # "none"
        \/ \E j \in DOMAIN p : j < k /\ p[j].gen = p[k].gen /\ p[j].line = l
\* The lines up to n are dealt with.
Done(f, g, n) == \A l \in 1..n : f[g][l] # "none"

LEMMA GoodParts ==
    ASSUME NEW m \in Good
    PROVE  /\ m.gen \in Generations /\ m.line \in Lines /\ m.line \in Nat \ {0} /\ m.line <= MaxLines
           /\ m.offset \in Offsets /\ m.offset \in Nat /\ (m.tracked => m.offset <= m.line)
           /\ \A l \in 1..m.line : l \in Lines
BY LogsNumbers DEF Good, Messages

LEMMA GoodElements ==
    ASSUME NEW p \in Seq(Good)
    PROVE  Len(p) \in Nat /\ DOMAIN p = 1..Len(p) /\ \A k \in DOMAIN p : p[k] \in Good
OBVIOUS

LEMMA GrowsKeeps ==
    ASSUME NEW f, NEW h, Grows(f, h)
    PROVE  /\ \A p \in Seq(Good) : Ordered(f, p) => Ordered(h, p)
           /\ \A p \in Seq(Good), g \in Generations, n \in Offsets : Behind(f, p, g, n) => Behind(h, p, g, n)
           /\ \A g \in Generations, n \in Offsets : Done(f, g, n) => Done(h, g, n)
<1>1. \A n \in Offsets : \A l \in 1..n : l \in Lines
  BY LogsNumbers
<1>2. \A m \in Good : m.gen \in Generations /\ \A l \in 1..(m.line - 1) : l \in Lines
  BY GoodParts
<1>3. ASSUME NEW p \in Seq(Good), Ordered(f, p)
      PROVE  Ordered(h, p)
  BY <1>2, <1>3, GoodElements DEF Ordered, Grows
<1>4. ASSUME NEW p \in Seq(Good), NEW g \in Generations, NEW n \in Offsets, Behind(f, p, g, n)
      PROVE  Behind(h, p, g, n)
  BY <1>1, <1>4 DEF Behind, Grows
<1>5. ASSUME NEW g \in Generations, NEW n \in Offsets, Done(f, g, n)
      PROVE  Done(h, g, n)
  BY <1>1, <1>5 DEF Done, Grows
<1> QED BY <1>3, <1>4, <1>5

LEMMA AppendKeeps ==
    ASSUME NEW f, NEW p \in Seq(Good), NEW m \in Good
    PROVE  /\ \A g \in Generations, n \in Offsets : Behind(f, p, g, n) => Behind(f, Append(p, m), g, n)
           /\ Behind(f, p, m.gen, m.line - 1) => Behind(f, Append(p, m), m.gen, m.line)
           /\ Behind(f, p, m.gen, m.line - 1) /\ Ordered(f, p) => Ordered(f, Append(p, m))
<1> DEFINE a == Append(p, m)
<1>1. /\ Len(p) \in Nat /\ DOMAIN p = 1..Len(p) /\ DOMAIN a = 1..(Len(p) + 1)
      /\ \A k \in DOMAIN p : k \in DOMAIN a /\ a[k] = p[k]
      /\ a[Len(p) + 1] = m /\ Len(p) + 1 \in DOMAIN a
      /\ \A k \in DOMAIN a : k \in DOMAIN p \/ k = Len(p) + 1
      /\ \A k \in DOMAIN p : k < Len(p) + 1
  BY AppendProperties
<1> HIDE DEF a
<1>2. ASSUME NEW g, NEW n, Behind(f, p, g, n)
      PROVE  Behind(f, a, g, n)
  BY <1>1, <1>2 DEF Behind
<1>3. ASSUME Behind(f, p, m.gen, m.line - 1)
      PROVE  Behind(f, a, m.gen, m.line)
  <2>1. Behind(f, a, m.gen, m.line - 1)
    BY <1>2, <1>3
  <2>2. \A l \in 1..m.line : l \in 1..(m.line - 1) \/ l = m.line
    BY GoodParts
  <2> QED BY <1>1, <2>1, <2>2 DEF Behind
<1>4. ASSUME Behind(f, p, m.gen, m.line - 1), Ordered(f, p)
      PROVE  Ordered(f, a)
  <2>1. ASSUME NEW k \in DOMAIN a, NEW l \in 1..(a[k].line - 1)
        PROVE  \/ f[a[k].gen][l] # "none"
               \/ \E j \in DOMAIN a : j < k /\ a[j].gen = a[k].gen /\ a[j].line = l
    <3>1. CASE k \in DOMAIN p
      BY <1>1, <1>4, <2>1, <3>1 DEF Ordered
    <3>2. CASE k = Len(p) + 1
      BY <1>1, <1>4, <2>1, <3>2 DEF Behind
    <3> QED BY <1>1, <3>1, <3>2
  <2> QED BY <2>1 DEF Ordered
<1> QED BY <1>2, <1>3, <1>4 DEF a

\* Messages whose lines are dealt with leave the pipeline.
LEMMA CutKeeps ==
    ASSUME NEW f, NEW x \in Seq(Good), NEW y \in Seq(Good), NEW z \in Seq(Good),
           \A i \in DOMAIN y : f[y[i].gen][y[i].line] # "none"
    PROVE  /\ \A g \in Generations, n \in Offsets :
                 Behind(f, x \o (y \o z), g, n) => Behind(f, x \o z, g, n)
           /\ Ordered(f, x \o (y \o z)) => Ordered(f, x \o z)
<1> DEFINE a == x \o (y \o z)
           b == x \o z
           from(k) == CutIndex(x, y, k)
<1>1. /\ a \in Seq(Good) /\ b \in Seq(Good)
      /\ \A k \in DOMAIN b : from(k) \in DOMAIN a /\ a[from(k)] = b[k]
      /\ \A j \in DOMAIN a : \/ \E i \in DOMAIN y : a[j] = y[i]
                             \/ \E k \in DOMAIN b : from(k) = j
      /\ \A j, k \in DOMAIN b : from(j) < from(k) <=> j < k
  <2>1. x \in Seq(Good) /\ y \in Seq(Good) /\ z \in Seq(Good)
    OBVIOUS
  <2> QED BY ONLY <2>1, CutOut
<1> HIDE DEF a, b
<1>3. \A j \in DOMAIN a : \/ f[a[j].gen][a[j].line] # "none"
                         \/ \E k \in DOMAIN b : from(k) = j /\ b[k] = a[j]
  BY <1>1
<1>5. ASSUME NEW g, NEW n, Behind(f, a, g, n)
      PROVE  Behind(f, b, g, n)
  BY <1>3, <1>5 DEF Behind
<1>6. ASSUME Ordered(f, a)
      PROVE  Ordered(f, b)
  <2>1. ASSUME NEW k \in DOMAIN b, NEW l \in 1..(b[k].line - 1), f[b[k].gen][l] = "none"
        PROVE  \E j \in DOMAIN b : j < k /\ b[j].gen = b[k].gen /\ b[j].line = l
    <3> DEFINE c == from(k)
    <3>1. c \in DOMAIN a /\ a[c] = b[k]
      BY <1>1
    <3> HIDE DEF c
    <3>2. PICK i \in DOMAIN a : i < c /\ a[i].gen = b[k].gen /\ a[i].line = l
      BY <1>6, <2>1, <3>1 DEF Ordered
    <3>3. PICK j \in DOMAIN b : from(j) = i /\ b[j] = a[i]
      BY <1>3, <2>1, <3>2
    <3>4. j < k
      BY <1>1, <3>2, <3>3 DEF c
    <3> QED BY <3>2, <3>3, <3>4
  <2> QED BY <2>1 DEF Ordered
<1> QED BY <1>5, <1>6 DEF a, b

OrderInv ==
    ~canceled => /\ Ordered(fate, Pipe)
                 /\ \A i \in TailerIds : Behind(fate, Pipe, tailers[i].gen, tailers[i].forwarded)
DoneInv ==
    /\ sender = "commit" => \A k \in DOMAIN buffer : Done(fate, buffer[k].gen, buffer[k].line)
    /\ \A k \in DOMAIN auditorChan :
          auditorChan[k].tracked => Done(fate, auditorChan[k].gen, auditorChan[k].offset)
    /\ \A e \in {registry, registryFile} : e \in Entries => Done(fate, e.gen, e.offset)

\* Facts about sequences, in the form in which they are instantiated below.
LEMMA GoodAssociative ==
    \A x, y, z \in Seq(Good) : (x \o y) \o z = x \o (y \o z)
BY ConcatAssociative

LEMMA GoodMoveHead ==
    \A p, q, r \in Seq(Good) : q # <<>> => Append(p, Head(q)) \o (Tail(q) \o r) = p \o (q \o r)
BY MoveHead

LEMMA PipeType ==
    ASSUME LogsTypes
    PROVE  /\ senderChan \o inputChan \in Seq(Good) /\ Pipe \in Seq(Good)
           /\ \A i \in TailerIds : tailers[i].gen \in Generations /\ tailers[i].forwarded \in Offsets
<1>1. inputChan \in Seq(Good) /\ senderChan \in Seq(Good) /\ buffer \in Seq(Good)
  BY DEF LogsTypes, ChanTypes
<1>2. senderChan \o inputChan \in Seq(Good)
  BY <1>1, ConcatProperties
<1>3. Pipe \in Seq(Good)
  BY <1>1, <1>2, ConcatProperties DEF Pipe
<1> QED BY <1>2, <1>3 DEF LogsTypes, TailerTypes, InStep, TailerSet

\* How the steps of the pipeline change it.
LEMMA PipeReceive ==
    ASSUME LogsTypes, Receive
    PROVE  Pipe' = Pipe
<1>1. /\ senderChan # <<>> /\ buffer' = Append(buffer, Head(senderChan))
      /\ senderChan' = Tail(senderChan) /\ inputChan' = inputChan
  BY DEF Receive
<1>2. inputChan \in Seq(Good) /\ senderChan \in Seq(Good) /\ buffer \in Seq(Good)
  BY DEF LogsTypes, ChanTypes
<1>3. Append(buffer, Head(senderChan)) \o (Tail(senderChan) \o inputChan) = buffer \o (senderChan \o inputChan)
  <2>1. senderChan # <<>>
    BY <1>1
  <2> QED BY <1>2, <2>1, GoodMoveHead, Zenon
<1> QED BY <1>1, <1>3 DEF Pipe

LEMMA PipeProcess ==
    ASSUME LogsTypes, ProcessMessage
    PROVE  \/ Pipe' = Pipe
           \/ \E x \in Seq(Good), m \in Good, z \in Seq(Good) :
                 Pipe = x \o (<<m>> \o z) /\ Pipe' = x \o z /\ fate'[m.gen][m.line] # "none"
<1> DEFINE m == Head(inputChan)
<1>1. inputChan # <<>> /\ inputChan' = Tail(inputChan) /\ buffer' = buffer
  BY DEF ProcessMessage, senderVars
<1>2. inputChan \in Seq(Good) /\ senderChan \in Seq(Good) /\ buffer \in Seq(Good)
  BY DEF LogsTypes, ChanTypes
<1>3. /\ inputChan = <<m>> \o Tail(inputChan) /\ m \in Good
      /\ Tail(inputChan) \in Seq(Good) /\ <<m>> \in Seq(Good)
  BY <1>1, <1>2, HeadFirst
<1>4. CASE senderChan' = Append(senderChan, m)
  <2>1. <<>> \in Seq(Good) /\ Tail(inputChan) \o <<>> = Tail(inputChan) /\ inputChan \o <<>> = inputChan
    BY <1>2, <1>3, EmptySeq, ConcatEmptySeq
  <2>2. Append(senderChan, m) \o (Tail(inputChan) \o <<>>) = senderChan \o (inputChan \o <<>>)
    BY <1>1, <1>2, <2>1, MoveHead
  <2> QED BY <1>1, <1>4, <2>1, <2>2 DEF Pipe
<1>5. CASE senderChan' = senderChan /\ fate' = [fate EXCEPT ![m.gen][m.line] = "excluded"]
  <2> DEFINE x == buffer \o senderChan
             z == Tail(inputChan)
  <2>1. x \in Seq(Good) /\ z \in Seq(Good)
    BY <1>2, <1>3, ConcatProperties
  <2>2. Pipe = x \o inputChan
    BY <1>2, ConcatAssociative DEF Pipe
  <2>3. Pipe' = x \o z
    <3>1. Pipe' = buffer \o (senderChan \o z)
      BY <1>1, <1>5 DEF Pipe
    <3>2. (buffer \o senderChan) \o z = buffer \o (senderChan \o z)
      BY <1>2, <2>1, GoodAssociative, Zenon
    <3> QED BY <3>1, <3>2
  <2>4. m.gen \in Generations /\ m.line \in Lines
    BY <1>3, GoodParts
  <2>5. fate'[m.gen][m.line] # "none"
    BY <1>5, <2>4 DEF LogsTypes, FateTypes
  <2>6. Pipe = x \o (<<m>> \o z)
    BY <1>3, <2>2
  <2> HIDE DEF x, z, m
  <2> QED BY <1>3, <2>1, <2>3, <2>5, <2>6
<1> QED BY <1>4, <1>5 DEF ProcessMessage

LEMMA PipeForward ==
    ASSUME LogsTypes, NEW i \in TailerIds, Forward(i)
    PROVE  Pipe' = Append(Pipe, tailers[i].message)
<1> DEFINE m == tailers[i].message
<1>1. m # NoMessage /\ inputChan' = Append(inputChan, m) /\ UNCHANGED <<senderChan, buffer>>
  BY DEF Forward, TailerTo, senderVars
<1>2. m \in Good
  BY <1>1, MessageOf
<1> HIDE DEF m
<1>3. inputChan \in Seq(Good) /\ senderChan \in Seq(Good) /\ buffer \in Seq(Good)
  BY DEF LogsTypes, ChanTypes
<1>4. senderChan \o Append(inputChan, m) = Append(senderChan \o inputChan, m)
  BY <1>2, <1>3, AppendLast
<1>5. senderChan \o inputChan \in Seq(Good)
  BY PipeType
<1>6. buffer \o Append(senderChan \o inputChan, m) = Append(buffer \o (senderChan \o inputChan), m)
  BY <1>2, <1>3, <1>5, AppendLast
<1> QED BY <1>1, <1>4, <1>6 DEF Pipe, m

LEMMA DoneIsBehind ==
    ASSUME NEW f, NEW p, NEW g, NEW n, Done(f, g, n)
    PROVE  Behind(f, p, g, n)
BY DEF Done, Behind

\* The steps that leave the pipeline as it is, and each tailer where it is or where
\* everything before it is dealt with.
LEMMA OrderKept ==
    ASSUME LogsTypes, Kept, OrderInv, Pipe' = Pipe, canceled => canceled',
           \A i \in TailerIds :
              \/ tailers'[i].gen = tailers[i].gen /\ tailers'[i].forwarded = tailers[i].forwarded
              \/ Done(fate', tailers'[i].gen, tailers'[i].forwarded)
    PROVE  OrderInv'
<1>1. Pipe \in Seq(Good) /\ Grows(fate, fate')
      /\ \A i \in TailerIds : tailers[i].gen \in Generations /\ tailers[i].forwarded \in Offsets
  BY PipeType DEF Kept
<1>2. ASSUME ~canceled
      PROVE  /\ Ordered(fate', Pipe')
             /\ \A i \in TailerIds : Behind(fate', Pipe', tailers'[i].gen, tailers'[i].forwarded)
  <2>1. Ordered(fate, Pipe)
        /\ \A i \in TailerIds : Behind(fate, Pipe, tailers[i].gen, tailers[i].forwarded)
    BY <1>2 DEF OrderInv
  <2>2. Ordered(fate', Pipe)
    BY <1>1, <2>1, GrowsKeeps
  <2>3. \A i \in TailerIds : Behind(fate', Pipe, tailers[i].gen, tailers[i].forwarded)
    BY <1>1, <2>1, GrowsKeeps
  <2>4. ASSUME NEW i \in TailerIds
        PROVE  Behind(fate', Pipe, tailers'[i].gen, tailers'[i].forwarded)
    BY <2>3, DoneIsBehind
  <2> QED BY <2>2, <2>4
<1> QED BY <1>2 DEF OrderInv

LEMMA OrderVolatile ==
    ASSUME LogsTypes, Volatile
    PROVE  OrderInv'
<1>1. <<>> \in Seq(Good) /\ <<>> \o <<>> = <<>>
  <2>1. <<>> \in Seq(Good)
    BY EmptySeq
  <2> QED BY <2>1, ConcatEmptySeq
<1>2. Pipe' = <<>>
  BY <1>1 DEF Pipe, Volatile
<1>3. DOMAIN Pipe' = {}
  BY <1>1, <1>2
<1>4. \A i \in TailerIds : tailers'[i].forwarded = 0
  BY DEF Volatile, NoTailer
<1>5. 1..0 = {}
  OBVIOUS
<1> QED BY <1>3, <1>4, <1>5 DEF OrderInv, Ordered, Behind

LEMMA OrderTailer ==
    ASSUME LogsTypes, Kept, OrderInv, NEW i \in TailerIds, Tailer(i)
    PROVE  OrderInv'
<1>0. \A j \in TailerIds : \A u : TailerTo(i, u) =>
         /\ tailers'[j] = (IF j = i THEN u ELSE tailers[j])
         /\ UNCHANGED <<canceled, senderChan, buffer>>
  BY DEF LogsTypes, TailerTypes, TailerTo, senderVars
<1>1. CASE Read(i) \/ Stop(i) \/ CloseTimeout(i) \/ ReaderEnds(i)
  <2>1. PICK u : TailerTo(i, u) /\ SameCourse(tailers[i], u)
    BY <1>1, TailerSteps
  <2>2. UNCHANGED inputChan
    BY <1>1 DEF Read, Stop, CloseTimeout, ReaderEnds
  <2>3. Pipe' = Pipe
    BY <1>0, <2>1, <2>2 DEF Pipe
  <2> QED BY <1>0, <2>1, <2>3, OrderKept DEF SameCourse
<1>2. CASE Decode(i)
  <2>1. PICK u : TailerTo(i, u) /\ DecodedAs(tailers[i], u)
    BY <1>2, Decoded
  <2>2. UNCHANGED inputChan
    BY <1>2 DEF Decode
  <2>3. Pipe' = Pipe
    BY <1>0, <2>1, <2>2 DEF Pipe
  <2>4. u.gen = tailers[i].gen /\ u.forwarded = tailers[i].forwarded
    BY <2>1 DEF DecodedAs
  <2> QED BY <1>0, <2>1, <2>3, <2>4, OrderKept
<1>3. CASE FlushEnds(i)
  <2> DEFINE u == [NoTailer EXCEPT !.state = "done"]
  <2>1. TailerTo(i, u) /\ UNCHANGED inputChan
    BY <1>3 DEF FlushEnds
  <2>2. u.forwarded = 0
    BY DEF NoTailer
  <2> HIDE DEF u
  <2>3. \A g : Done(fate', g, u.forwarded)
    BY <2>2 DEF Done
  <2>4. Pipe' = Pipe
    BY <1>0, <2>1 DEF Pipe
  <2> QED BY <1>0, <2>1, <2>3, <2>4, OrderKept
<1>4. CASE Forward(i)
  <2> DEFINE m == tailers[i].message
             u == Forwarded(tailers[i])
  <2>1. m # NoMessage /\ TailerTo(i, u) /\ fate' = fate /\ inputChan' = Append(inputChan, m)
    BY <1>4 DEF Forward
  <2>2. /\ m \in Good /\ m.gen = tailers[i].gen /\ m.line = tailers[i].forwarded + 1
        /\ tailers[i].forwarded \in Nat
    BY <2>1, MessageOf
  <2>3. u.gen = m.gen /\ u.forwarded = m.line
    BY <2>1, <2>2, TailerSteps
  <2> HIDE DEF m, u
  <2>4. Pipe' = Append(Pipe, m)
    BY <1>4, PipeForward DEF m
  <2>5. ASSUME ~canceled
        PROVE  /\ Ordered(fate, Append(Pipe, m))
               /\ \A j \in TailerIds : Behind(fate, Append(Pipe, m), tailers'[j].gen, tailers'[j].forwarded)
    <3>1. Ordered(fate, Pipe)
          /\ \A j \in TailerIds : Behind(fate, Pipe, tailers[j].gen, tailers[j].forwarded)
      BY <2>5 DEF OrderInv
    <3>2. Behind(fate, Pipe, m.gen, m.line - 1)
      <4>1. tailers[i].forwarded = m.line - 1
        BY <2>2
      <4> QED BY <2>2, <3>1, <4>1
    <3>3. Pipe \in Seq(Good)
          /\ \A j \in TailerIds : tailers[j].gen \in Generations /\ tailers[j].forwarded \in Offsets
      BY PipeType
    <3>4. Ordered(fate, Append(Pipe, m)) /\ Behind(fate, Append(Pipe, m), m.gen, m.line)
      BY <2>2, <3>1, <3>2, <3>3, AppendKeeps
    <3>5. \A j \in TailerIds : Behind(fate, Append(Pipe, m), tailers[j].gen, tailers[j].forwarded)
      BY <2>2, <3>1, <3>3, AppendKeeps
    <3> QED BY <1>0, <2>1, <2>3, <3>4, <3>5
  <2> QED BY <1>0, <2>1, <2>4, <2>5 DEF OrderInv
<1>5. CASE Abandon(i)
  <2> DEFINE m == tailers[i].message
             u == Forwarded(tailers[i])
  <2>1. /\ m # NoMessage /\ TailerTo(i, u) /\ inputChan' = inputChan
        /\ fate' = [fate EXCEPT ![tailers[i].gen][m.line] = IF @ = "none" THEN "skipped" ELSE @]
    BY <1>5 DEF Abandon
  <2>2. /\ m \in Good /\ m.gen = tailers[i].gen /\ m.line = tailers[i].forwarded + 1
        /\ tailers[i].forwarded \in Nat /\ tailers[i].gen \in Generations /\ m.line \in Lines
    BY <2>1, MessageOf
  <2>3. u.gen = m.gen /\ u.forwarded = m.line
    BY <2>1, <2>2, TailerSteps
  <2> HIDE DEF m, u
  <2>4. fate'[m.gen][m.line] # "none"
    BY <2>1, <2>2 DEF LogsTypes, FateTypes
  <2>5. Pipe' = Pipe
    BY <1>0, <2>1 DEF Pipe
  <2>6. ASSUME ~canceled
        PROVE  /\ Ordered(fate', Pipe)
               /\ \A j \in TailerIds : Behind(fate', Pipe, tailers'[j].gen, tailers'[j].forwarded)
    <3>1. Ordered(fate, Pipe)
          /\ \A j \in TailerIds : Behind(fate, Pipe, tailers[j].gen, tailers[j].forwarded)
      BY <2>6 DEF OrderInv
    <3>2. Pipe \in Seq(Good) /\ Grows(fate, fate')
          /\ \A j \in TailerIds : tailers[j].gen \in Generations /\ tailers[j].forwarded \in Offsets
      BY PipeType DEF Kept
    <3>3. Ordered(fate', Pipe)
      BY <3>1, <3>2, GrowsKeeps
    <3>4. \A j \in TailerIds : Behind(fate', Pipe, tailers[j].gen, tailers[j].forwarded)
      BY <3>1, <3>2, GrowsKeeps
    <3>5. Behind(fate', Pipe, m.gen, m.line)
      <4>1. \A l \in 1..m.line : l \in 1..tailers[i].forwarded \/ l = m.line
        BY <2>2
      <4>2. Behind(fate', Pipe, m.gen, tailers[i].forwarded)
        BY <2>2, <3>4
      <4> QED BY <2>4, <4>1, <4>2 DEF Behind
    <3> QED BY <1>0, <2>1, <2>3, <3>3, <3>4, <3>5
  <2> QED BY <1>0, <2>1, <2>5, <2>6 DEF OrderInv
<1>6. CASE ForwardPanics(i)
  BY <1>6, OrderVolatile DEF ForwardPanics
<1> QED BY <1>1, <1>2, <1>3, <1>4, <1>5, <1>6 DEF Tailer

\* A new tailer begins where everything before it is dealt with.
LEMMA OrderScan ==
    ASSUME LogsTypes, Kept, OrderInv, Scan
    PROVE  OrderInv'
<1>0. Pipe' = Pipe /\ canceled' = canceled
  BY DEF Scan, ScanStarts, ScanRestarts, ScanFailsToRestart, ScanStops, Pipe, pipelineVars, senderVars
<1>1. tailers = [i \in TailerIds |-> tailers[i]] /\ (tailed # 0 => tailed \in TailerIds)
  BY DEF LogsTypes, TailerTypes
<1>2. tailed # 0 => /\ SameCourse(tailers[tailed], AfterRotation(tailers[tailed]))
                    /\ SameCourse(tailers[tailed], AskedToStop(tailers[tailed]))
                    /\ SameCourse(tailers[tailed], AskedToStop(AfterRotation(tailers[tailed])))
  BY <1>1, Signals DEF LogsTypes, TailerTypes
<1>3. \A i \in TailerIds :
         \/ tailers'[i].gen = tailers[i].gen /\ tailers'[i].forwarded = tailers[i].forwarded
         \/ Done(fate', tailers'[i].gen, tailers'[i].forwarded)
  <2>1. CASE ScanStarts
    <3> DEFINE p == Position(registry, "beginning")
    <3>1. p \in Offsets
      BY PositionType DEF LogsTypes, RegistryTypes
    <3>2. PICK i \in TailerIds : tailers' = [tailers EXCEPT ![i] = TailerAt(p)]
      BY <2>1 DEF ScanStarts, FreeTailer
    <3>3. fate' = Skipping(p)
      BY <2>1 DEF ScanStarts
    <3> HIDE DEF p
    <3>4. TailerAt(p).gen = generation /\ TailerAt(p).forwarded = p
      BY <3>1, NewTailer DEF LogsTypes
    <3>5. Done(fate', generation, p)
      BY <3>1, <3>3, SkippingFacts DEF LogsTypes, Done
    <3> QED BY <1>1, <3>2, <3>4, <3>5
  <2>2. CASE ScanRestarts
    <3>1. PICK i \in TailerIds :
            tailers' = [tailers EXCEPT ![tailed] = AfterRotation(@), ![i] = TailerAt(0)]
      BY <2>2 DEF ScanRestarts, FreeTailer
    <3>2. tailed # 0
      BY <2>2 DEF ScanRestarts
    <3>3. TailerAt(0).forwarded = 0
      <4>1. 0 \in Offsets /\ FileTypes
        BY LogsNumbers DEF LogsTypes
      <4> QED BY ONLY <4>1, NewTailer
    <3>4. \A g : Done(fate', g, 0)
      BY DEF Done
    <3>5. \A j \in TailerIds :
             tailers'[j] = IF j = i THEN TailerAt(0)
                           ELSE IF j = tailed THEN AfterRotation(tailers[j]) ELSE tailers[j]
      BY <1>1, <3>1
    <3> QED BY <1>2, <3>2, <3>3, <3>4, <3>5 DEF SameCourse
  <2>3. CASE ScanFailsToRestart
    BY <1>1, <1>2, <2>3 DEF ScanFailsToRestart, SameCourse
  <2>4. CASE ScanStops
    BY <1>1, <1>2, <2>4 DEF ScanStops, SameCourse
  <2> QED BY <2>1, <2>2, <2>3, <2>4 DEF Scan
<1> QED BY <1>0, <1>3, OrderKept

LEMMA OrderPipeline ==
    ASSUME LogsTypes, Kept, OrderInv, DoneInv, Pipeline
    PROVE  OrderInv'
<1>0. UNCHANGED <<canceled, tailers>>
  BY DEF Pipeline, ProcessMessage, Receive, FlushTimer, Send, SendCanceled, Commit, SenderReturns,
         SenderTo, tailerVars
<1>1. /\ inputChan \in Seq(Good) /\ senderChan \in Seq(Good) /\ buffer \in Seq(Good)
      /\ senderChan \o inputChan \in Seq(Good) /\ Pipe \in Seq(Good)
      /\ \A i \in TailerIds : tailers[i].gen \in Generations /\ tailers[i].forwarded \in Offsets
  BY PipeType DEF LogsTypes, ChanTypes
<1>2. Grows(fate, fate')
  BY DEF Kept
<1>3. ASSUME Pipe' = Pipe
      PROVE  OrderInv'
  BY <1>0, <1>3, OrderKept
<1>4. ASSUME NEW x \in Seq(Good), NEW m \in Good, NEW z \in Seq(Good),
             Pipe = x \o (<<m>> \o z), Pipe' = x \o z, fate'[m.gen][m.line] # "none"
      PROVE  OrderInv'
  <2> DEFINE y == <<m>>
  <2>1. y \in Seq(Good) /\ \A i \in DOMAIN y : fate'[y[i].gen][y[i].line] # "none"
    BY <1>4
  <2> HIDE DEF y
  <2>2. ASSUME ~canceled
        PROVE  /\ Ordered(fate', x \o z)
               /\ \A i \in TailerIds : Behind(fate', x \o z, tailers[i].gen, tailers[i].forwarded)
    <3>1. Ordered(fate, Pipe)
          /\ \A i \in TailerIds : Behind(fate, Pipe, tailers[i].gen, tailers[i].forwarded)
      BY <2>2 DEF OrderInv
    <3>2. Ordered(fate', Pipe)
          /\ \A i \in TailerIds : Behind(fate', Pipe, tailers[i].gen, tailers[i].forwarded)
      BY <1>1, <1>2, <3>1, GrowsKeeps
    <3>3. Pipe = x \o (y \o z)
      BY <1>4 DEF y
    <3> DEFINE f == fate'
    <3> HIDE DEF f
    <3>4. x \in Seq(Good) /\ y \in Seq(Good) /\ z \in Seq(Good)
          /\ \A i \in DOMAIN y : f[y[i].gen][y[i].line] # "none"
      BY <1>4, <2>1 DEF f
    <3>5. /\ \A g \in Generations, n \in Offsets :
                Behind(f, x \o (y \o z), g, n) => Behind(f, x \o z, g, n)
          /\ Ordered(f, x \o (y \o z)) => Ordered(f, x \o z)
      BY ONLY <3>4, CutKeeps
    <3> QED BY <1>1, <3>2, <3>3, <3>5 DEF f
  <2> QED BY <1>0, <1>4, <2>2 DEF OrderInv
<1>5. CASE ProcessMessage
  <2>1. CASE Pipe' = Pipe
    BY <1>3, <2>1
  <2>2. CASE Pipe' # Pipe
    <3>1. PICK x \in Seq(Good), m \in Good, z \in Seq(Good) :
            Pipe = x \o (<<m>> \o z) /\ Pipe' = x \o z /\ fate'[m.gen][m.line] # "none"
      BY <1>5, <2>2, PipeProcess
    <3> QED BY <1>4, <3>1
  <2> QED BY <2>1, <2>2
<1>6. CASE Receive
  BY <1>3, <1>6, PipeReceive
<1>7. CASE FlushTimer \/ Send \/ SenderReturns
  BY <1>3, <1>7 DEF FlushTimer, Send, SenderReturns, SenderTo, Pipe
<1>8. CASE SendCanceled
  BY <1>0, <1>8 DEF SendCanceled, OrderInv
<1>9. CASE Commit
  <2> DEFINE m == Head(buffer)
             z == Tail(buffer) \o (senderChan \o inputChan)
  <2>1. buffer # <<>> /\ sender = "commit" /\ buffer' = Tail(buffer) /\ fate' = fate
        /\ UNCHANGED <<senderChan, inputChan>>
    BY <1>9 DEF Commit, SenderTo, LogsTypes, ChanTypes
  <2>2. /\ buffer = <<m>> \o Tail(buffer) /\ m \in Good
        /\ Tail(buffer) \in Seq(Good) /\ <<m>> \in Seq(Good)
    BY <1>1, <2>1, HeadFirst
  <2>3. z \in Seq(Good) /\ <<>> \in Seq(Good)
    BY <1>1, <2>2, ConcatProperties, EmptySeq
  <2>4. (<<m>> \o Tail(buffer)) \o (senderChan \o inputChan) = <<m>> \o z
    <3> DEFINE t == Tail(buffer)
               r == senderChan \o inputChan
               h == <<m>>
    <3>1. h \in Seq(Good) /\ t \in Seq(Good) /\ r \in Seq(Good)
      BY <1>1, <2>2
    <3> HIDE DEF t, r, h
    <3>2. (h \o t) \o r = h \o (t \o r)
      BY <3>1, GoodAssociative, Zenon
    <3> QED BY <3>2 DEF t, r, h
  <2>5. Pipe = <<m>> \o z
    BY <2>2, <2>4 DEF Pipe
  <2>6. Pipe' = z
    BY <2>1 DEF Pipe
  <2>7. m = buffer[1] /\ 1 \in DOMAIN buffer
    BY <1>1, <2>1, HeadTail
  <2>8. Done(fate, m.gen, m.line) /\ m.line \in Nat \ {0}
    BY <2>1, <2>2, <2>7, GoodParts DEF DoneInv
  <2>9. fate'[m.gen][m.line] # "none"
    BY <2>1, <2>8 DEF Done
  <2> HIDE DEF m, z
  <2>10. <<>> \o z = z /\ <<>> \o (<<m>> \o z) = <<m>> \o z
    <3>1. <<m>> \o z \in Seq(Good)
      BY <2>2, <2>3, ConcatProperties
    <3> QED BY <2>3, <3>1, ConcatEmptySeq
  <2> QED BY <1>4, <2>2, <2>3, <2>5, <2>6, <2>9, <2>10
<1> QED BY <1>5, <1>6, <1>7, <1>8, <1>9 DEF Pipeline

LEMMA OrderStep ==
    ASSUME LogsTypes, Kept, OrderInv, DoneInv, [LogsNext]_logsVars
    PROVE  OrderInv'
<1>1. CASE UNCHANGED logsVars
  BY <1>1, OrderKept DEF logsVars, Pipe, tailerVars, pipelineVars, senderVars
<1>2. CASE Write \/ RemoveFile \/ Recreate
  <2>1. UNCHANGED <<tailers, buffer, senderChan, inputChan, canceled>>
    BY <1>2 DEF Write, RemoveFile, Recreate, tailerVars, pipelineVars, senderVars
  <2>2. Pipe' = Pipe
    BY <2>1 DEF Pipe
  <2> QED BY <2>1, <2>2, OrderKept
<1>3. CASE Auditor
  <2>1. UNCHANGED <<tailers, buffer, senderChan, inputChan, canceled>>
    BY <1>3 DEF Auditor, Audit, Cleanup, FlushRegistry, AuditorStep, tailerVars, senderVars
  <2>2. Pipe' = Pipe
    BY <2>1 DEF Pipe
  <2> QED BY <2>1, <2>2, OrderKept
<1>4. CASE Start
  <2>1. Pipe' = Pipe /\ canceled' = canceled
    BY <1>4 DEF Start, Pipe, pipelineVars, senderVars
  <2>2. CASE ~present
    BY <1>4, <2>1, <2>2, OrderKept DEF Start, tailerVars
  <2>3. CASE present
    <3> DEFINE p == Position(Recovered, tailingMode)
    <3>1. p \in Offsets
      BY RecoveredType, PositionType DEF LogsTypes
    <3>2. tailers' = [tailers EXCEPT ![1] = TailerAt(p)] /\ fate' = Skipping(p)
      BY <1>4, <2>3 DEF Start
    <3> HIDE DEF p
    <3>3. TailerAt(p).gen = generation /\ TailerAt(p).forwarded = p
      BY <3>1, NewTailer DEF LogsTypes
    <3>4. Done(fate', generation, p)
      BY <3>1, <3>2, SkippingFacts DEF LogsTypes, Done
    <3>5. \A i \in TailerIds : tailers'[i] = IF i = 1 THEN TailerAt(p) ELSE tailers[i]
      BY <3>2 DEF LogsTypes, TailerTypes
    <3> QED BY <2>1, <3>3, <3>4, <3>5, OrderKept
  <2> QED BY <2>2, <2>3
<1>5. CASE Crash
  BY <1>5, OrderVolatile DEF Crash
<1>6. CASE StopAgent
  <2>1. \A i \in TailerIds : SameCourse(tailers[i], tailers[i]) /\ SameCourse(tailers[i], Stopped(tailers[i]))
    BY Signals DEF LogsTypes, TailerTypes, SameCourse
  <2>2. \A i \in TailerIds : tailers'[i].gen = tailers[i].gen /\ tailers'[i].forwarded = tailers[i].forwarded
    BY <1>6, <2>1 DEF StopAgent, SameCourse
  <2>3. Pipe' = Pipe /\ canceled' = canceled
    BY <1>6 DEF StopAgent, AgentTo, Pipe, pipelineVars, senderVars
  <2> QED BY <2>2, <2>3, OrderKept
<1>7. CASE AgentStopped
  BY <1>7, OrderVolatile DEF AgentStopped
<1>8. CASE InputsStopped \/ ProcessorStopped \/ SenderStopped \/ AuditorStopped \/ GracePeriodEnds
  <2>1. UNCHANGED <<tailers, pipelineVars>> /\ (canceled => canceled')
    BY <1>8 DEF InputsStopped, ProcessorStopped, SenderStopped, AuditorStopped, GracePeriodEnds,
                AgentTo, tailerVars
  <2> QED BY <2>1, OrderKept DEF Pipe, pipelineVars, senderVars
<1> QED BY <1>1, <1>2, <1>3, <1>4, <1>5, <1>6, <1>7, <1>8, OrderScan, OrderTailer, OrderPipeline
        DEF LogsNext, LogsStopStep

\* The steps that commit nothing new.
LEMMA DoneKept ==
    ASSUME LogsTypes, Kept, DoneInv,
           sender' = "commit" => sender = "commit" /\ buffer' = buffer,
           auditorChan' \in {auditorChan, <<>>},
           registry' \in {registry, registryFile, NoEntry},
           registryFile' \in {registry, registryFile, Torn}
    PROVE  DoneInv'
<1>1. Grows(fate, fate') /\ buffer \in Seq(Good) /\ auditorChan \in Seq(Good)
  BY DEF Kept, LogsTypes, ChanTypes
<1>2. /\ \A k \in DOMAIN buffer : buffer[k].gen \in Generations /\ buffer[k].line \in Offsets
      /\ \A k \in DOMAIN auditorChan :
            auditorChan[k].gen \in Generations /\ auditorChan[k].offset \in Offsets
  <2>1. \A m \in Good : m.line \in Offsets
    BY GoodParts, LogsNumbers
  <2> QED BY <1>1, <2>1, GoodParts, GoodElements
<1>3. \A e \in Entries : e.gen \in Generations /\ e.offset \in Offsets
  BY DEF Entries
<1>4. \A g \in Generations, n \in Offsets : Done(fate, g, n) => Done(fate', g, n)
  BY <1>1, GrowsKeeps
<1>5. sender' = "commit" => \A k \in DOMAIN buffer' : Done(fate', buffer'[k].gen, buffer'[k].line)
  BY <1>2, <1>4 DEF DoneInv
<1>6. \A k \in DOMAIN auditorChan' :
         auditorChan'[k].tracked => Done(fate', auditorChan'[k].gen, auditorChan'[k].offset)
  <2>1. DOMAIN <<>> = {}
    OBVIOUS
  <2> QED BY <1>2, <1>4, <2>1 DEF DoneInv
<1>7. \A e \in {registry', registryFile'} : e \in Entries => Done(fate', e.gen, e.offset)
  BY <1>3, <1>4, NotEntries DEF DoneInv
<1> QED BY <1>5, <1>6, <1>7 DEF DoneInv

\* A payload is sent: what lies before its lines is dealt with, or sent with them.
LEMMA DoneSend ==
    ASSUME LogsTypes, Kept, OrderInv, DoneInv, Send
    PROVE  DoneInv'
<1>1. /\ ~canceled /\ UNCHANGED <<buffer, auditorChan, registry, registryFile>>
      /\ fate' = [g \in Generations |-> [l \in Lines |->
                    IF \E k \in DOMAIN buffer : buffer[k].gen = g /\ buffer[k].line = l
                    THEN "sent" ELSE fate[g][l]]]
  BY DEF Send, SenderTo, auditorVars
<1>2. /\ buffer \in Seq(Good) /\ auditorChan \in Seq(Good)
      /\ senderChan \o inputChan \in Seq(Good) /\ Grows(fate, fate')
  BY PipeType DEF LogsTypes, ChanTypes, Kept
<1>3. /\ \A k \in DOMAIN buffer : k \in DOMAIN Pipe /\ Pipe[k] = buffer[k]
      /\ \A k \in DOMAIN buffer : \A j \in DOMAIN Pipe : j < k => j \in DOMAIN buffer
  <2> DEFINE p == buffer
             q == senderChan \o inputChan
  <2>1. p \in Seq(Good) /\ q \in Seq(Good)
    BY <1>2
  <2> HIDE DEF p, q
  <2>2. /\ p \o q \in Seq(Good) /\ Len(p \o q) = Len(p) + Len(q)
        /\ \A j \in 1..Len(p) : (p \o q)[j] = p[j]
    BY ONLY <2>1, ConcatParts
  <2>3. /\ Len(p) \in Nat /\ DOMAIN p = 1..Len(p) /\ Len(q) \in Nat
        /\ DOMAIN (p \o q) = 1..(Len(p) + Len(q))
    BY <2>1, <2>2, LenProperties
  <2>4. /\ \A k \in DOMAIN p : k \in DOMAIN (p \o q) /\ (p \o q)[k] = p[k]
        /\ \A k \in DOMAIN p : \A j \in DOMAIN (p \o q) : j < k => j \in DOMAIN p
    BY <2>2, <2>3
  <2> QED BY <2>4 DEF p, q, Pipe
<1>4. ASSUME NEW k \in DOMAIN buffer
      PROVE  Done(fate', buffer[k].gen, buffer[k].line)
  <2> DEFINE m == buffer[k]
  <2>1. m \in Good
    BY <1>2, GoodElements
  <2>2. m.gen \in Generations /\ m.line \in Nat \ {0} /\ \A l \in 1..m.line : l \in Lines
    BY <2>1, GoodParts
  <2> HIDE DEF m
  <2>3. ASSUME NEW l \in 1..m.line
        PROVE  fate'[m.gen][l] # "none"
    <3>1. l \in Lines
      BY <2>2
    <3>2. CASE \E j \in DOMAIN buffer : buffer[j].gen = m.gen /\ buffer[j].line = l
      BY <1>1, <2>2, <3>1, <3>2
    <3>3. CASE l # m.line /\ fate[m.gen][l] # "none"
      BY <1>2, <2>2, <3>1, <3>3 DEF Grows
    <3>4. CASE l # m.line /\ fate[m.gen][l] = "none"
      <4>1. l \in 1..(m.line - 1)
        BY <2>2, <3>4
      <4>2. Pipe[k] = m /\ k \in DOMAIN Pipe
        BY <1>3 DEF m
      <4>3. PICK j \in DOMAIN Pipe : j < k /\ Pipe[j].gen = m.gen /\ Pipe[j].line = l
        BY <1>1, <3>4, <4>1, <4>2 DEF OrderInv, Ordered
      <4>4. j \in DOMAIN buffer /\ buffer[j] = Pipe[j]
        BY <1>3, <4>3
      <4> QED BY <3>2, <4>3, <4>4
    <3>5. CASE l = m.line
      BY <3>2, <3>5 DEF m
    <3> QED BY <3>3, <3>4, <3>5
  <2> QED BY <2>3 DEF Done, m
<1>5. \A g \in Generations, n \in Offsets : Done(fate, g, n) => Done(fate', g, n)
  BY <1>2, GrowsKeeps
<1>6. \A k \in DOMAIN auditorChan :
         auditorChan[k].gen \in Generations /\ auditorChan[k].offset \in Offsets
  BY <1>2, GoodParts, GoodElements
<1>7. \A e \in Entries : e.gen \in Generations /\ e.offset \in Offsets
  BY DEF Entries
<1>8. \A e \in {registry, registryFile} : e \in Entries => Done(fate', e.gen, e.offset)
  BY <1>5, <1>7 DEF DoneInv
<1>9. \A k \in DOMAIN auditorChan :
         auditorChan[k].tracked => Done(fate', auditorChan[k].gen, auditorChan[k].offset)
  BY <1>5, <1>6 DEF DoneInv
<1> QED BY <1>1, <1>4, <1>8, <1>9 DEF DoneInv

LEMMA DoneCommit ==
    ASSUME LogsTypes, DoneInv, Commit
    PROVE  DoneInv'
<1> DEFINE m == Head(buffer)
<1>1. /\ sender = "commit" /\ auditorChan' = Append(auditorChan, m) /\ buffer' = Tail(buffer)
      /\ UNCHANGED <<fate, registry, registryFile>>
  BY DEF Commit, SenderTo, auditorVars
<1>2. buffer \in Seq(Good) /\ auditorChan \in Seq(Good) /\ buffer # <<>>
  BY <1>1 DEF LogsTypes, ChanTypes
<1>3. /\ m = buffer[1] /\ 1 \in DOMAIN buffer /\ m \in Good
      /\ \A k \in DOMAIN Tail(buffer) : k + 1 \in DOMAIN buffer /\ Tail(buffer)[k] = buffer[k + 1]
  BY <1>2, HeadTail
<1>4. /\ \A k \in DOMAIN Append(auditorChan, m) :
            \/ k \in DOMAIN auditorChan /\ Append(auditorChan, m)[k] = auditorChan[k]
            \/ Append(auditorChan, m)[k] = m
  BY <1>2, <1>3, AppendProperties
<1> HIDE DEF m
<1>5. m.tracked => Done(fate, m.gen, m.offset)
  <2>1. Done(fate, m.gen, m.line)
    BY <1>1, <1>3 DEF DoneInv
  <2>2. m.line \in Nat /\ m.offset \in Nat /\ (m.tracked => m.offset <= m.line)
    BY <1>3, GoodParts
  <2> QED BY <2>1, <2>2 DEF Done
<1>6. \A k \in DOMAIN auditorChan' :
         auditorChan'[k].tracked => Done(fate', auditorChan'[k].gen, auditorChan'[k].offset)
  BY <1>1, <1>4, <1>5 DEF DoneInv
<1>7. \A k \in DOMAIN buffer' : Done(fate', buffer'[k].gen, buffer'[k].line)
  BY <1>1, <1>3 DEF DoneInv
<1>8. \A e \in {registry', registryFile'} : e \in Entries => Done(fate', e.gen, e.offset)
  BY <1>1 DEF DoneInv
<1> QED BY <1>6, <1>7, <1>8 DEF DoneInv

LEMMA DoneAudit ==
    ASSUME LogsTypes, DoneInv, Audit
    PROVE  DoneInv'
<1> DEFINE m == Head(auditorChan)
<1>1. /\ auditorChan # <<>> /\ auditorChan' = Tail(auditorChan)
      /\ registry' = IF m.tracked THEN [gen |-> m.gen, offset |-> m.offset] ELSE registry
      /\ UNCHANGED <<fate, buffer, sender, registryFile>>
  BY DEF Audit, AuditorStep, senderVars
<1>2. auditorChan \in Seq(Good)
  BY DEF LogsTypes, ChanTypes
<1>3. /\ m = auditorChan[1] /\ 1 \in DOMAIN auditorChan
      /\ \A k \in DOMAIN Tail(auditorChan) :
            k + 1 \in DOMAIN auditorChan /\ Tail(auditorChan)[k] = auditorChan[k + 1]
  BY <1>1, <1>2, HeadTail
<1> HIDE DEF m
<1>4. m.tracked => Done(fate, m.gen, m.offset)
  BY <1>3 DEF DoneInv
<1>5. registry' \in Entries => Done(fate', registry'.gen, registry'.offset)
  <2>1. CASE m.tracked
    <3>1. registry'.gen = m.gen /\ registry'.offset = m.offset
      BY <1>1, <2>1
    <3> QED BY <1>1, <1>4, <2>1, <3>1
  <2>2. CASE ~m.tracked
    BY <1>1, <2>2 DEF DoneInv
  <2> QED BY <2>1, <2>2
<1>6. \A k \in DOMAIN auditorChan' :
         auditorChan'[k].tracked => Done(fate', auditorChan'[k].gen, auditorChan'[k].offset)
  BY <1>1, <1>3 DEF DoneInv
<1>7. sender' = "commit" => \A k \in DOMAIN buffer' : Done(fate', buffer'[k].gen, buffer'[k].line)
  BY <1>1 DEF DoneInv
<1>8. registryFile' \in Entries => Done(fate', registryFile'.gen, registryFile'.offset)
  BY <1>1 DEF DoneInv
<1> QED BY <1>5, <1>6, <1>7, <1>8 DEF DoneInv

LEMMA DoneStep ==
    ASSUME LogsTypes, Kept, OrderInv, DoneInv, [LogsNext]_logsVars
    PROVE  DoneInv'
<1> DEFINE Untouched ==
             /\ sender' = "commit" => sender = "commit" /\ buffer' = buffer
             /\ auditorChan' \in {auditorChan, <<>>}
             /\ registry' \in {registry, registryFile, NoEntry}
             /\ registryFile' \in {registry, registryFile, Torn}
<1>0. Untouched => DoneInv'
  BY DoneKept
<1>1. CASE UNCHANGED logsVars
  BY <1>0, <1>1 DEF logsVars, pipelineVars, senderVars, auditorVars
<1>2. CASE Write \/ RemoveFile \/ Recreate \/ Scan
  BY <1>0, <1>2 DEF Write, RemoveFile, Recreate, Scan, ScanStarts, ScanRestarts, ScanFailsToRestart,
     ScanStops, pipelineVars, senderVars, auditorVars
<1>3. ASSUME NEW i \in TailerIds, Tailer(i)
      PROVE  Untouched
  <2>1. CASE ForwardPanics(i)
    BY <2>1 DEF ForwardPanics, Volatile
  <2>2. CASE ~ForwardPanics(i)
    <3>1. \E u : TailerTo(i, u)
      BY <1>3, <2>2 DEF Tailer, Read, Stop, CloseTimeout, ReaderEnds, FlushEnds, Decode, Forward, Abandon
    <3> QED BY <3>1 DEF TailerTo, senderVars, auditorVars
  <2> QED BY <2>1, <2>2
<1>4. CASE ProcessMessage \/ Receive \/ FlushTimer \/ SendCanceled \/ SenderReturns
  BY <1>0, <1>4 DEF ProcessMessage, Receive, FlushTimer, SendCanceled, SenderReturns, SenderTo,
     senderVars, auditorVars
<1>5. CASE Cleanup \/ FlushRegistry
  BY <1>0, <1>5 DEF Cleanup, FlushRegistry, AuditorStep, senderVars
<1>6. CASE Start
  BY <1>0, <1>6 DEF Start, Recovered, pipelineVars, senderVars
<1>7. CASE Crash
  BY <1>0, <1>7 DEF Crash, Volatile
<1>8. CASE StopAgent
  BY <1>0, <1>8 DEF StopAgent, AgentTo, pipelineVars, senderVars, auditorVars
<1>9. CASE LogsStopStep
  <2>1. CASE AgentStopped
    BY <1>0, <2>1 DEF AgentStopped, Volatile
  <2>2. CASE InputsStopped \/ ProcessorStopped \/ SenderStopped \/ AuditorStopped \/ GracePeriodEnds
    BY <1>0, <2>2 DEF InputsStopped, ProcessorStopped, SenderStopped, AuditorStopped, GracePeriodEnds,
       AgentTo, pipelineVars, senderVars, auditorVars
  <2> QED BY <1>9, <2>1, <2>2 DEF LogsStopStep
<1> HIDE DEF Untouched
<1> QED BY <1>0, <1>1, <1>2, <1>3, <1>4, <1>5, <1>6, <1>7, <1>8, <1>9, DoneSend, DoneCommit, DoneAudit
        DEF LogsNext, Pipeline, Auditor

\* CommittedIsHandled, for any number of lines, rotations, restarts and tailers: no line before
\* an offset of the registry, or of a message on its way to it, is one that has only been read.
\* The sender commits a batch only after it is sent, and the pipeline keeps the lines in order
\* as long as the context of the destinations is not cancelled.
THEOREM CommittedLinesAreHandled == LogsSpec => []CommittedIsHandled
<1> DEFINE Inv == LogsTypes /\ OrderInv /\ DoneInv
<1>1. LogsInit => Inv
  <2> SUFFICES ASSUME LogsInit
               PROVE  Inv
    OBVIOUS
  <2>1. LogsTypes
    BY TypesInit
  <2>2. <<>> \o <<>> = <<>> /\ DOMAIN <<>> = {}
    <3>1. <<>> \in Seq(Good)
      BY EmptySeq
    <3> QED BY <3>1, ConcatEmptySeq
  <2>3. Pipe = <<>>
    BY <2>2 DEF Pipe, LogsInit
  <2>4. \A i \in TailerIds : tailers[i].forwarded = 0
    BY DEF LogsInit, NoTailer
  <2>5. OrderInv
    BY <2>2, <2>3, <2>4 DEF OrderInv, Ordered, Behind
  <2>6. DoneInv
    BY <2>2, NotEntries DEF LogsInit, DoneInv
  <2> QED BY <2>1, <2>5, <2>6
<1>2. Inv /\ [LogsNext]_logsVars => Inv'
  <2> SUFFICES ASSUME Inv, [LogsNext]_logsVars
               PROVE  Inv'
    OBVIOUS
  <2>1. Kept
    BY TypesStep
  <2> QED BY <2>1, OrderStep, DoneStep DEF Kept
<1>3. Inv => CommittedIsHandled
  BY DEF DoneInv, Done, CommittedIsHandled
<1> QED BY <1>1, <1>2, <1>3, PTL DEF LogsSpec
-----------------------------------------------------------------------------
(* What is on its way from the tailers to the registry, in order. *)

Queue == auditorChan \o Pipe

\* A part of p is missing in q.
Shortened(p, q) == \E x, y, z \in Seq(Good) : p = x \o (y \o z) /\ q = x \o z

LEMMA QueueType ==
    ASSUME LogsTypes
    PROVE  Queue \in Seq(Good) /\ Pipe \in Seq(Good) /\ auditorChan \in Seq(Good)
<1>1. auditorChan \in Seq(Good) /\ Pipe \in Seq(Good)
  BY PipeType DEF LogsTypes, ChanTypes
<1> QED BY <1>1, ConcatProperties DEF Queue

LEMMA NotShortened ==
    ASSUME NEW p \in Seq(Good)
    PROVE  Shortened(p, p)
<1>1. <<>> \in Seq(Good) /\ p \o <<>> = p /\ <<>> \o <<>> = <<>>
  <2>1. <<>> \in Seq(Good)
    BY EmptySeq
  <2> QED BY <2>1, ConcatEmptySeq
<1> QED BY <1>1 DEF Shortened

LEMMA QueuePipeline ==
    ASSUME LogsTypes, Pipeline
    PROVE  Shortened(Queue, Queue')
<1>0. /\ buffer \in Seq(Good) /\ senderChan \o inputChan \in Seq(Good)
      /\ Queue \in Seq(Good) /\ Pipe \in Seq(Good) /\ auditorChan \in Seq(Good)
  BY PipeType, QueueType DEF LogsTypes, ChanTypes
<1>1. ASSUME Pipe' = Pipe, auditorChan' = auditorChan
      PROVE  Shortened(Queue, Queue')
  BY <1>0, <1>1, NotShortened DEF Queue
<1>2. CASE ProcessMessage
  <2>1. auditorChan' = auditorChan
    BY <1>2 DEF ProcessMessage
  <2>2. CASE Pipe' = Pipe
    BY <1>1, <2>1, <2>2
  <2>3. CASE Pipe' # Pipe
    <3>1. PICK x \in Seq(Good), m \in Good, z \in Seq(Good) : Pipe = x \o (<<m>> \o z) /\ Pipe' = x \o z
      BY <1>2, <2>3, PipeProcess
    <3> DEFINE y == <<m>>
               w == auditorChan \o x
    <3>2. y \in Seq(Good) /\ w \in Seq(Good)
      BY <1>0, ConcatProperties
    <3> HIDE DEF y
    <3>3. y \o z \in Seq(Good)
      BY <3>2, ConcatProperties
    <3>4. auditorChan \o (x \o z) = w \o z
      <4>1. auditorChan \in Seq(Good) /\ x \in Seq(Good) /\ z \in Seq(Good)
        BY <1>0
      <4> QED BY <4>1, GoodAssociative, Zenon
    <3> DEFINE v == y \o z
    <3>5. v \in Seq(Good)
      BY <3>3
    <3> HIDE DEF v
    <3>6. auditorChan \o (x \o v) = w \o v
      <4>1. auditorChan \in Seq(Good) /\ x \in Seq(Good) /\ v \in Seq(Good)
        BY <1>0, <3>5
      <4> QED BY <4>1, GoodAssociative, Zenon
    <3> HIDE DEF w
    <3>7. Queue = w \o (y \o z) /\ Queue' = w \o z
      BY <2>1, <3>1, <3>4, <3>6 DEF Queue, v, y
    <3> QED BY <3>2, <3>7 DEF Shortened
  <2> QED BY <2>2, <2>3
<1>3. CASE Receive
  BY <1>1, <1>3, PipeReceive DEF Receive
<1>4. CASE FlushTimer \/ Send \/ SenderReturns
  <2>1. UNCHANGED <<buffer, senderChan, inputChan, auditorChan>>
    BY <1>4 DEF FlushTimer, Send, SenderReturns, SenderTo
  <2>2. Pipe' = Pipe
    BY <2>1 DEF Pipe
  <2> QED BY <1>1, <2>1, <2>2
<1>5. CASE SendCanceled
  <2> DEFINE z == senderChan \o inputChan
  <2>1. buffer' = <<>> /\ UNCHANGED <<senderChan, inputChan, auditorChan>>
    BY <1>5 DEF SendCanceled, SenderTo
  <2>2. <<>> \o z = z
    BY <1>0, ConcatEmptySeq
  <2>3. Queue = auditorChan \o (buffer \o z) /\ Queue' = auditorChan \o z
    BY <2>1, <2>2 DEF Queue, Pipe
  <2>4. z \in Seq(Good)
    BY <1>0
  <2> HIDE DEF z
  <2> QED BY <1>0, <2>3, <2>4 DEF Shortened
<1>6. CASE Commit
  <2> DEFINE z == senderChan \o inputChan
  <2>1. buffer # <<>> /\ buffer' = Tail(buffer) /\ auditorChan' = Append(auditorChan, Head(buffer))
        /\ UNCHANGED <<senderChan, inputChan>>
    BY <1>6 DEF Commit, SenderTo, LogsTypes, ChanTypes
  <2>2. Append(auditorChan, Head(buffer)) \o (Tail(buffer) \o z) = auditorChan \o (buffer \o z)
    <3>1. auditorChan \in Seq(Good) /\ buffer \in Seq(Good) /\ z \in Seq(Good) /\ buffer # <<>>
      BY <1>0, <2>1
    <3> HIDE DEF z
    <3> QED BY ONLY <3>1, MoveHead
  <2>3. Queue' = Queue
    BY <2>1, <2>2 DEF Queue, Pipe
  <2> QED BY <1>0, <2>3, NotShortened
<1> QED BY <1>2, <1>3, <1>4, <1>5, <1>6 DEF Pipeline

LEMMA QueueForward ==
    ASSUME LogsTypes, NEW i \in TailerIds, Forward(i)
    PROVE  Queue' = Append(Queue, tailers[i].message)
<1> DEFINE m == tailers[i].message
<1>1. m # NoMessage /\ auditorChan' = auditorChan
  BY DEF Forward, TailerTo
<1>2. m \in Good /\ Pipe' = Append(Pipe, m)
  BY <1>1, MessageOf, PipeForward
<1> HIDE DEF m
<1>3. auditorChan \o Append(Pipe, m) = Append(auditorChan \o Pipe, m)
  BY <1>2, QueueType, AppendLast
<1> QED BY <1>1, <1>2, <1>3 DEF Queue, m

LEMMA QueueAudit ==
    ASSUME LogsTypes, Audit
    PROVE  /\ Queue = <<Head(auditorChan)>> \o Queue' /\ Queue' \in Seq(Good)
           /\ Head(auditorChan) \in Good
<1> DEFINE m == Head(auditorChan)
           z == Tail(auditorChan)
           y == <<m>>
<1>1. auditorChan # <<>> /\ auditorChan' = z /\ UNCHANGED <<buffer, senderChan, inputChan>>
  BY DEF Audit, AuditorStep, senderVars
<1>2. auditorChan = y \o z /\ m \in Good /\ z \in Seq(Good) /\ y \in Seq(Good)
  BY <1>1, QueueType, HeadFirst
<1>3. Pipe' = Pipe /\ Pipe \in Seq(Good)
  BY <1>1, QueueType DEF Pipe
<1> HIDE DEF y, z
<1>4. (y \o z) \o Pipe = y \o (z \o Pipe) /\ z \o Pipe \in Seq(Good)
  <2>1. (y \o z) \o Pipe = y \o (z \o Pipe)
    BY <1>2, <1>3, GoodAssociative, Zenon
  <2>2. z \o Pipe \in Seq(Good)
    BY <1>2, <1>3, ConcatProperties, Zenon
  <2> QED BY <2>1, <2>2
<1> QED BY <1>1, <1>2, <1>3, <1>4 DEF Queue, y

\* The other steps.
LEMMA QueueKept ==
    ASSUME LogsTypes, UNCHANGED <<inputChan, senderChan, buffer, auditorChan>>
    PROVE  Queue' = Queue
BY DEF Queue, Pipe

LEMMA QueueVolatile ==
    ASSUME inputChan = <<>>, senderChan = <<>>, buffer = <<>>, auditorChan = <<>>
    PROVE  Queue = <<>>
<1>1. <<>> \in Seq(Good)
  BY EmptySeq
<1> QED BY <1>1, ConcatEmptySeq DEF Queue, Pipe
\* Where the messages of a shortened queue were, and those behind the head.
LEMMA ShortenedIndex ==
    ASSUME NEW p, NEW q, Shortened(p, q)
    PROVE  \E f : /\ \A k \in DOMAIN q : f[k] \in DOMAIN p /\ q[k] = p[f[k]]
                  /\ \A j, k \in DOMAIN q : j < k => f[j] < f[k]
<1>1. PICK x, y, z \in Seq(Good) : p = x \o (y \o z) /\ q = x \o z
  BY DEF Shortened
<1> DEFINE a == x \o (y \o z)
           b == x \o z
           from(k) == CutIndex(x, y, k)
           f == [k \in DOMAIN q |-> from(k)]
<1>2. /\ a \in Seq(Good) /\ b \in Seq(Good)
      /\ \A k \in DOMAIN b : from(k) \in DOMAIN a /\ a[from(k)] = b[k]
      /\ \A j \in DOMAIN a : \/ \E i \in DOMAIN y : a[j] = y[i]
                             \/ \E k \in DOMAIN b : from(k) = j
      /\ \A j, k \in DOMAIN b : from(j) < from(k) <=> j < k
  BY ONLY x \in Seq(Good), y \in Seq(Good), z \in Seq(Good), CutOut
<1>3. /\ \A k \in DOMAIN q : from(k) \in DOMAIN p /\ p[from(k)] = q[k]
      /\ \A j, k \in DOMAIN q : from(j) < from(k) <=> j < k
  BY <1>1, <1>2
<1>4. /\ \A k \in DOMAIN q : f[k] \in DOMAIN p /\ q[k] = p[f[k]]
      /\ \A j, k \in DOMAIN q : j < k => f[j] < f[k]
  BY <1>3
<1> HIDE DEF f
<1> QED BY <1>4

LEMMA HeadedIndex ==
    ASSUME NEW m \in Good, NEW q \in Seq(Good), NEW p, p = <<m>> \o q
    PROVE  /\ 1 \in DOMAIN p /\ p[1] = m
           /\ \A k \in DOMAIN q : k \in Nat \ {0} /\ k + 1 \in DOMAIN p /\ p[k + 1] = q[k]
<1> DEFINE h == <<m>>
<1>1. h \in Seq(Good) /\ Len(h) = 1 /\ h[1] = m
  OBVIOUS
<1>2. Len(q) \in Nat /\ DOMAIN q = 1..Len(q)
  OBVIOUS
<1>3. p = h \o q
  OBVIOUS
<1> HIDE DEF h
<1>4. /\ h \o q \in Seq(Good) /\ Len(h \o q) = Len(h) + Len(q)
      /\ \A j \in 1..Len(h) : (h \o q)[j] = h[j]
      /\ \A k \in 1..Len(q) : (h \o q)[Len(h) + k] = q[k]
  <2>1. h \in Seq(Good) /\ q \in Seq(Good)
    BY <1>1
  <2> QED BY ONLY <2>1, ConcatParts
<1>5. /\ p \in Seq(Good) /\ Len(p) = 1 + Len(q) /\ p[1] = m
      /\ \A k \in 1..Len(q) : p[1 + k] = q[k]
  BY <1>1, <1>3, <1>4
<1>6. DOMAIN p = 1..(1 + Len(q))
  BY <1>5
<1> QED BY <1>2, <1>5, <1>6

-----------------------------------------------------------------------------
(* CleanStopCommits.  In a first life without a rotation, an expired entry or  *)
(* a cancelled context there is one tailer, and what it forwards is committed  *)
(* line by line: the offsets on their way rise, and each is the line's own.    *)

Active(t) == t.state \in {"reads", "flushes"}
Clean == Alive /\ ~canceled /\ ~expired /\ generation = 1 /\ starts = 1

CleanTailer(t, n) ==
    /\ t.gen = 1 /\ t.readOffset <= n
    /\ t.didFileRotate = FALSE /\ t.timer = FALSE /\ t.stopForward = FALSE
    /\ t.message = NoMessage => t.decodedOffset = t.forwarded
    /\ t.message # NoMessage => /\ t.decodedOffset = t.forwarded + 1 /\ t.message.tracked
                                /\ t.message.offset = t.message.line /\ Active(t)
CleanTailers ==
    /\ tailed \in {0, 1} /\ (tailed = 0 => ~present)
    /\ CleanTailer(tailers[1], size[1])
    /\ \A i \in TailerIds : i # 1 => tailers[i] = NoTailer

OwnOffset(m) == m.gen = 1 /\ m.tracked /\ m.offset = m.line
Rising(p, low) ==
    \A k \in DOMAIN p : /\ OwnOffset(p[k]) /\ low < p[k].line
                        /\ \A j \in DOMAIN p : j < k => p[j].line < p[k].line
UpTo(p, n) == \A k \in DOMAIN p : p[k].line <= n
CleanQueue ==
    /\ Rising(Queue, registry.offset)
    /\ Active(tailers[1]) => UpTo(Queue, tailers[1].forwarded) /\ registry.offset <= tailers[1].forwarded

\* What is sent is committed, or about to be.
CleanSent ==
    \A l \in Lines : fate[1][l] = "sent" =>
        \/ l <= registry.offset
        \/ \E k \in DOMAIN auditorChan : auditorChan[k].line = l
        \/ sender = "commit" /\ \E k \in DOMAIN buffer : buffer[k].line = l
CleanEnd ==
    /\ sender = "returned" => buffer = <<>>
    /\ agent \in {"stopAuditor", "flushed"} => sender = "returned"
    /\ agent = "flushed" => auditorChan = <<>> /\ registryFile.offset = registry.offset

CleanInv == Clean => CleanTailers /\ CleanQueue /\ CleanSent /\ CleanEnd
FreshInv ==
    starts = 0 => /\ agent = "down" /\ generation = 1 /\ tailed = 0
                  /\ tailers = [i \in TailerIds |-> NoTailer]
                  /\ inputChan = <<>> /\ senderChan = <<>> /\ buffer = <<>> /\ auditorChan = <<>>
                  /\ sender = "receive" /\ registry = NoEntry /\ registryFile = NoEntry
                  /\ \A l \in Lines : fate[1][l] # "sent"

LEMMA RisingAppend ==
    ASSUME NEW p \in Seq(Good), NEW low \in Nat, NEW n \in Nat, NEW m \in Good,
           Rising(p, low), UpTo(p, n), low <= n, OwnOffset(m), m.line = n + 1
    PROVE  Rising(Append(p, m), low) /\ UpTo(Append(p, m), n + 1)
<1> DEFINE a == Append(p, m)
<1>1. /\ Len(p) \in Nat /\ DOMAIN p = 1..Len(p) /\ DOMAIN a = 1..(Len(p) + 1)
      /\ \A k \in DOMAIN p : a[k] = p[k]
      /\ a[Len(p) + 1] = m
      /\ \A k \in DOMAIN a : k \in DOMAIN p \/ k = Len(p) + 1
      /\ \A j, k \in DOMAIN a : j < k => j \in DOMAIN p
  BY AppendProperties
<1> HIDE DEF a
<1>2. \A k \in DOMAIN p : p[k] \in Good /\ p[k].line \in Nat
  BY GoodElements, GoodParts
<1>3. \A k \in DOMAIN p : p[k].line <= n /\ p[k].line < n + 1
  BY <1>2 DEF UpTo
<1>4. UpTo(a, n + 1)
  BY <1>1, <1>2, <1>3 DEF UpTo
<1>5. ASSUME NEW k \in DOMAIN a
      PROVE  /\ OwnOffset(a[k]) /\ low < a[k].line
             /\ \A j \in DOMAIN a : j < k => a[j].line < a[k].line
  <2>1. CASE k \in DOMAIN p
    BY <1>1, <2>1 DEF Rising
  <2>2. CASE k = Len(p) + 1
    BY <1>1, <1>3, <2>2
  <2> QED BY <1>1, <2>1, <2>2
<1>6. Rising(a, low)
  BY <1>5 DEF Rising
<1> QED BY <1>4, <1>6 DEF a

LEMMA RisingShortened ==
    ASSUME NEW p, NEW q, Shortened(p, q), NEW low, NEW n
    PROVE  (Rising(p, low) => Rising(q, low)) /\ (UpTo(p, n) => UpTo(q, n))
<1>1. PICK f : /\ \A k \in DOMAIN q : f[k] \in DOMAIN p /\ q[k] = p[f[k]]
               /\ \A j, k \in DOMAIN q : j < k => f[j] < f[k]
  BY ShortenedIndex
<1> QED BY <1>1 DEF Rising, UpTo

LEMMA RisingHead ==
    ASSUME NEW m \in Good, NEW q \in Seq(Good), NEW p, p = <<m>> \o q, NEW low, Rising(p, low), NEW n
    PROVE  /\ OwnOffset(m) /\ low < m.line /\ Rising(q, m.line)
           /\ UpTo(p, n) => m.line <= n /\ UpTo(q, n)
<1>1. /\ 1 \in DOMAIN p /\ p[1] = m
      /\ \A k \in DOMAIN q : k \in Nat \ {0} /\ k + 1 \in DOMAIN p /\ p[k + 1] = q[k]
  BY HeadedIndex
<1>2. \A j, k \in DOMAIN q : j < k => j + 1 < k + 1
  BY <1>1
<1>3. \A k \in DOMAIN q : 1 < k + 1
  BY <1>1
<1>4. Rising(q, m.line)
  BY <1>1, <1>2, <1>3 DEF Rising
<1> QED BY <1>1, <1>4 DEF Rising, UpTo
LEMMA LogsValues ==
    ASSUME LogsTypes
    PROVE  /\ registry.offset \in Nat /\ registryFile.offset \in Nat /\ size[1] \in Nat
           /\ registry.gen \in Nat /\ registryFile.gen \in Nat /\ generation \in Nat \ {0}
           /\ \A i \in TailerIds : /\ tailers[i].readOffset \in Nat /\ tailers[i].forwarded \in Nat
                                   /\ tailers[i].decodedOffset \in Nat /\ tailers[i].gen \in Nat
                                   /\ InStep(tailers[i])
<1>1. \A e \in Entries : e.offset \in Nat /\ e.gen \in Nat
  BY LogsNumbers DEF Entries
<1>2. Torn.gen = 0 /\ Torn.offset = 1
  BY DEF Torn
<1>3. \A t \in TailerSet : t.readOffset \in Nat /\ t.forwarded \in Nat /\ t.decodedOffset \in Nat /\ t.gen \in Nat
  BY LogsNumbers DEF TailerSet
<1>4. \A i \in TailerIds : InStep(tailers[i]) /\ tailers[i] \in TailerSet
  BY DEF LogsTypes, TailerTypes, InStep
<1>5. registry.offset \in Nat /\ registryFile.offset \in Nat /\ registry.gen \in Nat /\ registryFile.gen \in Nat
  BY <1>1, <1>2, NotEntries DEF LogsTypes, RegistryTypes
<1>6. size[1] \in Nat /\ generation \in Nat \ {0}
  BY LogsNumbers DEF LogsTypes, FileTypes
<1> QED BY <1>3, <1>4, <1>5, <1>6

\* Nothing of the agent runs when it is down.
LEMMA DownSteps ==
    ASSUME ~Alive, [LogsNext]_logsVars
    PROVE  Write \/ RemoveFile \/ Recreate \/ Start \/ UNCHANGED logsVars
<1>1. agent \in {"down", "stopped"}
  BY DEF Alive
<1>2. ~Scan
  BY <1>1 DEF Scan, ScanStarts, ScanRestarts, ScanFailsToRestart, ScanStops
<1>3. \A i \in TailerIds : ~Tailer(i)
  BY <1>1 DEF Tailer, Read, Stop, CloseTimeout, ReaderEnds, FlushEnds, Decode, Forward, Abandon,
     ForwardPanics, TailerTo, StopPhases, Alive
<1>4. ~Pipeline /\ ~Auditor
  BY <1>1 DEF Pipeline, ProcessMessage, Receive, FlushTimer, Send, SendCanceled, Commit, SenderReturns,
     SenderTo, Auditor, Audit, Cleanup, FlushRegistry, AuditorStep, Alive
<1>5. ~Crash /\ ~StopAgent /\ ~LogsStopStep
  BY <1>1 DEF Crash, StopAgent, LogsStopStep, InputsStopped, ProcessorStopped, SenderStopped,
     AuditorStopped, AgentStopped, GracePeriodEnds, StopPhases, Alive
<1> QED BY <1>2, <1>3, <1>4, <1>5 DEF LogsNext

LEMMA FreshStep ==
    ASSUME LogsTypes, FreshInv, [LogsNext]_logsVars
    PROVE  FreshInv'
<1> SUFFICES ASSUME starts' = 0
             PROVE  FreshInv'
  BY DEF FreshInv
<1>1. starts = 0
  <2>1. starts' = starts \/ starts' = starts + 1
    <3>1. CASE Scan \/ Pipeline \/ Auditor
      BY <3>1 DEF Scan, ScanStarts, ScanRestarts, ScanFailsToRestart, ScanStops, Pipeline,
         ProcessMessage, Receive, FlushTimer, Send, SendCanceled, Commit, SenderReturns, SenderTo,
         Auditor, Audit, Cleanup, FlushRegistry, AuditorStep
    <3>2. CASE \E i \in TailerIds : Tailer(i)
      BY <3>2 DEF Tailer, Read, Stop, CloseTimeout, ReaderEnds, FlushEnds, Decode, Forward, Abandon,
         ForwardPanics, TailerTo
    <3>3. CASE Write \/ RemoveFile \/ Recreate \/ Start \/ Crash \/ StopAgent \/ UNCHANGED logsVars
      BY <3>3 DEF Write, RemoveFile, Recreate, Start, Crash, StopAgent, AgentTo, logsVars
    <3>4. CASE LogsStopStep
      BY <3>4 DEF LogsStopStep, InputsStopped, ProcessorStopped, SenderStopped, AuditorStopped,
         AgentStopped, GracePeriodEnds, AgentTo
    <3> QED BY <3>1, <3>2, <3>3, <3>4 DEF LogsNext
  <2>2. starts \in Nat
    BY DEF LogsTypes, FileTypes
  <2> QED BY <2>1, <2>2
<1>2. ~Alive
  BY <1>1 DEF FreshInv, Alive
<1>3. ~Start
  BY <1>1 DEF Start
<1>4. ~Recreate
  BY <1>1 DEF Recreate
<1>5. Write \/ RemoveFile \/ UNCHANGED logsVars
  BY <1>2, <1>3, <1>4, DownSteps
<1>6. UNCHANGED <<agent, generation, tailerVars, pipelineVars, auditorVars, fate>>
  BY <1>5 DEF Write, RemoveFile, logsVars, fileVars
<1> QED BY <1>1, <1>6 DEF FreshInv, tailerVars, pipelineVars, senderVars, auditorVars

\* A clean life begins with the first start.
LEMMA CleanStart ==
    ASSUME LogsTypes, FreshInv, Start, Clean'
    PROVE  CleanTailers' /\ CleanQueue' /\ CleanSent' /\ CleanEnd'
<1>1. starts = 0
  BY DEF Start, Clean, LogsTypes, FileTypes
<1>2. /\ generation = 1 /\ tailed = 0 /\ tailers = [i \in TailerIds |-> NoTailer]
      /\ inputChan = <<>> /\ senderChan = <<>> /\ buffer = <<>> /\ auditorChan = <<>>
      /\ sender = "receive" /\ registry = NoEntry /\ registryFile = NoEntry
      /\ \A l \in Lines : fate[1][l] # "sent"
  BY <1>1 DEF FreshInv
<1>3. /\ registry' = NoEntry /\ agent' = "up" /\ registryFile' = NoEntry
      /\ UNCHANGED <<generation, present, size, inputChan, senderChan, buffer, auditorChan, sender>>
  BY <1>2, NotEntries DEF Start, Recovered, fileVars, pipelineVars, senderVars
<1>4. Queue' = <<>> /\ DOMAIN Queue' = {}
  BY <1>2, <1>3, QueueVolatile DEF Queue, Pipe
<1> DEFINE p == Position(NoEntry, tailingMode)
<1>5. p \in Offsets /\ p <= size[1] /\ p \in Nat
  <2>1. size[1] \in Nat /\ size[1] \in Offsets /\ 0 \in Offsets
    BY LogsNumbers DEF LogsTypes, FileTypes
  <2> QED BY <1>2, <2>1, NotEntries DEF Position
<1>6. CASE present
  <2>1. tailers' = [tailers EXCEPT ![1] = TailerAt(p)] /\ tailed' = 1 /\ fate' = Skipping(p)
    BY <1>2, <1>6, NotEntries DEF Start, Recovered
  <2> HIDE DEF p
  <2>2. /\ TailerAt(p).forwarded = p /\ TailerAt(p).readOffset = p /\ TailerAt(p).decodedOffset = p
        /\ TailerAt(p).gen = generation /\ TailerAt(p).message = NoMessage
        /\ TailerAt(p).didFileRotate = FALSE /\ TailerAt(p).timer = FALSE
        /\ TailerAt(p).stopForward = FALSE
    BY <1>5, NewTailer DEF LogsTypes
  <2>3. tailers'[1] = TailerAt(p) /\ \A i \in TailerIds : i # 1 => tailers'[i] = NoTailer
    BY <1>2, <2>1, LogsNumbers
  <2>4. CleanTailer(tailers'[1], size'[1])
    BY <1>2, <1>3, <1>5, <2>2, <2>3 DEF CleanTailer
  <2>5. CleanTailers'
    BY <2>1, <2>3, <2>4 DEF CleanTailers
  <2>6. CleanQueue'
    BY <1>3, <1>4, <1>5, <2>2, <2>3, NotEntries DEF CleanQueue, Rising, UpTo
  <2>7. NoneSent(fate, fate')
    BY <1>5, <2>1, SkippingFacts DEF LogsTypes
  <2>8. CleanSent'
    BY <1>2, <2>7, LogsNumbers DEF CleanSent, NoneSent
  <2> QED BY <1>2, <1>3, <2>5, <2>6, <2>8 DEF CleanEnd
<1>7. CASE ~present
  <2>1. UNCHANGED <<tailers, tailed, fate>>
    BY <1>7 DEF Start, tailerVars
  <2>2. /\ NoTailer.gen = 1 /\ NoTailer.readOffset = 0 /\ NoTailer.forwarded = 0
        /\ NoTailer.decodedOffset = 0 /\ NoTailer.message = NoMessage /\ NoTailer.state = "none"
        /\ NoTailer.didFileRotate = FALSE /\ NoTailer.timer = FALSE /\ NoTailer.stopForward = FALSE
    BY DEF NoTailer
  <2>3. tailers'[1] = NoTailer /\ \A i \in TailerIds : i # 1 => tailers'[i] = NoTailer
    BY <1>2, <2>1, LogsNumbers
  <2>4. CleanTailer(tailers'[1], size'[1])
    BY <1>3, <2>2, <2>3, LogsValues DEF CleanTailer
  <2>5. CleanTailers'
    BY <1>2, <1>3, <1>7, <2>1, <2>3, <2>4 DEF CleanTailers
  <2>6. CleanQueue'
    BY <1>4, <2>2, <2>3 DEF CleanQueue, Rising, Active
  <2>7. CleanSent'
    BY <1>2, <2>1 DEF CleanSent
  <2> QED BY <1>2, <1>3, <2>5, <2>6, <2>7 DEF CleanEnd
<1> QED BY <1>6, <1>7

LEMMA CleanBefore ==
    ASSUME LogsTypes, [LogsNext]_logsVars, Clean', ~Start
    PROVE  Clean
<1>1. CASE ~Alive
  BY <1>1, DownSteps DEF Clean, Alive, Write, RemoveFile, Recreate, logsVars
<1>2. CASE Alive
  <2>1. ~canceled' /\ ~expired' /\ generation' = 1 /\ starts' = 1 /\ agent' \notin {"down", "stopped"}
    BY DEF Clean, Alive
  <2>2. generation = 1 /\ starts = 1 /\ ~canceled /\ ~expired
    <3>1. CASE Scan \/ Pipeline \/ Auditor
      BY <2>1, <3>1 DEF Scan, ScanStarts, ScanRestarts, ScanFailsToRestart, ScanStops, Pipeline,
         ProcessMessage, Receive, FlushTimer, Send, SendCanceled, Commit, SenderReturns, SenderTo,
         Auditor, Audit, Cleanup, FlushRegistry, AuditorStep, fileVars
    <3>2. CASE \E i \in TailerIds : Tailer(i)
      BY <2>1, <3>2 DEF Tailer, Read, Stop, CloseTimeout, ReaderEnds, FlushEnds, Decode, Forward, Abandon,
         ForwardPanics, TailerTo, fileVars
    <3>3. CASE Write \/ RemoveFile \/ Crash \/ StopAgent \/ UNCHANGED logsVars
      BY <2>1, <3>3 DEF Write, RemoveFile, Crash, StopAgent, AgentTo, logsVars, fileVars
    <3>4. CASE LogsStopStep
      BY <2>1, <3>4 DEF LogsStopStep, InputsStopped, ProcessorStopped, SenderStopped, AuditorStopped,
         AgentStopped, GracePeriodEnds, AgentTo, fileVars
    <3>5. ~Recreate
      BY <2>1, LogsValues DEF Recreate
    <3> QED BY <3>1, <3>2, <3>3, <3>4, <3>5 DEF LogsNext
  <2> QED BY <1>2, <2>2 DEF Clean
<1> QED BY <1>1, <1>2
LEMMA CleanSentKept ==
    ASSUME CleanSent, NoneSent(fate, fate'), registry' = registry, auditorChan' = auditorChan,
           sender = "commit" => sender' = "commit" /\ buffer' = buffer
    PROVE  CleanSent'
BY LogsNumbers DEF CleanSent, NoneSent

LEMMA CleanQueueKept ==
    ASSUME CleanQueue, Queue' = Queue, registry' = registry,
           Active(tailers'[1]) => Active(tailers[1]) /\ tailers'[1].forwarded = tailers[1].forwarded
    PROVE  CleanQueue'
BY DEF CleanQueue

LEMMA CleanSignals ==
    ASSUME NEW t, InStep(t), NEW n, CleanTailer(t, n), NEW u \in {Stopped(t), AskedToStop(t)}
    PROVE  CleanTailer(u, n) /\ u.state = t.state /\ u.forwarded = t.forwarded
<1>1. t \in TailerSet
  BY DEF InStep
<1>2. /\ u.gen = t.gen /\ u.readOffset = t.readOffset /\ u.forwarded = t.forwarded
      /\ u.decodedOffset = t.decodedOffset /\ u.message = t.message /\ u.state = t.state
      /\ u.timer = t.timer /\ u.stopForward = t.stopForward
      /\ u.didFileRotate \in {t.didFileRotate, FALSE}
  BY <1>1 DEF Stopped, AskedToStop, TailerSet
<1> QED BY <1>2 DEF CleanTailer, Active

LEMMA CleanFile ==
    ASSUME LogsTypes, CleanTailers, CleanQueue, CleanSent, CleanEnd,
           Write \/ RemoveFile \/ UNCHANGED logsVars
    PROVE  CleanTailers' /\ CleanQueue' /\ CleanSent' /\ CleanEnd'
<1>1. UNCHANGED <<agent, tailers, tailed, inputChan, senderChan, buffer, sender, auditorChan,
                  registry, registryFile, fate>>
  BY DEF Write, RemoveFile, logsVars, tailerVars, pipelineVars, senderVars, auditorVars
<1>2. size[1] <= size'[1] /\ size'[1] \in Nat /\ (~present => ~present')
  <2>1. CASE Write
    <3>1. size' \in [Generations -> Offsets] /\ size[1] <= size'[1]
      BY <2>1, WriteSize
    <3> QED BY <2>1, <3>1, LogsNumbers DEF Write
  <2>2. CASE RemoveFile \/ UNCHANGED logsVars
    BY <2>2, LogsValues DEF RemoveFile, logsVars, fileVars
  <2> QED BY <2>1, <2>2
<1>3. tailers[1].readOffset <= size[1] => tailers[1].readOffset <= size'[1]
  BY <1>2, LogsValues, LogsNumbers
<1>4. CleanTailer(tailers[1], size'[1])
  BY <1>3 DEF CleanTailers, CleanTailer
<1>5. CleanTailers'
  BY <1>1, <1>2, <1>4 DEF CleanTailers
<1>6. Queue' = Queue
  BY <1>1, QueueKept
<1>7. CleanQueue' /\ CleanSent' /\ CleanEnd'
  BY <1>1, <1>6 DEF CleanQueue, CleanSent, CleanEnd
<1> QED BY <1>5, <1>7

\* The scanner can only stop the tailer, and so does the stop of the agent.
LEMMA CleanScan ==
    ASSUME LogsTypes, Clean, CleanTailers, CleanQueue, CleanSent, CleanEnd, Scan \/ StopAgent
    PROVE  CleanTailers' /\ CleanQueue' /\ CleanSent' /\ CleanEnd'
<1>0. generation = 1 /\ tailed \in {0, 1} /\ (tailed = 0 => ~present) /\ 1 \in TailerIds
      /\ CleanTailer(tailers[1], size[1]) /\ InStep(tailers[1])
      /\ (\A i \in TailerIds : i # 1 => tailers[i] = NoTailer)
      /\ tailers = [i \in TailerIds |-> tailers[i]]
  BY LogsNumbers, LogsValues DEF Clean, CleanTailers, LogsTypes, TailerTypes
<1>1. ~DidRotate(tailers[1])
  BY <1>0, LogsValues DEF DidRotate, CleanTailer
<1>2. ~ScanStarts /\ ~ScanRestarts /\ ~ScanFailsToRestart
  BY <1>0, <1>1 DEF ScanStarts, ScanRestarts, ScanFailsToRestart
<1>3. /\ UNCHANGED <<present, size, inputChan, senderChan, buffer, sender, auditorChan,
                     registry, registryFile, fate>>
      /\ agent' = agent \/ agent' = "stopInputs"
      /\ tailed' = tailed \/ (tailed' = 0 /\ ~present)
  <2>1. CASE ScanStops
    BY <2>1 DEF ScanStops, fileVars, pipelineVars, senderVars, auditorVars
  <2>2. CASE StopAgent
    <3>1. agent' = "stopInputs" /\ tailed' = tailed
      BY <2>2 DEF StopAgent, AgentTo
    <3>2. UNCHANGED <<fileVars, pipelineVars, auditorVars, fate>>
      BY <2>2 DEF StopAgent, AgentTo
    <3> QED BY <3>1, <3>2 DEF fileVars, pipelineVars, senderVars, auditorVars
  <2> QED BY <1>2, <2>1, <2>2 DEF Scan
<1>4. tailers'[1] \in {tailers[1], Stopped(tailers[1]), AskedToStop(tailers[1])}
      /\ \A i \in TailerIds : i # 1 => tailers'[i] = NoTailer
  <2>1. CASE ScanStops
    <3>1. tailers' = [tailers EXCEPT ![1] = AskedToStop(tailers[1])]
      BY <1>0, <2>1 DEF ScanStops
    <3> QED BY <1>0, <3>1
  <2>2. CASE StopAgent
    <3>1. \A i \in TailerIds : tailers'[i] = IF i = tailed THEN Stopped(tailers[i]) ELSE tailers[i]
      BY <2>2 DEF StopAgent
    <3>2. \A i \in TailerIds : i # 1 => i # tailed
      BY <1>0, LogsNumbers
    <3> QED BY <1>0, <3>1, <3>2
  <2> QED BY <1>2, <2>1, <2>2 DEF Scan
<1>5. CleanTailer(tailers'[1], size[1]) /\ tailers'[1].state = tailers[1].state
      /\ tailers'[1].forwarded = tailers[1].forwarded
  BY <1>0, <1>4, CleanSignals
<1>6. CleanTailers'
  BY <1>0, <1>3, <1>4, <1>5 DEF CleanTailers
<1>7. CleanQueue'
  BY <1>3, <1>5, QueueKept, CleanQueueKept DEF Active
<1>8. CleanSent' /\ CleanEnd'
  BY <1>3 DEF CleanSent, CleanEnd
<1> QED BY <1>6, <1>7, <1>8

LEMMA CleanTailerStep ==
    ASSUME LogsTypes, Kept, Clean', CleanTailers, CleanQueue, CleanSent, CleanEnd,
           NEW i \in TailerIds, Tailer(i)
    PROVE  CleanTailers' /\ CleanQueue' /\ CleanSent' /\ CleanEnd'
<1> DEFINE t == tailers[1]
           n == size[1]
<1>0. /\ CleanTailer(t, n) /\ InStep(t) /\ t \in TailerSet /\ 1 \in TailerIds
      /\ tailers = [j \in TailerIds |-> tailers[j]]
      /\ t.readOffset \in Nat /\ t.forwarded \in Nat /\ t.decodedOffset \in Nat /\ n \in Nat
  BY LogsNumbers, LogsValues DEF CleanTailers, LogsTypes, TailerTypes, InStep
<1>1. i = 1
  <2>1. /\ NoTailer.message = NoMessage /\ NoTailer.state = "none" /\ NoTailer.asked = FALSE
        /\ NoTailer.timer = FALSE
    BY DEF NoTailer
  <2> QED BY <2>1 DEF CleanTailers, Tailer, Read, Stop, CloseTimeout, ReaderEnds, FlushEnds, Decode,
           Forward, Abandon, ForwardPanics
<1>2. ~CloseTimeout(i) /\ ~Abandon(i)
  BY <1>0, <1>1 DEF CleanTailer, CloseTimeout, Abandon
<1>3. ~ForwardPanics(i)
  BY DEF Clean, Alive, ForwardPanics
<1>4. ASSUME NEW u, TailerTo(1, u)
      PROVE  /\ tailers'[1] = u /\ (\A j \in TailerIds : j # 1 => tailers'[j] = tailers[j])
             /\ UNCHANGED <<present, size, tailed, senderChan, buffer, sender, auditorChan,
                            registry, registryFile>>
  BY <1>0, <1>4 DEF TailerTo, fileVars, senderVars, auditorVars
<1>5. fate' = fate /\ agent' = agent
  BY <1>2, <1>3 DEF Tailer, Read, Stop, ReaderEnds, FlushEnds, Decode, Forward
<1>6. ASSUME NEW u, TailerTo(1, u), CleanTailer(u, n)
      PROVE  CleanTailers' /\ CleanSent' /\ CleanEnd'
  <2>1. CleanTailers'
    BY <1>4, <1>6 DEF CleanTailers
  <2> QED BY <1>4, <1>5, <1>6, <2>1 DEF CleanSent, CleanEnd
<1>7. ASSUME NEW u, TailerTo(1, u), CleanTailer(u, n), inputChan' = inputChan,
             Active(u) => Active(t) /\ u.forwarded = t.forwarded
      PROVE  CleanTailers' /\ CleanQueue' /\ CleanSent' /\ CleanEnd'
  <2>1. Queue' = Queue
    BY <1>4, <1>7, QueueKept
  <2>2. CleanQueue'
    BY <1>4, <1>7, <2>1, CleanQueueKept
  <2> QED BY <1>6, <1>7, <2>2
<1> HIDE DEF n
<1>8. CASE Read(i)
  <2>1. PICK o \in (t.readOffset + 1)..size[t.gen] : TailerTo(1, [t EXCEPT !.readOffset = o])
    BY <1>1, <1>8 DEF Read
  <2> DEFINE u == [t EXCEPT !.readOffset = o]
  <2>2. size[t.gen] = n /\ inputChan' = inputChan
    BY <1>0, <1>8 DEF CleanTailer, n, Read
  <2>3. o \in Nat /\ o <= n
    BY <1>0, <2>1, <2>2
  <2>4. /\ u.gen = t.gen /\ u.readOffset = o /\ u.forwarded = t.forwarded
        /\ u.decodedOffset = t.decodedOffset /\ u.message = t.message /\ u.state = t.state
        /\ u.timer = t.timer /\ u.stopForward = t.stopForward /\ u.didFileRotate = t.didFileRotate
    BY <1>0 DEF TailerSet
  <2>5. TailerTo(1, u)
    BY <2>1
  <2> HIDE DEF u
  <2>6. CleanTailer(u, n) /\ (Active(u) => Active(t) /\ u.forwarded = t.forwarded)
    BY <1>0, <2>3, <2>4 DEF CleanTailer, Active
  <2> QED BY <1>7, <2>2, <2>5, <2>6
<1>9. CASE Stop(i)
  <2> DEFINE u == Stopped(t)
  <2>1. TailerTo(1, u) /\ inputChan' = inputChan
    BY <1>1, <1>9 DEF Stop
  <2>2. CleanTailer(u, n) /\ (Active(u) => Active(t) /\ u.forwarded = t.forwarded)
    BY <1>0, CleanSignals DEF Active
  <2> HIDE DEF u
  <2> QED BY <1>7, <2>1, <2>2
<1>10. CASE ReaderEnds(i)
  <2> DEFINE u == [t EXCEPT !.state = "flushes"]
  <2>1. TailerTo(1, u) /\ inputChan' = inputChan /\ t.state = "reads"
    BY <1>1, <1>10 DEF ReaderEnds
  <2>2. /\ u.gen = t.gen /\ u.readOffset = t.readOffset /\ u.forwarded = t.forwarded
        /\ u.decodedOffset = t.decodedOffset /\ u.message = t.message /\ u.state = "flushes"
        /\ u.timer = t.timer /\ u.stopForward = t.stopForward /\ u.didFileRotate = t.didFileRotate
    BY <1>0 DEF TailerSet
  <2> HIDE DEF u
  <2>3. CleanTailer(u, n) /\ (Active(u) => Active(t) /\ u.forwarded = t.forwarded)
    BY <1>0, <2>1, <2>2 DEF CleanTailer, Active
  <2> QED BY <1>7, <2>1, <2>3
<1>11. CASE FlushEnds(i)
  <2> DEFINE u == [NoTailer EXCEPT !.state = "done"]
  <2>1. TailerTo(1, u) /\ inputChan' = inputChan
    BY <1>1, <1>11 DEF FlushEnds
  <2>2. /\ u.gen = 1 /\ u.readOffset = 0 /\ u.forwarded = 0
        /\ u.decodedOffset = 0 /\ u.message = NoMessage /\ u.state = "done"
        /\ u.timer = FALSE /\ u.stopForward = FALSE /\ u.didFileRotate = FALSE
    BY DEF NoTailer
  <2> HIDE DEF u
  <2>3. CleanTailer(u, n) /\ ~Active(u)
    BY <1>0, <2>2 DEF CleanTailer, Active
  <2> QED BY <1>7, <2>1, <2>3
<1>12. CASE Decode(i)
  <2>1. PICK u : TailerTo(1, u) /\ InStep(u) /\ DecodedAs(t, u)
    BY <1>1, <1>12, Decoded
  <2>2. inputChan' = inputChan /\ t.message = NoMessage /\ t.state \in {"reads", "flushes"}
    BY <1>1, <1>12 DEF Decode
  <2>3. /\ u.gen = t.gen /\ u.forwarded = t.forwarded /\ u.readOffset = t.readOffset
        /\ u.state = t.state /\ u.didFileRotate = t.didFileRotate /\ u.timer = t.timer
        /\ u.stopForward = t.stopForward
        /\ u.message # NoMessage /\ u.message.tracked = ~t.didFileRotate
        /\ ~t.didFileRotate => /\ u.decodedOffset = t.decodedOffset + 1
                               /\ u.message.offset = u.decodedOffset
    BY <2>1 DEF DecodedAs
  <2>4. t.didFileRotate = FALSE /\ t.decodedOffset = t.forwarded
    BY <1>0, <2>2 DEF CleanTailer
  <2>5. u.message.line = t.forwarded + 1
    BY <2>1, <2>3 DEF InStep
  <2>6. CleanTailer(u, n) /\ (Active(u) => Active(t) /\ u.forwarded = t.forwarded)
    BY <1>0, <2>2, <2>3, <2>4, <2>5 DEF CleanTailer, Active
  <2> QED BY <1>7, <2>1, <2>2, <2>6
<1>13. CASE Forward(i)
  <2> DEFINE m == t.message
             u == Forwarded(t)
  <2>1. m # NoMessage /\ TailerTo(1, u)
    BY <1>1, <1>13 DEF Forward
  <2>2. m \in Good /\ m.gen = t.gen /\ m.line = t.forwarded + 1
    BY <1>0, <2>1, MessageOf
  <2>3. t.gen = 1 /\ m.tracked /\ m.offset = m.line /\ Active(t) /\ t.decodedOffset = t.forwarded + 1
    BY <1>0, <2>1 DEF CleanTailer
  <2>4. /\ u.gen = t.gen /\ u.readOffset = t.readOffset /\ u.forwarded = t.forwarded + 1
        /\ u.decodedOffset = t.decodedOffset /\ u.message = NoMessage /\ u.state = t.state
        /\ u.timer = t.timer /\ u.stopForward = t.stopForward /\ u.didFileRotate = t.didFileRotate
    BY <1>0 DEF TailerSet, Forwarded
  <2>5. Queue' = Append(Queue, m)
    BY <1>1, <1>13, QueueForward
  <2> HIDE DEF m, u
  <2>6. CleanTailer(u, n)
    BY <1>0, <2>3, <2>4 DEF CleanTailer
  <2>7. Rising(Queue, registry.offset) /\ UpTo(Queue, t.forwarded) /\ registry.offset <= t.forwarded
    BY <2>3 DEF CleanQueue
  <2>8. registry.offset \in Nat /\ Queue \in Seq(Good)
    BY LogsValues, QueueType
  <2>9. OwnOffset(m)
    BY <2>2, <2>3 DEF OwnOffset
  <2>10. Rising(Append(Queue, m), registry.offset) /\ UpTo(Append(Queue, m), t.forwarded + 1)
    BY <1>0, <2>2, <2>7, <2>8, <2>9, RisingAppend
  <2>11. registry.offset <= t.forwarded + 1
    BY <1>0, <2>7, <2>8
  <2>12. tailers'[1] = u /\ registry' = registry
    BY <1>4, <2>1
  <2>13. CleanQueue'
    BY <2>4, <2>5, <2>10, <2>11, <2>12 DEF CleanQueue
  <2> QED BY <1>6, <2>1, <2>6, <2>13
<1> QED BY <1>2, <1>3, <1>8, <1>9, <1>10, <1>11, <1>12, <1>13 DEF Tailer
LEMMA CleanPipeline ==
    ASSUME LogsTypes, Kept, Clean, CleanTailers, CleanQueue, CleanSent, CleanEnd, Pipeline
    PROVE  CleanTailers' /\ CleanQueue' /\ CleanSent' /\ CleanEnd'
<1>0. ~canceled /\ 1 \in Generations /\ buffer \in Seq(Good) /\ auditorChan \in Seq(Good)
  BY LogsNumbers DEF Clean, LogsTypes, ChanTypes
<1>1. UNCHANGED <<present, size, agent, tailers, tailed, registry, registryFile>>
  BY DEF Pipeline, ProcessMessage, Receive, FlushTimer, Send, SendCanceled, Commit, SenderReturns,
         SenderTo, fileVars, tailerVars, auditorVars
<1>2. CleanTailers'
  BY <1>1 DEF CleanTailers
<1>3. CleanQueue'
  <2>1. Shortened(Queue, Queue')
    BY QueuePipeline
  <2> DEFINE q == Queue'
  <2> HIDE DEF q
  <2>2. Shortened(Queue, q)
    BY <2>1 DEF q
  <2>3. \A low, n : (Rising(Queue, low) => Rising(q, low)) /\ (UpTo(Queue, n) => UpTo(q, n))
    BY <2>2, RisingShortened
  <2> QED BY <1>1, <2>3 DEF CleanQueue, q
<1>4. CASE ProcessMessage
  <2>1. UNCHANGED <<buffer, sender, auditorChan>>
    BY <1>4 DEF ProcessMessage, senderVars
  <2>2. NoneSent(fate, fate')
    <3>1. CASE fate' = fate
      BY <3>1 DEF NoneSent
    <3>2. CASE fate' # fate
      <4> DEFINE m == Head(inputChan)
      <4>1. inputChan # <<>> /\ fate' = [fate EXCEPT ![m.gen][m.line] = "excluded"]
        BY <1>4, <3>2 DEF ProcessMessage
      <4>2. m \in Good
        BY <4>1, GoodSeqs DEF LogsTypes, ChanTypes
      <4>3. m.gen \in Generations /\ m.line \in Lines /\ "excluded" \in Fates \ {"none", "sent"}
        BY <4>2, GoodParts DEF Fates
      <4> HIDE DEF m
      <4> QED BY <4>1, <4>3, FateUpdate DEF LogsTypes
    <3> QED BY <3>1, <3>2
  <2>3. CleanSent'
    BY <1>1, <2>1, <2>2, CleanSentKept
  <2> QED BY <1>1, <1>2, <1>3, <2>1, <2>3 DEF CleanEnd
<1>5. CASE Receive \/ FlushTimer \/ SenderReturns
  <2>1. /\ sender = "receive" /\ auditorChan' = auditorChan /\ fate' = fate
        /\ sender' \in {"receive", "send"} \/ (sender' = "returned" /\ buffer' = <<>>)
    BY <1>5 DEF Receive, FlushTimer, SenderReturns, SenderTo
  <2>2. NoneSent(fate, fate')
    BY <2>1 DEF NoneSent
  <2>3. CleanSent'
    BY <1>1, <2>1, <2>2, CleanSentKept
  <2> QED BY <1>1, <1>2, <1>3, <2>1, <2>3 DEF CleanEnd
<1>6. CASE Send
  <2>1. /\ sender = "send" /\ sender' = "commit" /\ UNCHANGED <<buffer, auditorChan>>
        /\ fate' = [g \in Generations |-> [l \in Lines |->
                      IF \E k \in DOMAIN buffer : buffer[k].gen = g /\ buffer[k].line = l
                      THEN "sent" ELSE fate[g][l]]]
    BY <1>6 DEF Send, SenderTo
  <2>2. ASSUME NEW l \in Lines, fate'[1][l] = "sent"
        PROVE  \/ l <= registry.offset
               \/ \E k \in DOMAIN auditorChan : auditorChan[k].line = l
               \/ \E k \in DOMAIN buffer : buffer[k].line = l
    <3>1. fate[1][l] = "sent" \/ \E k \in DOMAIN buffer : buffer[k].line = l
      BY <1>0, <2>1, <2>2
    <3> QED BY <3>1 DEF CleanSent
  <2>3. CleanSent'
    BY <1>1, <2>1, <2>2 DEF CleanSent
  <2> QED BY <1>1, <1>2, <1>3, <2>1, <2>3 DEF CleanEnd
<1>7. CASE Commit
  <2> DEFINE m == Head(buffer)
  <2>1. /\ sender = "commit" /\ auditorChan' = Append(auditorChan, m) /\ buffer' = Tail(buffer)
        /\ fate' = fate /\ sender' = IF Len(buffer) = 1 THEN "receive" ELSE "commit"
    BY <1>7 DEF Commit, SenderTo
  <2>2. buffer # <<>>
    BY <2>1 DEF LogsTypes, ChanTypes
  <2>3. buffer = <<m>> \o Tail(buffer) /\ m \in Good /\ Tail(buffer) \in Seq(Good)
    BY <1>0, <2>2, HeadFirst
  <2>4. /\ \A k \in DOMAIN buffer : buffer[k] = m \/ \E j \in DOMAIN Tail(buffer) : Tail(buffer)[j] = buffer[k]
        /\ Len(buffer) = 1 => DOMAIN Tail(buffer) = {}
    <3>1. Len(buffer) \in Nat \ {0} /\ DOMAIN buffer = 1..Len(buffer)
      BY <1>0, <2>2, EmptySeq
    <3>2. m = buffer[1] /\ DOMAIN Tail(buffer) = 1..(Len(buffer) - 1)
          /\ \A k \in 1..(Len(buffer) - 1) : Tail(buffer)[k] = buffer[k + 1]
      BY <1>0, <2>2, <3>1
    <3>3. ASSUME NEW k \in DOMAIN buffer, k # 1
          PROVE  \E j \in DOMAIN Tail(buffer) : Tail(buffer)[j] = buffer[k]
      <4>1. k - 1 \in 1..(Len(buffer) - 1) /\ (k - 1) + 1 = k
        BY <3>1, <3>3
      <4> QED BY <3>2, <4>1
    <3>4. Len(buffer) = 1 => DOMAIN Tail(buffer) = {}
      BY <3>2
    <3> QED BY <3>2, <3>3, <3>4
  <2>5. /\ \A k \in DOMAIN auditorChan : k \in DOMAIN Append(auditorChan, m)
                                         /\ Append(auditorChan, m)[k] = auditorChan[k]
        /\ \E k \in DOMAIN Append(auditorChan, m) : Append(auditorChan, m)[k] = m
    <3>1. Len(auditorChan) \in Nat /\ DOMAIN auditorChan = 1..Len(auditorChan)
          /\ DOMAIN Append(auditorChan, m) = 1..(Len(auditorChan) + 1)
          /\ Append(auditorChan, m)[Len(auditorChan) + 1] = m
          /\ \A k \in 1..Len(auditorChan) : Append(auditorChan, m)[k] = auditorChan[k]
      BY <1>0, <2>3, AppendProperties
    <3> QED BY <3>1
  <2> HIDE DEF m
  <2>6. ASSUME NEW l \in Lines, fate[1][l] = "sent"
        PROVE  \/ l <= registry.offset
               \/ \E k \in DOMAIN auditorChan' : auditorChan'[k].line = l
               \/ sender' = "commit" /\ \E k \in DOMAIN buffer' : buffer'[k].line = l
    <3>1. CASE l <= registry.offset \/ \E k \in DOMAIN auditorChan : auditorChan[k].line = l
      BY <2>1, <2>5, <3>1
    <3>2. CASE \E k \in DOMAIN buffer : buffer[k].line = l
      BY <2>1, <2>4, <2>5, <3>2
    <3> QED BY <2>6, <3>1, <3>2 DEF CleanSent
  <2>7. CleanSent'
    BY <1>1, <2>1, <2>6 DEF CleanSent
  <2> QED BY <1>1, <1>2, <1>3, <2>1, <2>7 DEF CleanEnd
<1>8. ~SendCanceled
  BY <1>0 DEF SendCanceled
<1> QED BY <1>4, <1>5, <1>6, <1>7, <1>8 DEF Pipeline

LEMMA CleanAuditor ==
    ASSUME LogsTypes, Clean', CleanTailers, CleanQueue, CleanSent, CleanEnd, Auditor
    PROVE  CleanTailers' /\ CleanQueue' /\ CleanSent' /\ CleanEnd'
<1>1. UNCHANGED <<present, size, agent, tailers, tailed, inputChan, senderChan, buffer, sender, fate>>
  BY DEF Auditor, Audit, Cleanup, FlushRegistry, AuditorStep, fileVars, tailerVars, senderVars
<1>2. CleanTailers'
  BY <1>1 DEF CleanTailers
<1>3. ~Cleanup
  BY DEF Cleanup, Clean
<1>4. CASE FlushRegistry
  <2>1. registryFile' = registry /\ UNCHANGED <<registry, auditorChan>>
    BY <1>4 DEF FlushRegistry
  <2>2. Queue' = Queue
    BY <1>1, <2>1, QueueKept
  <2>3. CleanQueue' /\ CleanSent' /\ CleanEnd'
    BY <1>1, <2>1, <2>2 DEF CleanQueue, CleanSent, CleanEnd
  <2> QED BY <1>2, <2>3
<1>5. CASE Audit
  <2> DEFINE m == Head(auditorChan)
             q == Queue'
  <2>1. /\ auditorChan # <<>> /\ auditorChan' = Tail(auditorChan) /\ registryFile' = registryFile
        /\ registry' = IF m.tracked THEN [gen |-> m.gen, offset |-> m.offset] ELSE registry
    BY <1>5 DEF Audit
  <2>2. Queue = <<m>> \o q /\ q \in Seq(Good) /\ m \in Good
    BY <1>5, QueueAudit
  <2>3. auditorChan \in Seq(Good) /\ registry.offset \in Nat /\ m.line \in Nat
    BY <2>2, QueueType, LogsValues, GoodParts
  <2>4. \A k \in DOMAIN auditorChan :
           auditorChan[k] = m \/ \E j \in DOMAIN Tail(auditorChan) : Tail(auditorChan)[j] = auditorChan[k]
    <3>1. Len(auditorChan) \in Nat \ {0} /\ DOMAIN auditorChan = 1..Len(auditorChan)
      BY <2>1, <2>3, EmptySeq
    <3>2. m = auditorChan[1] /\ DOMAIN Tail(auditorChan) = 1..(Len(auditorChan) - 1)
          /\ \A k \in 1..(Len(auditorChan) - 1) : Tail(auditorChan)[k] = auditorChan[k + 1]
      BY <2>1, <2>3, <3>1
    <3>3. ASSUME NEW k \in DOMAIN auditorChan, k # 1
          PROVE  \E j \in DOMAIN Tail(auditorChan) : Tail(auditorChan)[j] = auditorChan[k]
      <4>1. k - 1 \in 1..(Len(auditorChan) - 1) /\ (k - 1) + 1 = k
        BY <3>1, <3>3
      <4> QED BY <3>2, <4>1
    <3> QED BY <3>2, <3>3
  <2> HIDE DEF m, q
  <2>5. Rising(Queue, registry.offset)
    BY DEF CleanQueue
  <2>6. /\ OwnOffset(m) /\ registry.offset < m.line /\ Rising(q, m.line)
        /\ \A n : UpTo(Queue, n) => m.line <= n /\ UpTo(q, n)
    BY <2>2, <2>5, RisingHead
  <2>7. registry'.offset = m.line
    BY <2>1, <2>6 DEF OwnOffset
  <2>8. CleanQueue'
    BY <1>1, <2>6, <2>7 DEF CleanQueue, q
  <2>9. ASSUME NEW l \in Lines, fate[1][l] = "sent"
        PROVE  \/ l <= m.line
               \/ \E k \in DOMAIN Tail(auditorChan) : Tail(auditorChan)[k].line = l
               \/ sender = "commit" /\ \E k \in DOMAIN buffer : buffer[k].line = l
    <3>1. CASE l <= registry.offset
      BY <2>3, <2>6, <3>1, LogsNumbers
    <3>2. CASE \E k \in DOMAIN auditorChan : auditorChan[k].line = l
      <4>1. CASE m.line = l
        BY <2>3, <4>1
      <4>2. CASE m.line # l
        BY <2>4, <3>2, <4>2
      <4> QED BY <4>1, <4>2
    <3> QED BY <2>9, <3>1, <3>2 DEF CleanSent
  <2>10. CleanSent'
    BY <1>1, <2>1, <2>7, <2>9 DEF CleanSent
  <2>11. CleanEnd'
    BY <1>1, <2>1 DEF CleanEnd
  <2> QED BY <1>2, <2>8, <2>10, <2>11
<1> QED BY <1>3, <1>4, <1>5 DEF Auditor

LEMMA CleanStops ==
    ASSUME LogsTypes, Clean', CleanTailers, CleanQueue, CleanSent, CleanEnd, LogsStopStep
    PROVE  CleanTailers' /\ CleanQueue' /\ CleanSent' /\ CleanEnd'
<1>1. ~AgentStopped /\ ~GracePeriodEnds
  BY DEF AgentStopped, GracePeriodEnds, Clean, Alive
<1>2. /\ UNCHANGED <<present, size, tailers, tailed, inputChan, senderChan, buffer, sender, auditorChan,
                     registry, fate>>
      /\ agent' = "stopAuditor" => sender = "returned"
      /\ agent' = "flushed" => agent = "stopAuditor" /\ auditorChan = <<>> /\ registryFile' = registry
  BY <1>1 DEF LogsStopStep, InputsStopped, ProcessorStopped, SenderStopped, AuditorStopped, AgentTo,
     fileVars, pipelineVars, senderVars, auditorVars
<1>3. Queue' = Queue
  BY <1>2, QueueKept
<1>4. CleanTailers' /\ CleanQueue' /\ CleanSent'
  BY <1>2, <1>3 DEF CleanTailers, CleanQueue, CleanSent
<1>5. CleanEnd'
  BY <1>2 DEF CleanEnd
<1> QED BY <1>4, <1>5

LEMMA CleanStep ==
    ASSUME LogsTypes, Kept, FreshInv, CleanInv, [LogsNext]_logsVars
    PROVE  CleanInv'
<1> SUFFICES ASSUME Clean'
             PROVE  CleanTailers' /\ CleanQueue' /\ CleanSent' /\ CleanEnd'
  BY DEF CleanInv
<1>1. CASE Start
  BY <1>1, CleanStart
<1>2. CASE ~Start
  <2>1. Clean
    BY <1>2, CleanBefore
  <2>2. CleanTailers /\ CleanQueue /\ CleanSent /\ CleanEnd
    BY <2>1 DEF CleanInv
  <2>3. ~Crash
    BY DEF Crash, Clean, Alive
  <2>4. ~Recreate
    BY <2>1, LogsValues DEF Recreate, Clean
  <2> QED BY <1>2, <2>1, <2>2, <2>3, <2>4, CleanFile, CleanScan, CleanTailerStep, CleanPipeline,
             CleanAuditor, CleanStops DEF LogsNext
<1> QED BY <1>1, <1>2

\* CleanStopCommits, for any number of lines and any capacities: when the agent stops within the
\* grace period, the registry file holds the offset of every line that was sent.
THEOREM SentIsCommittedAtStop == LogsSpec => []CleanStopCommits
<1> DEFINE Inv == LogsTypes /\ FreshInv /\ CleanInv
<1>1. LogsInit => Inv
  <2>1. LogsInit => LogsTypes
    BY TypesInit
  <2>2. LogsInit => FreshInv
    BY LogsNumbers DEF LogsInit, FreshInv
  <2>3. LogsInit => CleanInv
    BY DEF LogsInit, CleanInv, Clean
  <2> QED BY <2>1, <2>2, <2>3
<1>2. Inv /\ [LogsNext]_logsVars => Inv'
  <2> SUFFICES ASSUME Inv, [LogsNext]_logsVars
               PROVE  Inv'
    OBVIOUS
  <2>1. Kept
    BY TypesStep
  <2> QED BY <2>1, FreshStep, CleanStep DEF Kept
<1>3. Inv => CleanStopCommits
  <2> SUFFICES ASSUME Inv, agent = "flushed", ~canceled, ~expired, generation = 1, starts = 1,
                      NEW l \in Lines, fate[1][l] = "sent"
               PROVE  l <= registryFile.offset
    BY DEF CleanStopCommits
  <2>1. CleanSent /\ CleanEnd
    BY DEF CleanInv, Clean, Alive
  <2>2. auditorChan = <<>> /\ registryFile.offset = registry.offset /\ sender = "returned"
    BY <2>1 DEF CleanEnd
  <2>3. DOMAIN auditorChan = {}
    BY <2>2
  <2> QED BY <2>1, <2>2, <2>3 DEF CleanSent
<1> QED BY <1>1, <1>2, <1>3, PTL DEF LogsSpec
-----------------------------------------------------------------------------
(* RegistryFollowsRotation.  As long as no tailer of an old file can send      *)
(* tracked messages, the tracked messages on their way are in the order of     *)
(* the generations, between the entry of the registry and the tailer of the    *)
(* path.                                                                       *)

Sound(t, g) == t.gen <= g /\ (t.message # NoMessage => Active(t))
SoundInv == \A i \in TailerIds : Sound(tailers[i], generation)

GensUpTo(p, g) == \A k \in DOMAIN p : p[k].gen <= g
EntryInv == GensUpTo(Queue, generation) /\ registry.gen <= generation /\ registryFile.gen <= generation
DownInv ==
    ~Alive => /\ tailers = [i \in TailerIds |-> NoTailer] /\ tailed = 0
              /\ Queue = <<>> /\ registry = NoEntry

\* A tailer of a file that has been rotated away.
Old(t) == (Active(t) => t.didFileRotate) /\ (t.message # NoMessage => ~t.message.tracked)

TrackedFrom(p, g) ==
    \A k \in DOMAIN p : p[k].tracked =>
        g <= p[k].gen /\ \A j \in DOMAIN p : j < k /\ p[j].tracked => p[j].gen <= p[k].gen
TrackedUpTo(p, g) == \A k \in DOMAIN p : p[k].tracked => p[k].gen <= g

RotateTailers == \A i \in TailerIds : ~tailers[i].asked /\ (i # tailed => Old(tailers[i]))
RotateQueue ==
    /\ TrackedFrom(Queue, registry.gen)
    /\ tailed # 0 /\ Active(tailers[tailed]) =>
          registry.gen <= tailers[tailed].gen /\ TrackedUpTo(Queue, tailers[tailed].gen)
RotateInv == ~stray => RotateTailers /\ RotateQueue

\* What most steps of a tailer leave alone.
Goes(t, u) ==
    /\ u.gen = t.gen /\ u.message = t.message /\ (Active(u) <=> Active(t))
    /\ u.asked => t.asked
    /\ t.asked \/ u.didFileRotate = t.didFileRotate

LEMMA TailerGoes ==
    ASSUME LogsTypes, NEW i \in TailerIds, Read(i) \/ Stop(i) \/ CloseTimeout(i) \/ ReaderEnds(i)
    PROVE  \E u : TailerTo(i, u) /\ Goes(tailers[i], u)
<1> DEFINE t == tailers[i]
<1>0. t \in TailerSet
  BY DEF LogsTypes, TailerTypes, InStep
<1>1. CASE Read(i)
  <2>1. PICK o : TailerTo(i, [t EXCEPT !.readOffset = o])
    BY <1>1 DEF Read
  <2> DEFINE u == [t EXCEPT !.readOffset = o]
  <2>2. Goes(t, u)
    BY <1>0 DEF Goes, Active, TailerSet
  <2> QED BY <2>1, <2>2
<1>2. CASE Stop(i)
  <2>1. TailerTo(i, Stopped(t)) /\ t.asked
    BY <1>2 DEF Stop
  <2>2. Goes(t, Stopped(t))
    BY <1>0, <2>1 DEF Goes, Active, TailerSet, Stopped
  <2> QED BY <2>1, <2>2
<1>3. CASE CloseTimeout(i)
  <2> DEFINE u == [t EXCEPT !.timer = FALSE, !.stopForward = TRUE, !.stop = TRUE]
  <2>1. TailerTo(i, u)
    BY <1>3 DEF CloseTimeout
  <2>2. Goes(t, u)
    BY <1>0 DEF Goes, Active, TailerSet
  <2> QED BY <2>1, <2>2
<1>4. CASE ReaderEnds(i)
  <2> DEFINE u == [t EXCEPT !.state = "flushes"]
  <2>1. TailerTo(i, u) /\ t.state = "reads"
    BY <1>4 DEF ReaderEnds
  <2>2. Goes(t, u)
    BY <1>0, <2>1 DEF Goes, Active, TailerSet
  <2> QED BY <2>1, <2>2
<1> QED BY <1>1, <1>2, <1>3, <1>4

LEMMA SignalsGo ==
    ASSUME NEW t, InStep(t)
    PROVE  /\ Stopped(t).gen = t.gen /\ Stopped(t).message = t.message
           /\ (Active(Stopped(t)) <=> Active(t)) /\ Stopped(t).asked = FALSE
           /\ AfterRotation(t).gen = t.gen /\ AfterRotation(t).message = t.message
           /\ (Active(AfterRotation(t)) <=> Active(t)) /\ AfterRotation(t).asked = t.asked
           /\ AfterRotation(t).didFileRotate = TRUE
           /\ AskedToStop(t).gen = t.gen /\ AskedToStop(t).message = t.message
           /\ (Active(AskedToStop(t)) <=> Active(t))
           /\ AskedToStop(AfterRotation(t)).gen = t.gen
           /\ AskedToStop(AfterRotation(t)).message = t.message
           /\ (Active(AskedToStop(AfterRotation(t))) <=> Active(t))
<1>1. t \in TailerSet /\ AfterRotation(t) \in TailerSet
  BY Signals DEF InStep
<1>2. /\ Stopped(t).gen = t.gen /\ Stopped(t).message = t.message
      /\ Stopped(t).state = t.state /\ Stopped(t).asked = FALSE
  BY <1>1 DEF TailerSet, Stopped
<1>3. /\ AfterRotation(t).gen = t.gen /\ AfterRotation(t).message = t.message
      /\ AfterRotation(t).state = t.state /\ AfterRotation(t).asked = t.asked
      /\ AfterRotation(t).didFileRotate = TRUE
  BY <1>1 DEF TailerSet, AfterRotation
<1>4. \A u \in TailerSet : /\ AskedToStop(u).gen = u.gen /\ AskedToStop(u).message = u.message
                           /\ AskedToStop(u).state = u.state
  BY DEF TailerSet, AskedToStop
<1> QED BY <1>1, <1>2, <1>3, <1>4 DEF Active

LEMMA NoTailerGoes ==
    ASSUME NEW u \in {NoTailer, [NoTailer EXCEPT !.state = "done"]}
    PROVE  u.gen = 1 /\ u.message = NoMessage /\ ~Active(u) /\ u.asked = FALSE
BY DEF NoTailer, Active

\* Forwarded leaves no message.
LEMMA ForwardedGoes ==
    ASSUME NEW t, InStep(t)
    PROVE  /\ Forwarded(t).gen = t.gen /\ Forwarded(t).message = NoMessage
           /\ (Active(Forwarded(t)) <=> Active(t)) /\ Forwarded(t).asked = t.asked
           /\ Forwarded(t).didFileRotate = t.didFileRotate
<1>1. t \in TailerSet
  BY DEF InStep
<1> QED BY <1>1 DEF TailerSet, Forwarded, Active

LEMMA SoundStep ==
    ASSUME LogsTypes, SoundInv, [LogsNext]_logsVars
    PROVE  SoundInv'
<1>0. /\ tailers = [i \in TailerIds |-> tailers[i]] /\ generation \in Nat \ {0}
      /\ \A i \in TailerIds : InStep(tailers[i]) /\ tailers[i].gen \in Nat /\ Sound(tailers[i], generation)
      /\ (tailed # 0 => tailed \in TailerIds)
  BY LogsValues DEF LogsTypes, TailerTypes, SoundInv
<1>1. Sound(NoTailer, generation) /\ Sound([NoTailer EXCEPT !.state = "done"], generation)
  BY <1>0, NoTailerGoes DEF Sound
<1>2. ASSUME generation' = generation, tailers' = [i \in TailerIds |-> tailers'[i]],
             \A i \in TailerIds : tailers'[i] = tailers[i] \/ Sound(tailers'[i], generation)
      PROVE  SoundInv'
  BY <1>0, <1>2 DEF SoundInv
<1>3. ASSUME NEW o \in Offsets
      PROVE  Sound(TailerAt(o), generation)
  <2>1. TailerAt(o).gen = generation /\ TailerAt(o).message = NoMessage
    BY <1>3, NewTailer DEF LogsTypes
  <2> QED BY <1>0, <2>1 DEF Sound
<1>4. \A i \in TailerIds :
         /\ Sound(Stopped(tailers[i]), generation) /\ Sound(AfterRotation(tailers[i]), generation)
         /\ Sound(AskedToStop(tailers[i]), generation)
         /\ Sound(AskedToStop(AfterRotation(tailers[i])), generation)
         /\ Sound(Forwarded(tailers[i]), generation)
  <2> SUFFICES ASSUME NEW t, InStep(t), Sound(t, generation)
               PROVE  /\ Sound(Stopped(t), generation) /\ Sound(AfterRotation(t), generation)
                      /\ Sound(AskedToStop(t), generation)
                      /\ Sound(AskedToStop(AfterRotation(t)), generation)
                      /\ Sound(Forwarded(t), generation)
    BY <1>0
  <2>1. Sound(Stopped(t), generation) /\ Sound(AfterRotation(t), generation)
    BY SignalsGo DEF Sound
  <2>2. Sound(AskedToStop(t), generation) /\ Sound(AskedToStop(AfterRotation(t)), generation)
    BY SignalsGo DEF Sound
  <2>3. Sound(Forwarded(t), generation)
    BY ForwardedGoes DEF Sound
  <2> QED BY <2>1, <2>2, <2>3
<1>5. CASE Volatile /\ generation' = generation
  BY <1>1, <1>5 DEF Volatile, SoundInv
<1>6. CASE UNCHANGED tailers /\ (generation' = generation \/ generation' = generation + 1)
  <2>1. \A g \in Nat : g <= generation => g <= generation'
    BY <1>0, <1>6
  <2> QED BY <1>0, <1>6, <2>1 DEF SoundInv, Sound
<1>7. CASE Write \/ RemoveFile \/ Recreate \/ UNCHANGED logsVars
  BY <1>6, <1>7 DEF Write, RemoveFile, Recreate, logsVars, fileVars, tailerVars
<1>8. CASE Scan
  <2>0. generation' = generation
    BY <1>8 DEF Scan, ScanStarts, ScanRestarts, ScanFailsToRestart, ScanStops, fileVars
  <2>1. CASE ScanStarts
    <3>1. PICK i \in TailerIds : tailers' = [tailers EXCEPT ![i] = TailerAt(Position(registry, "beginning"))]
      BY <2>1 DEF ScanStarts, FreeTailer
    <3>2. Position(registry, "beginning") \in Offsets
      BY PositionType DEF LogsTypes, RegistryTypes
    <3>3. Sound(TailerAt(Position(registry, "beginning")), generation)
      BY <1>3, <3>2
    <3> QED BY <1>0, <1>2, <2>0, <3>1, <3>3
  <2>2. CASE ScanRestarts
    <3>1. PICK i \in TailerIds :
            tailers' = [tailers EXCEPT ![tailed] = AfterRotation(tailers[tailed]), ![i] = TailerAt(0)]
      BY <2>2 DEF ScanRestarts, FreeTailer
    <3>2. Sound(TailerAt(0), generation)
      BY <1>3, LogsNumbers
    <3>3. tailed # 0
      BY <2>2 DEF ScanRestarts
    <3> QED BY <1>0, <1>2, <1>4, <2>0, <3>1, <3>2, <3>3
  <2>3. CASE ScanFailsToRestart
    <3>1. tailers' = [tailers EXCEPT ![tailed] = AskedToStop(AfterRotation(tailers[tailed]))] /\ tailed # 0
      BY <2>3 DEF ScanFailsToRestart
    <3> QED BY <1>0, <1>2, <1>4, <2>0, <3>1
  <2>4. CASE ScanStops
    <3>1. tailers' = [tailers EXCEPT ![tailed] = AskedToStop(tailers[tailed])] /\ tailed # 0
      BY <2>4 DEF ScanStops
    <3> QED BY <1>0, <1>2, <1>4, <2>0, <3>1
  <2> QED BY <1>8, <2>1, <2>2, <2>3, <2>4 DEF Scan
<1>9. ASSUME NEW i \in TailerIds, Tailer(i)
      PROVE  SoundInv'
  <2>1. ASSUME NEW u, TailerTo(i, u), Sound(u, generation)
        PROVE  SoundInv'
    <3>1. tailers' = [tailers EXCEPT ![i] = u] /\ generation' = generation
      BY <2>1 DEF TailerTo, fileVars
    <3> QED BY <1>0, <1>2, <2>1, <3>1
  <2>2. CASE Read(i) \/ Stop(i) \/ CloseTimeout(i) \/ ReaderEnds(i)
    <3>1. PICK u : TailerTo(i, u) /\ Goes(tailers[i], u)
      BY <2>2, TailerGoes
    <3>2. Sound(u, generation)
      BY <1>0, <3>1 DEF Goes, Sound
    <3> QED BY <2>1, <3>1, <3>2
  <2>3. CASE FlushEnds(i)
    BY <1>1, <2>1, <2>3 DEF FlushEnds
  <2>4. CASE Decode(i)
    <3>1. PICK u : TailerTo(i, u) /\ DecodedAs(tailers[i], u)
      BY <2>4, Decoded
    <3>2. Active(tailers[i])
      BY <2>4 DEF Decode, Active
    <3>3. Sound(u, generation)
      BY <1>0, <3>1, <3>2 DEF DecodedAs, Sound, Active
    <3> QED BY <2>1, <3>1, <3>3
  <2>5. CASE Forward(i) \/ Abandon(i)
    <3>1. TailerTo(i, Forwarded(tailers[i]))
      BY <2>5 DEF Forward, Abandon
    <3> QED BY <1>4, <2>1, <3>1
  <2>6. CASE ForwardPanics(i)
    BY <1>5, <2>6 DEF ForwardPanics, fileVars
  <2> QED BY <1>9, <2>2, <2>3, <2>4, <2>5, <2>6 DEF Tailer
<1>10. CASE Pipeline \/ Auditor
  BY <1>6, <1>10 DEF Pipeline, ProcessMessage, Receive, FlushTimer, Send, SendCanceled, Commit,
     SenderReturns, SenderTo, Auditor, Audit, Cleanup, FlushRegistry, AuditorStep, fileVars, tailerVars
<1>11. CASE Start
  <2>0. generation' = generation
    BY <1>11 DEF Start, fileVars
  <2>1. CASE present
    <3>1. tailers' = [tailers EXCEPT ![1] = TailerAt(Position(Recovered, tailingMode))]
      BY <1>11, <2>1 DEF Start
    <3>2. Position(Recovered, tailingMode) \in Offsets
      BY RecoveredType, PositionType DEF LogsTypes
    <3>3. Sound(TailerAt(Position(Recovered, tailingMode)), generation)
      BY <1>3, <3>2
    <3> QED BY <1>0, <1>2, <2>0, <3>1, <3>3
  <2>2. CASE ~present
    BY <1>6, <1>11, <2>0, <2>2 DEF Start, tailerVars
  <2> QED BY <2>1, <2>2
<1>12. CASE Crash \/ AgentStopped
  BY <1>5, <1>12 DEF Crash, AgentStopped, fileVars
<1>13. CASE StopAgent
  <2>1. generation' = generation
        /\ tailers' = [i \in TailerIds |-> IF i = tailed THEN Stopped(tailers[i]) ELSE tailers[i]]
    BY <1>13 DEF StopAgent, AgentTo, fileVars
  <2> QED BY <1>0, <1>2, <1>4, <2>1
<1>14. CASE InputsStopped \/ ProcessorStopped \/ SenderStopped \/ AuditorStopped \/ GracePeriodEnds
  BY <1>6, <1>14 DEF InputsStopped, ProcessorStopped, SenderStopped, AuditorStopped, GracePeriodEnds,
     AgentTo, fileVars, tailerVars
<1> QED BY <1>7, <1>8, <1>9, <1>10, <1>11, <1>12, <1>13, <1>14 DEF LogsNext, LogsStopStep
LEMMA DownStep ==
    ASSUME LogsTypes, DownInv, [LogsNext]_logsVars
    PROVE  DownInv'
<1> SUFFICES ASSUME agent' \in {"down", "stopped"}
             PROVE  DownInv'
  BY DEF DownInv, Alive
<1>1. CASE Volatile
  <2>1. Queue' = <<>>
    <3>1. <<>> \in Seq(Good)
      BY EmptySeq
    <3> QED BY <1>1, <3>1, ConcatEmptySeq DEF Volatile, Queue, Pipe
  <2> QED BY <1>1, <2>1 DEF Volatile, DownInv
<1>2. CASE ~Alive
  <2>1. ~Start
    BY DEF Start
  <2>2. Write \/ RemoveFile \/ Recreate \/ UNCHANGED logsVars
    BY <1>2, <2>1, DownSteps
  <2>3. UNCHANGED <<tailers, tailed, inputChan, senderChan, buffer, auditorChan, registry>>
    BY <2>2 DEF Write, RemoveFile, Recreate, logsVars, tailerVars, pipelineVars, senderVars, auditorVars
  <2>4. Queue' = Queue
    BY <2>3, QueueKept
  <2> QED BY <1>2, <2>3, <2>4 DEF DownInv
<1>3. CASE Alive /\ ~Volatile
  <2>0. agent' # agent
    BY <1>3 DEF Alive
  <2>1. ~Scan /\ ~Pipeline /\ ~Auditor
    BY <2>0 DEF Scan, ScanStarts, ScanRestarts, ScanFailsToRestart, ScanStops, Pipeline,
         ProcessMessage, Receive, FlushTimer, Send, SendCanceled, Commit, SenderReturns, SenderTo,
         Auditor, Audit, Cleanup, FlushRegistry, AuditorStep
  <2>2. \A i \in TailerIds : ~Tailer(i)
    BY <1>3, <2>0 DEF Tailer, Read, Stop, CloseTimeout, ReaderEnds, FlushEnds, Decode, Forward, Abandon,
         ForwardPanics
  <2>3. ~Write /\ ~RemoveFile /\ ~Recreate /\ ~Start /\ ~Crash /\ ~StopAgent /\ ~UNCHANGED logsVars
    BY <1>3, <2>0 DEF Write, RemoveFile, Recreate, Start, Crash, StopAgent, AgentTo, logsVars
  <2>4. ~LogsStopStep
    BY <1>3, <2>0 DEF LogsStopStep, InputsStopped, ProcessorStopped, SenderStopped, AuditorStopped,
         AgentStopped, GracePeriodEnds, AgentTo
  <2> QED BY <2>1, <2>2, <2>3, <2>4 DEF LogsNext
<1> QED BY <1>1, <1>2, <1>3

LEMMA QueueOfGens ==
    ASSUME NEW p \in Seq(Good), NEW m \in Good, NEW g \in Nat
    PROVE  /\ GensUpTo(p, g) /\ m.gen <= g => GensUpTo(Append(p, m), g)
           /\ TrackedUpTo(p, g) /\ (m.tracked => m.gen <= g) => TrackedUpTo(Append(p, m), g)
           /\ \A low \in Nat :
                 /\ TrackedFrom(p, low) /\ ~m.tracked => TrackedFrom(Append(p, m), low)
                 /\ TrackedFrom(p, low) /\ TrackedUpTo(p, m.gen) /\ low <= m.gen
                       => TrackedFrom(Append(p, m), low)
<1> DEFINE a == Append(p, m)
<1>1. /\ Len(p) \in Nat /\ DOMAIN p = 1..Len(p) /\ DOMAIN a = 1..(Len(p) + 1)
      /\ \A k \in DOMAIN p : a[k] = p[k]
      /\ a[Len(p) + 1] = m
      /\ \A k \in DOMAIN a : k \in DOMAIN p \/ k = Len(p) + 1
      /\ \A j, k \in DOMAIN a : j < k => j \in DOMAIN p
  BY AppendProperties
<1> HIDE DEF a
<1>2. GensUpTo(p, g) /\ m.gen <= g => GensUpTo(a, g)
  BY <1>1 DEF GensUpTo
<1>3. TrackedUpTo(p, g) /\ (m.tracked => m.gen <= g) => TrackedUpTo(a, g)
  BY <1>1 DEF TrackedUpTo
<1>4. ASSUME NEW low \in Nat, TrackedFrom(p, low), ~m.tracked
      PROVE  TrackedFrom(a, low)
  BY <1>1, <1>4 DEF TrackedFrom
<1>5. ASSUME NEW low \in Nat, TrackedFrom(p, low), TrackedUpTo(p, m.gen), low <= m.gen
      PROVE  TrackedFrom(a, low)
  BY <1>1, <1>5 DEF TrackedFrom, TrackedUpTo
<1> QED BY <1>2, <1>3, <1>4, <1>5 DEF a

LEMMA ShortenedGens ==
    ASSUME NEW p, NEW q, Shortened(p, q), NEW g
    PROVE  /\ GensUpTo(p, g) => GensUpTo(q, g)
           /\ TrackedUpTo(p, g) => TrackedUpTo(q, g)
           /\ TrackedFrom(p, g) => TrackedFrom(q, g)
<1>1. PICK f : /\ \A k \in DOMAIN q : f[k] \in DOMAIN p /\ q[k] = p[f[k]]
               /\ \A j, k \in DOMAIN q : j < k => f[j] < f[k]
  BY ShortenedIndex
<1> QED BY <1>1 DEF GensUpTo, TrackedUpTo, TrackedFrom

LEMMA HeadGens ==
    ASSUME NEW m \in Good, NEW q \in Seq(Good), NEW p, p = <<m>> \o q, NEW g
    PROVE  /\ GensUpTo(p, g) => m.gen <= g /\ GensUpTo(q, g)
           /\ TrackedUpTo(p, g) => (m.tracked => m.gen <= g) /\ TrackedUpTo(q, g)
           /\ TrackedFrom(p, g) =>
                 TrackedFrom(q, g) /\ (m.tracked => g <= m.gen /\ TrackedFrom(q, m.gen))
<1>1. /\ 1 \in DOMAIN p /\ p[1] = m
      /\ \A k \in DOMAIN q : k \in Nat \ {0} /\ k + 1 \in DOMAIN p /\ p[k + 1] = q[k]
  BY HeadedIndex
<1>2. \A j, k \in DOMAIN q : j < k => j + 1 < k + 1
  BY <1>1
<1>3. \A k \in DOMAIN q : 1 < k + 1
  BY <1>1
<1>4. GensUpTo(p, g) => m.gen <= g /\ GensUpTo(q, g)
  BY <1>1 DEF GensUpTo
<1>5. TrackedUpTo(p, g) => (m.tracked => m.gen <= g) /\ TrackedUpTo(q, g)
  BY <1>1 DEF TrackedUpTo
<1>6. TrackedFrom(p, g) => TrackedFrom(q, g) /\ (m.tracked => g <= m.gen)
  BY <1>1, <1>2 DEF TrackedFrom
<1>7. TrackedFrom(p, g) /\ m.tracked => TrackedFrom(q, m.gen)
  BY <1>1, <1>2, <1>3 DEF TrackedFrom
<1> QED BY <1>4, <1>5, <1>6, <1>7

LEMMA EntryStep ==
    ASSUME LogsTypes, SoundInv, EntryInv, [LogsNext]_logsVars
    PROVE  EntryInv'
<1>0. /\ Queue \in Seq(Good) /\ registry.gen \in Nat /\ registryFile.gen \in Nat
      /\ generation \in Nat \ {0} /\ NoEntry.gen = 0 /\ Torn.gen = 0
  BY QueueType, LogsValues, NotEntries DEF Torn
<1>1. ASSUME generation' = generation, GensUpTo(Queue', generation),
             registry' \in {registry, registryFile, NoEntry}, registryFile' \in {registry, registryFile, Torn}
      PROVE  EntryInv'
  BY <1>0, <1>1 DEF EntryInv
<1>2. GensUpTo(Queue, generation) /\ GensUpTo(<<>>, generation)
  BY DEF EntryInv, GensUpTo
<1>3. ASSUME Volatile
      PROVE  Queue' = <<>> /\ registry' = NoEntry
  <2>1. <<>> \in Seq(Good)
    BY EmptySeq
  <2> QED BY <1>3, <2>1, ConcatEmptySeq DEF Volatile, Queue, Pipe
<1>4. CASE Write \/ RemoveFile \/ Recreate \/ UNCHANGED logsVars
  <2>1. UNCHANGED <<inputChan, senderChan, buffer, auditorChan, registry, registryFile>>
        /\ (generation' = generation \/ generation' = generation + 1)
    BY <1>4 DEF Write, RemoveFile, Recreate, logsVars, fileVars, pipelineVars, senderVars, auditorVars
  <2>2. Queue' = Queue
    BY <2>1, QueueKept
  <2>3. \A g \in Nat : g <= generation => g <= generation'
    BY <1>0, <2>1
  <2>4. \A k \in DOMAIN Queue : Queue[k].gen \in Nat
    BY <1>0, GoodElements, GoodParts, LogsNumbers
  <2>5. GensUpTo(Queue, generation')
    BY <1>2, <2>3, <2>4 DEF GensUpTo
  <2> QED BY <1>0, <2>1, <2>2, <2>3, <2>5 DEF EntryInv
<1>5. CASE Scan \/ StopAgent
  <2>1. UNCHANGED <<generation, inputChan, senderChan, buffer, auditorChan, registry, registryFile>>
    BY <1>5 DEF Scan, ScanStarts, ScanRestarts, ScanFailsToRestart, ScanStops, StopAgent, AgentTo,
       fileVars, pipelineVars, senderVars, auditorVars
  <2>2. Queue' = Queue
    BY <2>1, QueueKept
  <2> QED BY <1>1, <1>2, <2>1, <2>2
<1>6. ASSUME NEW i \in TailerIds, Tailer(i)
      PROVE  EntryInv'
  <2>1. CASE ForwardPanics(i)
    <3>1. Volatile /\ generation' = generation /\ registryFile' = registryFile
      BY <2>1 DEF ForwardPanics, fileVars
    <3> QED BY <1>1, <1>2, <1>3, <3>1
  <2>2. CASE ~ForwardPanics(i)
    <3>1. UNCHANGED <<generation, senderChan, buffer, auditorChan, registry, registryFile>>
      BY <1>6, <2>2 DEF Tailer, Read, Stop, CloseTimeout, ReaderEnds, FlushEnds, Decode, Forward, Abandon,
         TailerTo, fileVars, senderVars, auditorVars
    <3>2. CASE Forward(i)
      <4> DEFINE m == tailers[i].message
      <4>1. Queue' = Append(Queue, m) /\ m # NoMessage
        BY <3>2, QueueForward DEF Forward
      <4>2. m \in Good /\ m.gen <= generation
        BY <4>1, MessageOf DEF SoundInv, Sound
      <4> HIDE DEF m
      <4>3. GensUpTo(Append(Queue, m), generation)
        BY <1>0, <1>2, <4>2, QueueOfGens
      <4> QED BY <1>1, <3>1, <4>1, <4>3
    <3>3. CASE ~Forward(i)
      <4>1. inputChan' = inputChan
        BY <1>6, <2>2, <3>3 DEF Tailer, Read, Stop, CloseTimeout, ReaderEnds, FlushEnds, Decode, Abandon
      <4>2. Queue' = Queue
        BY <3>1, <4>1, QueueKept
      <4> QED BY <1>1, <1>2, <3>1, <4>2
    <3> QED BY <3>2, <3>3
  <2> QED BY <2>1, <2>2
<1>7. CASE Pipeline
  <2>1. UNCHANGED <<generation, registry, registryFile>>
    BY <1>7 DEF Pipeline, ProcessMessage, Receive, FlushTimer, Send, SendCanceled, Commit,
       SenderReturns, SenderTo, fileVars, auditorVars
  <2> DEFINE q == Queue'
  <2>2. Shortened(Queue, q)
    BY <1>7, QueuePipeline
  <2> HIDE DEF q
  <2>3. GensUpTo(q, generation)
    BY <1>2, <2>2, ShortenedGens
  <2> QED BY <1>1, <2>1, <2>3 DEF q
<1>8. CASE Audit
  <2> DEFINE m == Head(auditorChan)
             q == Queue'
  <2>1. Queue = <<m>> \o q /\ q \in Seq(Good) /\ m \in Good
    BY <1>8, QueueAudit
  <2>2. /\ registry' = IF m.tracked THEN [gen |-> m.gen, offset |-> m.offset] ELSE registry
        /\ UNCHANGED <<generation, registryFile>>
    BY <1>8 DEF Audit, AuditorStep, fileVars
  <2> HIDE DEF m, q
  <2>3. m.gen <= generation /\ GensUpTo(q, generation)
    BY <1>2, <2>1, HeadGens
  <2>4. registry'.gen <= generation
    BY <2>2, <2>3 DEF EntryInv
  <2> QED BY <2>2, <2>3, <2>4 DEF EntryInv, q
<1>9. CASE Cleanup \/ FlushRegistry
  <2>1. /\ UNCHANGED <<generation, inputChan, senderChan, buffer, auditorChan>>
        /\ registry' \in {registry, NoEntry} /\ registryFile' \in {registry, registryFile}
    BY <1>9 DEF Cleanup, FlushRegistry, AuditorStep, fileVars, senderVars
  <2>2. Queue' = Queue
    BY <2>1, QueueKept
  <2> QED BY <1>1, <1>2, <2>1, <2>2
<1>10. CASE Start
  <2>1. /\ UNCHANGED <<generation, inputChan, senderChan, buffer, auditorChan, registryFile>>
        /\ registry' \in {NoEntry, registryFile}
    BY <1>10 DEF Start, Recovered, fileVars, pipelineVars, senderVars
  <2>2. Queue' = Queue
    BY <2>1, QueueKept
  <2> QED BY <1>1, <1>2, <2>1, <2>2
<1>11. CASE Crash \/ AgentStopped
  <2>1. Volatile /\ generation' = generation /\ registryFile' \in {registryFile, Torn}
    BY <1>11 DEF Crash, AgentStopped, fileVars
  <2> QED BY <1>1, <1>2, <1>3, <2>1
<1>12. CASE InputsStopped \/ ProcessorStopped \/ SenderStopped \/ AuditorStopped \/ GracePeriodEnds
  <2>1. /\ UNCHANGED <<generation, inputChan, senderChan, buffer, auditorChan, registry>>
        /\ registryFile' \in {registry, registryFile}
    BY <1>12 DEF InputsStopped, ProcessorStopped, SenderStopped, AuditorStopped, GracePeriodEnds,
       AgentTo, fileVars, pipelineVars, senderVars, auditorVars
  <2>2. Queue' = Queue
    BY <2>1, QueueKept
  <2> QED BY <1>1, <1>2, <2>1, <2>2
<1> QED BY <1>4, <1>5, <1>6, <1>7, <1>8, <1>9, <1>10, <1>11, <1>12 DEF LogsNext, LogsStopStep, Auditor
\* Steps that leave the tailers' part as it is, or the queue's.
LEMMA RotateQueueKept ==
    ASSUME RotateQueue, Queue' = Queue, registry' = registry,
           tailed' # 0 /\ Active(tailers'[tailed']) =>
               tailed' = tailed /\ Active(tailers[tailed]) /\ tailers'[tailed].gen = tailers[tailed].gen
    PROVE  RotateQueue'
BY DEF RotateQueue

\* The new tailer of the path is ahead of all that is on its way.
LEMMA RotateQueueNew ==
    ASSUME LogsTypes, EntryInv, TrackedFrom(Queue, registry.gen), Queue' = Queue, registry' = registry,
           tailers'[tailed'].gen = generation
    PROVE  RotateQueue'
<1>1. TrackedUpTo(Queue, generation)
  BY DEF EntryInv, GensUpTo, TrackedUpTo
<1> QED BY <1>1 DEF EntryInv, RotateQueue

LEMMA RotateVolatile ==
    ASSUME Volatile
    PROVE  RotateTailers' /\ RotateQueue'
<1>1. Queue' = <<>> /\ DOMAIN Queue' = {}
  <2>1. <<>> \in Seq(Good)
    BY EmptySeq
  <2> QED BY <2>1, ConcatEmptySeq DEF Volatile, Queue, Pipe
<1>2. tailed' = 0 /\ \A i \in TailerIds : tailers'[i] = NoTailer
  BY DEF Volatile
<1>3. NoTailer.message = NoMessage /\ ~Active(NoTailer) /\ NoTailer.asked = FALSE
  BY NoTailerGoes
<1>4. RotateTailers'
  BY <1>2, <1>3 DEF RotateTailers, Old
<1> QED BY <1>1, <1>2, <1>4 DEF RotateQueue, TrackedFrom

LEMMA RotateScan ==
    ASSUME LogsTypes, EntryInv, RotateTailers, RotateQueue, ~stray', Scan
    PROVE  RotateTailers' /\ RotateQueue'
<1>0. /\ tailers = [i \in TailerIds |-> tailers[i]] /\ (tailed # 0 => tailed \in TailerIds)
      /\ \A i \in TailerIds : InStep(tailers[i])
      /\ TrackedFrom(Queue, registry.gen)
  BY DEF LogsTypes, TailerTypes, RotateQueue
<1>1. Queue' = Queue /\ registry' = registry
  <2>1. UNCHANGED <<inputChan, senderChan, buffer, auditorChan, registry>>
    BY DEF Scan, ScanStarts, ScanRestarts, ScanFailsToRestart, ScanStops, pipelineVars, senderVars, auditorVars
  <2> QED BY <2>1, QueueKept
<1>2. ~ScanFailsToRestart /\ ~ScanStops
  BY DEF ScanFailsToRestart, ScanStops
<1>3. CASE ScanStarts
  <2> DEFINE p == Position(registry, "beginning")
  <2>1. PICK i \in TailerIds : tailers' = [tailers EXCEPT ![i] = TailerAt(p)] /\ tailed' = i
    BY <1>3 DEF ScanStarts, FreeTailer
  <2>2. tailed = 0 /\ p \in Offsets
    BY <1>3, PositionType DEF ScanStarts, LogsTypes, RegistryTypes
  <2> HIDE DEF p
  <2>3. TailerAt(p).gen = generation /\ TailerAt(p).asked = FALSE
    BY <2>2, NewTailer DEF LogsTypes
  <2>4. \A j \in TailerIds : tailers'[j] = IF j = i THEN TailerAt(p) ELSE tailers[j]
    BY <1>0, <2>1
  <2>5. \A j \in TailerIds : j # tailed
    BY <2>2, LogsNumbers
  <2>6. RotateTailers'
    BY <2>1, <2>3, <2>4, <2>5 DEF RotateTailers
  <2>7. tailers'[tailed'].gen = generation
    BY <2>1, <2>3, <2>4
  <2>8. RotateQueue'
    BY <1>0, <1>1, <2>7, RotateQueueNew
  <2> QED BY <2>6, <2>8
<1>4. CASE ScanRestarts
  <2>1. PICK i \in FreeTailer :
          /\ tailers' = [tailers EXCEPT ![tailed] = AfterRotation(tailers[tailed]), ![i] = TailerAt(0)]
          /\ tailed' = i
    BY <1>4 DEF ScanRestarts
  <2>2. tailed \in TailerIds /\ i \in TailerIds /\ i # tailed
    BY <1>0, <1>4, <2>1 DEF ScanRestarts, FreeTailer, Free
  <2>3. tailers[tailed].message = NoMessage
    BY <1>4 DEF ScanRestarts
  <2>4. TailerAt(0).gen = generation /\ TailerAt(0).asked = FALSE
    <3>1. 0 \in Offsets /\ FileTypes
      BY LogsNumbers DEF LogsTypes
    <3> QED BY ONLY <3>1, NewTailer
  <2> DEFINE w == AfterRotation(tailers[tailed])
  <2>5. w.message = NoMessage /\ w.asked = tailers[tailed].asked /\ w.didFileRotate = TRUE
    BY <1>0, <2>2, <2>3, SignalsGo
  <2> HIDE DEF w
  <2>6. \A j \in TailerIds : tailers'[j] = IF j = i THEN TailerAt(0) ELSE IF j = tailed THEN w ELSE tailers[j]
    BY <1>0, <2>1 DEF w
  <2>7. Old(w) /\ ~w.asked
    BY <2>2, <2>5 DEF Old, RotateTailers
  <2>8. RotateTailers'
    BY <2>1, <2>2, <2>4, <2>6, <2>7 DEF RotateTailers
  <2>9. tailers'[tailed'].gen = generation
    BY <2>1, <2>2, <2>4, <2>6
  <2>10. RotateQueue'
    BY <1>0, <1>1, <2>9, RotateQueueNew
  <2> QED BY <2>8, <2>10
<1> QED BY <1>2, <1>3, <1>4 DEF Scan

LEMMA RotateTailer ==
    ASSUME LogsTypes, SoundInv, RotateTailers, RotateQueue, NEW i \in TailerIds, Tailer(i)
    PROVE  RotateTailers' /\ RotateQueue'
<1> DEFINE t == tailers[i]
<1>0. /\ tailers = [j \in TailerIds |-> tailers[j]] /\ (tailed # 0 => tailed \in TailerIds)
      /\ InStep(t) /\ ~t.asked /\ (i # tailed => Old(t)) /\ Sound(t, generation)
  BY DEF LogsTypes, TailerTypes, RotateTailers, SoundInv
<1>1. ASSUME NEW u, TailerTo(i, u)
      PROVE  /\ \A j \in TailerIds : tailers'[j] = IF j = i THEN u ELSE tailers[j]
             /\ UNCHANGED <<tailed, senderChan, buffer, auditorChan, registry>>
  BY <1>0, <1>1 DEF TailerTo, senderVars, auditorVars
<1>2. ASSUME NEW u, TailerTo(i, u), ~u.asked, i # tailed => Old(u)
      PROVE  RotateTailers'
  BY <1>1, <1>2 DEF RotateTailers
<1>3. ASSUME NEW u, TailerTo(i, u), inputChan' = inputChan, Active(u) => Active(t) /\ u.gen = t.gen
      PROVE  RotateQueue'
  <2>1. Queue' = Queue /\ registry' = registry
    BY <1>1, <1>3, QueueKept
  <2>2. tailed' # 0 /\ Active(tailers'[tailed']) =>
           tailed' = tailed /\ Active(tailers[tailed]) /\ tailers'[tailed].gen = tailers[tailed].gen
    BY <1>0, <1>1, <1>3
  <2> QED BY <2>1, <2>2, RotateQueueKept
<1>4. CASE Read(i) \/ Stop(i) \/ CloseTimeout(i) \/ ReaderEnds(i)
  <2>1. PICK u : TailerTo(i, u) /\ Goes(t, u)
    BY <1>4, TailerGoes
  <2>2. inputChan' = inputChan
    BY <1>4 DEF Read, Stop, CloseTimeout, ReaderEnds
  <2>3. ~u.asked /\ (i # tailed => Old(u)) /\ (Active(u) => Active(t) /\ u.gen = t.gen)
    BY <1>0, <2>1 DEF Goes, Old
  <2> QED BY <1>2, <1>3, <2>1, <2>2, <2>3
<1>5. CASE FlushEnds(i)
  <2> DEFINE u == [NoTailer EXCEPT !.state = "done"]
  <2>1. TailerTo(i, u) /\ inputChan' = inputChan
    BY <1>5 DEF FlushEnds
  <2>2. u.message = NoMessage /\ ~Active(u) /\ u.asked = FALSE
    BY NoTailerGoes
  <2> HIDE DEF u
  <2> QED BY <1>2, <1>3, <2>1, <2>2 DEF Old
<1>6. CASE Decode(i)
  <2>1. PICK u : TailerTo(i, u) /\ DecodedAs(t, u)
    BY <1>6, Decoded
  <2>2. inputChan' = inputChan /\ Active(t)
    BY <1>6 DEF Decode, Active
  <2>3. /\ u.gen = t.gen /\ u.state = t.state /\ u.didFileRotate = t.didFileRotate
        /\ u.asked = t.asked /\ u.message.tracked = ~t.didFileRotate
    BY <2>1 DEF DecodedAs
  <2>4. i # tailed => Old(u)
    BY <1>0, <2>2, <2>3 DEF Old
  <2> QED BY <1>0, <1>2, <1>3, <2>1, <2>2, <2>3, <2>4
<1>7. CASE Abandon(i)
  <2> DEFINE u == Forwarded(t)
  <2>1. TailerTo(i, u) /\ inputChan' = inputChan
    BY <1>7 DEF Abandon
  <2>2. /\ u.gen = t.gen /\ u.message = NoMessage /\ (Active(u) <=> Active(t)) /\ u.asked = t.asked
        /\ u.didFileRotate = t.didFileRotate
    BY <1>0, ForwardedGoes
  <2> HIDE DEF u
  <2> QED BY <1>0, <1>2, <1>3, <2>1, <2>2 DEF Old
<1>8. CASE Forward(i)
  <2> DEFINE u == Forwarded(t)
             m == t.message
  <2>1. TailerTo(i, u) /\ Queue' = Append(Queue, m) /\ m # NoMessage
    BY <1>8, QueueForward DEF Forward
  <2>2. /\ u.gen = t.gen /\ u.message = NoMessage /\ (Active(u) <=> Active(t)) /\ u.asked = t.asked
        /\ u.didFileRotate = t.didFileRotate
    BY <1>0, ForwardedGoes
  <2>3. m \in Good /\ m.gen = t.gen /\ Active(t) /\ (i # tailed => ~m.tracked)
    BY <1>0, <2>1, MessageOf DEF Sound, Old
  <2>4. Queue \in Seq(Good) /\ registry.gen \in Nat /\ t.gen \in Nat
        /\ \A j \in TailerIds : tailers[j].gen \in Nat
    BY QueueType, LogsValues
  <2> HIDE DEF u, m
  <2>5. RotateTailers'
    BY <1>0, <1>2, <2>1, <2>2 DEF Old
  <2>6. TrackedFrom(Append(Queue, m), registry.gen)
    <3>1. TrackedFrom(Queue, registry.gen)
      BY DEF RotateQueue
    <3>2. CASE i # tailed
      BY <2>3, <2>4, <3>1, <3>2, QueueOfGens
    <3>3. CASE i = tailed
      <4>1. registry.gen <= m.gen /\ TrackedUpTo(Queue, m.gen)
        BY <2>3, <3>3, LogsNumbers DEF RotateQueue
      <4> QED BY <2>3, <2>4, <3>1, <4>1, QueueOfGens
    <3> QED BY <3>2, <3>3
  <2>7. ASSUME tailed # 0, Active(tailers'[tailed])
        PROVE  registry.gen <= tailers'[tailed].gen /\ TrackedUpTo(Append(Queue, m), tailers'[tailed].gen)
    <3>1. tailed \in TailerIds /\ tailers'[tailed].gen = tailers[tailed].gen /\ Active(tailers[tailed])
      BY <1>0, <1>1, <2>1, <2>2, <2>7
    <3>2. registry.gen <= tailers[tailed].gen /\ TrackedUpTo(Queue, tailers[tailed].gen)
      BY <2>7, <3>1 DEF RotateQueue
    <3>3. m.tracked => m.gen <= tailers[tailed].gen
      BY <2>3, <2>4
    <3>4. TrackedUpTo(Append(Queue, m), tailers[tailed].gen)
      BY <2>3, <2>4, <3>1, <3>2, <3>3, QueueOfGens
    <3> QED BY <3>1, <3>2, <3>4
  <2>8. RotateQueue'
    BY <1>1, <2>1, <2>6, <2>7 DEF RotateQueue
  <2> QED BY <2>5, <2>8
<1>9. CASE ForwardPanics(i)
  BY <1>9, RotateVolatile DEF ForwardPanics
<1> QED BY <1>4, <1>5, <1>6, <1>7, <1>8, <1>9 DEF Tailer

LEMMA RotateStep ==
    ASSUME LogsTypes, SoundInv, EntryInv, DownInv, RotateInv, [LogsNext]_logsVars
    PROVE  /\ RotateInv'
           /\ ~stray /\ registry' \in Entries => registry'.gen >= registry.gen
<1>0. stray => stray'
  <2>1. CASE Pipeline \/ Auditor \/ Write \/ RemoveFile \/ Recreate \/ UNCHANGED logsVars
    BY <2>1 DEF Pipeline, ProcessMessage, Receive, FlushTimer, Send, SendCanceled, Commit, SenderReturns,
       SenderTo, Auditor, Audit, Cleanup, FlushRegistry, AuditorStep, Write, RemoveFile, Recreate, logsVars
  <2>2. CASE Scan
    BY <2>2 DEF Scan, ScanStarts, ScanRestarts, ScanFailsToRestart, ScanStops
  <2>3. CASE \E i \in TailerIds : Tailer(i)
    BY <2>3 DEF Tailer, Read, Stop, CloseTimeout, ReaderEnds, FlushEnds, Decode, Forward, Abandon,
       ForwardPanics, TailerTo
  <2>4. CASE Start \/ Crash \/ StopAgent \/ LogsStopStep
    BY <2>4 DEF Start, Crash, StopAgent, LogsStopStep, InputsStopped, ProcessorStopped, SenderStopped,
       AuditorStopped, AgentStopped, GracePeriodEnds, AgentTo
  <2> QED BY <2>1, <2>2, <2>3, <2>4 DEF LogsNext
<1>1. CASE stray
  BY <1>0, <1>1 DEF RotateInv
<1>2. CASE ~stray
  <2>0. RotateTailers /\ RotateQueue /\ registry.gen \in Nat /\ registry.gen >= registry.gen
    BY <1>2, LogsValues DEF RotateInv
  <2>1. ASSUME UNCHANGED <<tailers, tailed, inputChan, senderChan, buffer, auditorChan, registry>>
        PROVE  RotateInv' /\ registry'.gen >= registry.gen
    <3>1. Queue' = Queue
      BY <2>1, QueueKept
    <3>2. RotateTailers' /\ RotateQueue'
      BY <2>0, <2>1, <3>1 DEF RotateTailers, RotateQueue
    <3> QED BY <2>0, <2>1, <3>2 DEF RotateInv
  <2>2. ASSUME Volatile
        PROVE  RotateInv' /\ registry' \notin Entries
    BY <2>2, RotateVolatile, NotEntries DEF RotateInv, Volatile
  <2>3. CASE Write \/ RemoveFile \/ Recreate \/ UNCHANGED logsVars
    BY <2>1, <2>3 DEF Write, RemoveFile, Recreate, logsVars, tailerVars, pipelineVars, senderVars, auditorVars
  <2>4. CASE Scan
    <3>1. registry' = registry
      BY <2>4 DEF Scan, ScanStarts, ScanRestarts, ScanFailsToRestart, ScanStops, auditorVars
    <3> QED BY <2>0, <2>4, <3>1, RotateScan DEF RotateInv
  <2>5. ASSUME NEW i \in TailerIds, Tailer(i)
        PROVE  RotateInv' /\ (registry' = registry \/ registry' \notin Entries)
    <3>1. registry' = registry \/ registry' = NoEntry
      BY <2>5 DEF Tailer, Read, Stop, CloseTimeout, ReaderEnds, FlushEnds, Decode, Forward, Abandon,
         ForwardPanics, Volatile, TailerTo, auditorVars
    <3> QED BY <2>0, <2>5, <3>1, RotateTailer, NotEntries DEF RotateInv
  <2>6. CASE Pipeline
    <3>1. UNCHANGED <<tailers, tailed, registry>>
      BY <2>6 DEF Pipeline, ProcessMessage, Receive, FlushTimer, Send, SendCanceled, Commit,
         SenderReturns, SenderTo, tailerVars, auditorVars
    <3> DEFINE q == Queue'
    <3>2. Shortened(Queue, q)
      BY <2>6, QueuePipeline
    <3> HIDE DEF q
    <3>3. \A g : (TrackedUpTo(Queue, g) => TrackedUpTo(q, g)) /\ (TrackedFrom(Queue, g) => TrackedFrom(q, g))
      BY <3>2, ShortenedGens
    <3>4. RotateQueue'
      BY <2>0, <3>1, <3>3 DEF RotateQueue, q
    <3>5. RotateTailers'
      BY <2>0, <3>1 DEF RotateTailers
    <3> QED BY <2>0, <3>1, <3>4, <3>5 DEF RotateInv
  <2>7. CASE Audit
    <3> DEFINE m == Head(auditorChan)
               q == Queue'
    <3>1. Queue = <<m>> \o q /\ q \in Seq(Good) /\ m \in Good
      BY <2>7, QueueAudit
    <3>2. /\ registry' = IF m.tracked THEN [gen |-> m.gen, offset |-> m.offset] ELSE registry
          /\ UNCHANGED <<tailers, tailed>>
      BY <2>7 DEF Audit, AuditorStep, tailerVars
    <3> HIDE DEF m, q
    <3>3. \A g : /\ TrackedUpTo(Queue, g) => (m.tracked => m.gen <= g) /\ TrackedUpTo(q, g)
                 /\ TrackedFrom(Queue, g) =>
                       TrackedFrom(q, g) /\ (m.tracked => g <= m.gen /\ TrackedFrom(q, m.gen))
      BY <3>1, HeadGens
    <3>4. m.gen \in Nat
      BY <3>1, GoodParts, LogsNumbers
    <3>5. registry'.gen = IF m.tracked THEN m.gen ELSE registry.gen
      BY <3>2
    <3>6. TrackedFrom(q, registry'.gen) /\ registry'.gen >= registry.gen
      BY <2>0, <3>3, <3>4, <3>5 DEF RotateQueue
    <3>7. tailed # 0 /\ Active(tailers[tailed]) =>
             registry'.gen <= tailers[tailed].gen /\ TrackedUpTo(q, tailers[tailed].gen)
      BY <2>0, <3>3, <3>5 DEF RotateQueue
    <3>8. RotateQueue'
      BY <3>2, <3>6, <3>7 DEF RotateQueue, q
    <3>9. RotateTailers'
      BY <2>0, <3>2 DEF RotateTailers
    <3> QED BY <3>6, <3>8, <3>9 DEF RotateInv
  <2>8. CASE Cleanup
    <3>1. registry' = NoEntry /\ UNCHANGED <<tailers, tailed, inputChan, senderChan, buffer, auditorChan>>
      BY <2>8 DEF Cleanup, AuditorStep, tailerVars, senderVars
    <3>2. Queue' = Queue /\ NoEntry.gen = 0 /\ Queue \in Seq(Good)
      BY <3>1, QueueKept, QueueType, NotEntries
    <3>3. \A k \in DOMAIN Queue : 0 <= Queue[k].gen
      BY <3>2, GoodElements, GoodParts, LogsNumbers
    <3>4. TrackedFrom(Queue, 0)
      BY <2>0, <3>3 DEF RotateQueue, TrackedFrom
    <3>5. tailed # 0 => 0 <= tailers[tailed].gen
      BY LogsValues DEF LogsTypes, TailerTypes
    <3>6. RotateQueue'
      BY <2>0, <3>1, <3>2, <3>4, <3>5 DEF RotateQueue
    <3>7. RotateTailers'
      BY <2>0, <3>1 DEF RotateTailers
    <3> QED BY <3>1, <3>6, <3>7, NotEntries DEF RotateInv
  <2>9. CASE FlushRegistry
    BY <2>1, <2>9 DEF FlushRegistry, AuditorStep, tailerVars, senderVars
  <2>10. CASE Start
    <3>1. agent \in {"down", "stopped"} /\ registry' = Recovered
      BY <2>10 DEF Start
    <3>2. tailers = [i \in TailerIds |-> NoTailer] /\ tailed = 0 /\ Queue = <<>> /\ registry = NoEntry
      BY <3>1 DEF DownInv, Alive
    <3>3. Queue' = Queue /\ DOMAIN Queue' = {}
      <4>1. UNCHANGED <<inputChan, senderChan, buffer, auditorChan>>
        BY <2>10 DEF Start, pipelineVars, senderVars
      <4> QED BY <3>2, <4>1, QueueKept
    <3>4. registry'.gen <= generation /\ registry'.gen \in Nat
      BY <3>1, LogsValues, NotEntries DEF EntryInv, Recovered
    <3>5. registry'.gen >= registry.gen
      BY <3>2, <3>4, NotEntries
    <3>6. NoTailer.message = NoMessage /\ ~Active(NoTailer) /\ NoTailer.asked = FALSE
      BY NoTailerGoes
    <3>7. CASE present
      <4> DEFINE p == Position(Recovered, tailingMode)
      <4>1. p \in Offsets
        BY RecoveredType, PositionType DEF LogsTypes
      <4>2. tailers' = [tailers EXCEPT ![1] = TailerAt(p)] /\ tailed' = 1
        BY <2>10, <3>7 DEF Start
      <4> HIDE DEF p
      <4>3. TailerAt(p).gen = generation /\ TailerAt(p).asked = FALSE
        BY <4>1, NewTailer DEF LogsTypes
      <4>4. \A i \in TailerIds : tailers'[i] = IF i = 1 THEN TailerAt(p) ELSE NoTailer
        BY <3>2, <4>2
      <4>5. RotateTailers'
        BY <3>6, <4>2, <4>3, <4>4 DEF RotateTailers, Old
      <4>6. tailers'[tailed'].gen = generation
        BY <4>2, <4>3, <4>4, LogsNumbers
      <4>7. RotateQueue'
        BY <3>3, <3>4, <4>6 DEF RotateQueue, TrackedFrom, TrackedUpTo
      <4> QED BY <3>5, <4>5, <4>7 DEF RotateInv
    <3>8. CASE ~present
      <4>1. UNCHANGED <<tailers, tailed>>
        BY <2>10, <3>8 DEF Start, tailerVars
      <4>2. RotateTailers'
        BY <2>0, <4>1 DEF RotateTailers
      <4>3. RotateQueue'
        BY <3>2, <3>3, <4>1 DEF RotateQueue, TrackedFrom
      <4> QED BY <3>5, <4>2, <4>3 DEF RotateInv
    <3> QED BY <3>7, <3>8
  <2>11. CASE Crash \/ AgentStopped
    BY <2>2, <2>11 DEF Crash, AgentStopped
  <2>12. CASE StopAgent
    <3>1. /\ UNCHANGED <<tailed, inputChan, senderChan, buffer, auditorChan, registry>>
          /\ \A i \in TailerIds : tailers'[i] = IF i = tailed THEN Stopped(tailers[i]) ELSE tailers[i]
      BY <2>12 DEF StopAgent, AgentTo, pipelineVars, senderVars, auditorVars
    <3>2. Queue' = Queue
      BY <3>1, QueueKept
    <3>3. \A i \in TailerIds : /\ Stopped(tailers[i]).gen = tailers[i].gen
                               /\ (Active(Stopped(tailers[i])) <=> Active(tailers[i]))
                               /\ Stopped(tailers[i]).asked = FALSE
      BY SignalsGo DEF LogsTypes, TailerTypes
    <3>4. RotateTailers'
      BY <2>0, <3>1, <3>3 DEF RotateTailers
    <3>5. tailed # 0 => tailed \in TailerIds
      BY DEF LogsTypes, TailerTypes
    <3>6. RotateQueue'
      BY <2>0, <3>1, <3>2, <3>3, <3>5, RotateQueueKept
    <3> QED BY <2>0, <3>1, <3>4, <3>6 DEF RotateInv
  <2>13. CASE InputsStopped \/ ProcessorStopped \/ SenderStopped \/ AuditorStopped \/ GracePeriodEnds
    <3>1. UNCHANGED <<tailers, tailed, inputChan, senderChan, buffer, auditorChan, registry>>
      BY <2>13 DEF InputsStopped, ProcessorStopped, SenderStopped, AuditorStopped, GracePeriodEnds,
         AgentTo, pipelineVars, senderVars, tailerVars, auditorVars
    <3> QED BY <2>1, <3>1
  <2> QED BY <2>0, <2>3, <2>4, <2>5, <2>6, <2>7, <2>8, <2>9, <2>10, <2>11, <2>12, <2>13
          DEF LogsNext, LogsStopStep, Auditor
<1> QED BY <1>1, <1>2

\* RegistryFollowsRotation, for any number of rotations, restarts, lines and tailers: the entry of
\* the path does not go back to an older file, unless a tailer of one may still send tracked lines.
THEOREM EntryFollowsRotation == LogsSpec => RegistryFollowsRotation
<1> DEFINE Inv == LogsTypes /\ SoundInv /\ EntryInv /\ DownInv /\ RotateInv
<1>1. LogsInit => Inv
  <2> SUFFICES ASSUME LogsInit
               PROVE  Inv
    OBVIOUS
  <2>1. LogsTypes
    BY TypesInit
  <2>2. Queue = <<>> /\ DOMAIN Queue = {}
    BY QueueVolatile DEF LogsInit
  <2>3. /\ tailers = [i \in TailerIds |-> NoTailer] /\ tailed = 0 /\ registry = NoEntry
        /\ registryFile = NoEntry /\ generation = 1
    BY DEF LogsInit
  <2>4. NoTailer.gen = 1 /\ NoTailer.message = NoMessage /\ ~Active(NoTailer) /\ NoTailer.asked = FALSE
    BY NoTailerGoes
  <2>5. SoundInv
    BY <2>3, <2>4 DEF SoundInv, Sound
  <2>6. EntryInv
    BY <2>2, <2>3, NotEntries DEF EntryInv, GensUpTo
  <2>7. DownInv
    BY <2>2, <2>3 DEF DownInv
  <2>8. RotateInv
    BY <2>2, <2>3, <2>4 DEF RotateInv, RotateTailers, RotateQueue, Old, TrackedFrom
  <2> QED BY <2>1, <2>5, <2>6, <2>7, <2>8
<1>2. Inv /\ [LogsNext]_logsVars => Inv'
  <2> SUFFICES ASSUME Inv, [LogsNext]_logsVars
               PROVE  Inv'
    OBVIOUS
  <2>1. LogsTypes'
    BY TypesStep DEF Kept
  <2> QED BY <2>1, SoundStep, EntryStep, DownStep, RotateStep
<1>3. Inv /\ [LogsNext]_logsVars => [(~stray /\ registry' \in Entries) => registry'.gen >= registry.gen]_logsVars
  BY RotateStep
<1> QED BY <1>1, <1>2, <1>3, PTL DEF LogsSpec, RegistryFollowsRotation

-----------------------------------------------------------------------------
(* Autodiscovery: NothingLeft.  What the store holds between the operations of the *)
(* goroutine that is at work is described by where it stands and by its locals.    *)

StoredPoints    == {"addForService", "addForTemplate", "setTagsHash"}
ResolvingPoints == {"resolve"} \cup StoringPoints
MatchingPoints  == {"nextMatch", "schedule"} \cup ResolvingPoints

\* Each goroutine stands in its own functions or in those both call, ...
Positions ==
    /\ pc["poller"] \notin ListenerPoints
    /\ pc["listener"] \notin PollerPoints

\* ... has local variables only inside the functions they belong to ...
LocalsEnd ==
    /\ \A g \in Goroutines :
          /\ storing[g] # {} => pc[g] \in StoringPoints
          /\ removing[g] # {} => pc[g] \in RemovingPoints
    /\ resolved["poller"] # {} => pc["poller"] \in {"nextService", "schedule"} \cup ResolvingPoints
    /\ resolved["listener"] # {} => pc["listener"] = "schedule"

\* ... and stores one configuration, of the template and the service it is at.
Subjects ==
    /\ pc["poller"] \in {"getServices", "nextService"} => tpl["poller"] \in Templates
    /\ pc["listener"] # "idle" => svc["listener"] \in Services
    /\ \A g \in Goroutines :
          /\ pc[g] \in ResolvingPoints => tpl[g] \in Templates /\ svc[g] \in Services
          /\ \A c, d \in storing[g] : c.tpl = tpl[g] /\ c.svc = svc[g] /\ c = d

DiscoveryTypes == DiscoveryTypeOK /\ Positions /\ LocalsEnd /\ Subjects

\* The cache holds the polled templates, but for those the poller has still to handle.
CacheFollowsPolled ==
    /\ Idle("poller") => addedTemplates = {} /\ removedTemplates = {}
    /\ addedTemplates \subseteq polledTemplates
    /\ addedTemplates \cap templateCache = {}
    /\ \A t \in templateCache :
          \/ t \in polledTemplates \cup removedTemplates
          \/ t = tpl["poller"] /\ pc["poller"] \in {"delTemplate"} \cup RemovingPoints

OneAtWork == \E g \in Goroutines : Idle(g)

\* A loaded configuration that is not scheduled is in the hands of a goroutine.
ScheduledIsLoaded ==
    /\ scheduledConfigs \subseteq loadedConfigs
    /\ \A g \in Goroutines :
          /\ resolved[g] \subseteq loadedConfigs
          /\ pc[g] \in StoredPoints => storing[g] \subseteq loadedConfigs
          /\ pc[g] = "removeLoaded" => scheduledConfigs \cap removing[g] = {}
    /\ \A c \in loadedConfigs \ scheduledConfigs :
          \E g \in Goroutines : c \in resolved[g] \cup storing[g] \cup removing[g]

\* So is one that a removal by its service, or by its template, would not find.
LoadedIsIndexed ==
    /\ \A c \in loadedConfigs :
          \/ c \in serviceToConfigs[c.svc] /\ c \in templateToConfigs[c.tpl]
          \/ \E g \in Goroutines : c \in storing[g] \cup removing[g]
    /\ \A g \in Goroutines : \A c \in storing[g] :
          /\ pc[g] \in {"addForTemplate", "setTagsHash"} => c \in serviceToConfigs[c.svc]
          /\ pc[g] = "setTagsHash" => c \in templateToConfigs[c.tpl]

\* Its template is in the cache: a template leaves the cache after its configurations.
TemplateIsCached ==
    /\ \A c \in loadedConfigs : c.tpl \in templateCache
    /\ pc["poller"] \in {"getServices", "nextService"} => tpl["poller"] \in templateCache
    /\ \A g \in Goroutines : pc[g] \in ResolvingPoints => tpl[g] \in templateCache
    /\ pc["listener"] \in MatchingPoints => templates \subseteq templateCache
    /\ pc["poller"] \in RemovingPoints =>
          \A c \in loadedConfigs : c.tpl = tpl["poller"] => c \in removing["poller"]
    /\ pc["poller"] \in {"delTemplate", "getServices"} =>
          \A c \in loadedConfigs : c.tpl # tpl["poller"]

\* Its service is ready, unless that is being removed with its configurations.
ServiceIsReady ==
    /\ \A c \in loadedConfigs :
          \/ c.svc \in serviceReady
          \/ c.svc = svc["listener"] /\ pc["listener"] \in {"getConfigs"} \cup RemovingPoints
    /\ \A g \in Goroutines :
          /\ pc[g] \in ResolvingPoints /\ ready[g] => svc[g] \in serviceReady
          /\ pc[g] \in StoringPoints => ready[g]
    /\ pc["listener"] \in {"setServiceHash", "setADID", "getTemplates", "nextMatch", "schedule"}
          /\ ready["listener"] => svc["listener"] \in serviceReady
    /\ pc["listener"] \in RemovingPoints =>
          \A c \in loadedConfigs : c.svc = svc["listener"] => c \in removing["listener"]
    /\ pc["listener"] \in {"removeTagsHash", "setService", "setServiceHash", "setADID",
                           "getTemplates"} =>
          \A c \in loadedConfigs : c.svc # svc["listener"]

\* No template is loaded twice for a service, and what a goroutine has still to resolve is
\* not loaded.
LoadedOnce ==
    /\ \A c, d \in loadedConfigs : c.tpl = d.tpl /\ c.svc = d.svc => c = d
    /\ pc["poller"] \in {"nextService"} \cup ResolvingPoints =>
          \A c \in loadedConfigs : c.tpl = tpl["poller"] => c.svc \notin services
    /\ pc["listener"] \in MatchingPoints =>
          \A c \in loadedConfigs : c.svc = svc["listener"] => c.tpl \notin templates
    /\ pc["poller"] \in ResolvingPoints => svc["poller"] \notin services
    /\ pc["listener"] \in ResolvingPoints => tpl["listener"] \notin templates
    /\ \A g \in Goroutines : pc[g] \in {"resolve", "setLoaded"} =>
          \A c \in loadedConfigs : ~(c.tpl = tpl[g] /\ c.svc = svc[g])

\* What holds as long as the goroutines have not overlapped.
StoreInv ==
    OneAtWork /\ ScheduledIsLoaded /\ LoadedIsIndexed /\ TemplateIsCached /\ ServiceIsReady
        /\ LoadedOnce

\* Types: the provider changes and the poller takes it up.
LEMMA DiscoveryTypesProvider ==
    ASSUME DiscoveryTypes,
           Provide \/ Poll
    PROVE  DiscoveryTypes'
<1> USE DiscoveryAssumption
    DEF DiscoveryTypes, Idle, Begin, Go, Goroutines, Points, PollerPoints, ListenerPoints, StoringPoints, RemovingPoints,
        ResolvingPoints,
        outsideVars, storeVars, serviceVars, indexVars, localVars,
        pollerVars, listenerVars, subjectVars, configVars
<1>1. CASE Provide
  BY <1>1 DEF Provide, DiscoveryTypeOK, Positions, LocalsEnd, Subjects, TagVersions,
        ResolvedConfigs
<1>2. CASE Poll
  BY <1>2 DEF Poll, DiscoveryTypeOK, Positions, LocalsEnd, Subjects, TagVersions,
        ResolvedConfigs
<1> QED BY <1>1, <1>2

\* Types: a service changes and the listener takes it up.
LEMMA DiscoveryTypesService ==
    ASSUME DiscoveryTypes,
           NEW s \in Services,
           \/ ChangeTags(s) \/ ServiceFound(s, TRUE) \/ ServiceFound(s, FALSE)
           \/ ServiceGone(s) \/ TagFreshness(s)
    PROVE  DiscoveryTypes'
<1> USE DiscoveryAssumption
    DEF DiscoveryTypes, Idle, Begin, Go, Goroutines, Points, PollerPoints, ListenerPoints, StoringPoints, RemovingPoints,
        ResolvingPoints,
        outsideVars, storeVars, serviceVars, indexVars, localVars,
        pollerVars, listenerVars, subjectVars, configVars
<1>1. CASE ChangeTags(s)
  BY <1>1 DEF ChangeTags, DiscoveryTypeOK, Positions, LocalsEnd, Subjects, TagVersions,
        ResolvedConfigs
<1>2. CASE ServiceFound(s, TRUE)
  BY <1>2 DEF ServiceFound, DiscoveryTypeOK, Positions, LocalsEnd, Subjects, TagVersions,
        ResolvedConfigs
<1>3. CASE ServiceFound(s, FALSE)
  BY <1>3 DEF ServiceFound, DiscoveryTypeOK, Positions, LocalsEnd, Subjects, TagVersions,
        ResolvedConfigs
<1>4. CASE ServiceGone(s)
  BY <1>4 DEF ServiceGone, DiscoveryTypeOK, Positions, LocalsEnd, Subjects, TagVersions,
        ResolvedConfigs
<1>5. CASE TagFreshness(s)
  BY <1>5 DEF TagFreshness, DiscoveryTypeOK, Positions, LocalsEnd, Subjects, TagVersions,
        ResolvedConfigs
<1> QED BY <1>1, <1>2, <1>3, <1>4, <1>5

\* Types: the poller's own operations.
LEMMA DiscoveryTypesPoller ==
    ASSUME DiscoveryTypes,
           PollerStep
    PROVE  DiscoveryTypes'
<1> USE DiscoveryAssumption
    DEF DiscoveryTypes, Idle, Begin, Go, Goroutines, Points, PollerPoints, ListenerPoints, StoringPoints, RemovingPoints,
        ResolvingPoints,
        outsideVars, storeVars, serviceVars, indexVars, localVars,
        pollerVars, listenerVars, subjectVars, configVars
<1>1. ASSUME NEW t \in Templates, GetConfigsForTemplate(t) PROVE DiscoveryTypes'
  BY <1>1 DEF GetConfigsForTemplate, DiscoveryTypeOK, Positions, LocalsEnd, Subjects, TagVersions,
        ResolvedConfigs
<1>2. ASSUME NEW t \in Templates, SetTemplate(t) PROVE DiscoveryTypes'
  BY <1>2 DEF SetTemplate, DiscoveryTypeOK, Positions, LocalsEnd, Subjects, TagVersions,
        ResolvedConfigs
<1>3. CASE RemoveConfigsForTemplate
  <2> USE <1>3 DEF RemoveConfigsForTemplate
  <2>1. DiscoveryTypeOK'
    BY DEF DiscoveryTypeOK, Subjects, TagVersions, ResolvedConfigs
  <2>2. Positions' /\ LocalsEnd' /\ Subjects'
    BY DEF DiscoveryTypeOK, Positions, LocalsEnd, Subjects
  <2> QED BY <2>1, <2>2
<1>4. CASE DelTemplate
  BY <1>4 DEF DelTemplate, DiscoveryTypeOK, Positions, LocalsEnd, Subjects, TagVersions,
        ResolvedConfigs
<1>5. CASE GetServices
  BY <1>5 DEF GetServices, DiscoveryTypeOK, Positions, LocalsEnd, Subjects, TagVersions,
        ResolvedConfigs
<1>6. ASSUME NEW s \in Services, GetService(s) PROVE DiscoveryTypes'
  <2> USE <1>6 DEF GetService
  <2>1. DiscoveryTypeOK'
    <3>1. CASE s \in entityToService
      <4> DEFINE b == s \in serviceReady
      <4>3. b \in BOOLEAN /\ ready' = [ready EXCEPT !["poller"] = b]
        BY <3>1
      <4> HIDE DEF b
      <4>1. ready' \in [Goroutines -> BOOLEAN]
        BY <4>3 DEF DiscoveryTypeOK
      <4>2. svc' \in [Goroutines -> Services \cup {"none"}] /\ pc' \in [Goroutines -> Points]
        BY <3>1 DEF DiscoveryTypeOK
      <4> QED BY <3>1, <4>1, <4>2 DEF DiscoveryTypeOK
    <3>2. CASE s \notin entityToService
      BY <3>2 DEF DiscoveryTypeOK
    <3> QED BY <3>1, <3>2
  <2>2. Positions' /\ LocalsEnd' /\ Subjects'
    BY DEF DiscoveryTypeOK, Positions, LocalsEnd, Subjects
  <2> QED BY <2>1, <2>2
<1>7. CASE ResolvedAll
  BY <1>7 DEF ResolvedAll, DiscoveryTypeOK, Positions, LocalsEnd, Subjects, TagVersions,
        ResolvedConfigs
<1>8. CASE PollEnds
  BY <1>8 DEF PollEnds, DiscoveryTypeOK, Positions, LocalsEnd, Subjects, TagVersions,
        ResolvedConfigs
<1> QED BY <1>1, <1>2, <1>3, <1>4, <1>5, <1>6, <1>7, <1>8 DEF PollerStep

\* Types: the listener's own operations.
LEMMA DiscoveryTypesListener ==
    ASSUME DiscoveryTypes,
           ListenerStep
    PROVE  DiscoveryTypes'
<1> USE DiscoveryAssumption
    DEF DiscoveryTypes, Idle, Begin, Go, Goroutines, Points, PollerPoints, ListenerPoints, StoringPoints, RemovingPoints,
        ResolvingPoints,
        outsideVars, storeVars, serviceVars, indexVars, localVars,
        pollerVars, listenerVars, subjectVars, configVars
<1>1. CASE SetService
  BY <1>1 DEF SetService, DiscoveryTypeOK, Positions, LocalsEnd, Subjects, TagVersions,
        ResolvedConfigs
<1>2. CASE SetServiceHash
  BY <1>2 DEF SetServiceHash, DiscoveryTypeOK, Positions, LocalsEnd, Subjects, TagVersions,
        ResolvedConfigs
<1>3. CASE SetADID
  BY <1>3 DEF SetADID, DiscoveryTypeOK, Positions, LocalsEnd, Subjects, TagVersions,
        ResolvedConfigs
<1>4. CASE GetTemplates
  BY <1>4 DEF GetTemplates, DiscoveryTypeOK, Positions, LocalsEnd, Subjects, TagVersions,
        ResolvedConfigs
<1>5. ASSUME NEW t \in Templates, NextMatch(t) PROVE DiscoveryTypes'
  BY <1>5 DEF NextMatch, DiscoveryTypeOK, Positions, LocalsEnd, Subjects, TagVersions,
        ResolvedConfigs
<1>6. CASE NewServiceEnds
  BY <1>6 DEF NewServiceEnds, DiscoveryTypeOK, Positions, LocalsEnd, Subjects, TagVersions,
        ResolvedConfigs
<1>7. CASE RemoveService
  BY <1>7 DEF RemoveService, DiscoveryTypeOK, Positions, LocalsEnd, Subjects, TagVersions,
        ResolvedConfigs
<1>8. CASE GetConfigsForService
  BY <1>8 DEF GetConfigsForService, DiscoveryTypeOK, Positions, LocalsEnd, Subjects, TagVersions,
        ResolvedConfigs
<1>9. CASE RemoveConfigsForService
  BY <1>9 DEF RemoveConfigsForService, DiscoveryTypeOK, Positions, LocalsEnd, Subjects, TagVersions,
        ResolvedConfigs
<1>10. CASE RemoveTagsHash
  <2> USE <1>10 DEF RemoveTagsHash
  <2>1. DiscoveryTypeOK'
    BY DEF DiscoveryTypeOK
  <2>2. Positions' /\ LocalsEnd' /\ Subjects'
    BY DEF DiscoveryTypeOK, Positions, LocalsEnd, Subjects
  <2> QED BY <2>1, <2>2
<1> QED BY <1>1, <1>2, <1>3, <1>4, <1>5, <1>6, <1>7, <1>8, <1>9, <1>10 DEF ListenerStep

\* Types: the operations both goroutines execute.
LEMMA DiscoveryTypesCommon ==
    ASSUME DiscoveryTypes,
           NEW g \in Goroutines,
           CommonStep(g)
    PROVE  DiscoveryTypes'
<1> USE DiscoveryAssumption
    DEF DiscoveryTypes, Idle, Begin, Go, Goroutines, Points, PollerPoints, ListenerPoints, StoringPoints, RemovingPoints,
        ResolvingPoints,
        outsideVars, storeVars, serviceVars, indexVars, localVars,
        pollerVars, listenerVars, subjectVars, configVars
<1>1. CASE ResolveTemplate(g)
  BY <1>1 DEF ResolveTemplate, DiscoveryTypeOK, Positions, LocalsEnd, Subjects, TagVersions,
        ResolvedConfigs
<1>2. CASE SetLoaded(g)
  BY <1>2 DEF SetLoaded, DiscoveryTypeOK, Positions, LocalsEnd, Subjects, TagVersions,
        ResolvedConfigs
<1>3. CASE AddConfigForService(g)
  BY <1>3 DEF AddConfigForService, DiscoveryTypeOK, Positions, LocalsEnd, Subjects, TagVersions,
        ResolvedConfigs
<1>4. CASE AddConfigForTemplate(g)
  BY <1>4 DEF AddConfigForTemplate, DiscoveryTypeOK, Positions, LocalsEnd, Subjects, TagVersions,
        ResolvedConfigs
<1>5. CASE SetTagsHash(g)
  BY <1>5 DEF SetTagsHash, DiscoveryTypeOK, Positions, LocalsEnd, Subjects, TagVersions,
        ResolvedConfigs
<1>6. CASE Schedule(g)
  BY <1>6 DEF Schedule, DiscoveryTypeOK, Positions, LocalsEnd, Subjects, TagVersions,
        ResolvedConfigs
<1>7. CASE Unschedule(g)
  BY <1>7 DEF Unschedule, DiscoveryTypeOK, Positions, LocalsEnd, Subjects, TagVersions,
        ResolvedConfigs
<1>8. CASE RemoveLoaded(g)
  BY <1>8 DEF RemoveLoaded, DiscoveryTypeOK, Positions, LocalsEnd, Subjects, TagVersions,
        ResolvedConfigs
<1> QED BY <1>1, <1>2, <1>3, <1>4, <1>5, <1>6, <1>7, <1>8 DEF CommonStep

\* Only the poller changes the cache and what it has polled.
LEMMA CacheStep ==
    ASSUME DiscoveryTypes, CacheFollowsPolled, DiscoveryNext
    PROVE  CacheFollowsPolled'
<1> USE DEF DiscoveryTypes, Idle, Begin, Go, Goroutines, Points, PollerPoints, ListenerPoints, StoringPoints, RemovingPoints,
        ResolvingPoints,
        outsideVars, storeVars, serviceVars, indexVars, localVars,
        pollerVars, listenerVars, subjectVars, configVars
<1>1. CASE PollerStep
  BY <1>1 DEF PollerStep, GetConfigsForTemplate, SetTemplate, RemoveConfigsForTemplate,
        DelTemplate, GetServices, GetService, ResolvedAll, PollEnds, DiscoveryTypeOK,
        CacheFollowsPolled, Positions
<1>2. CASE ListenerStep
  BY <1>2 DEF ListenerStep, SetService, SetServiceHash, SetADID, GetTemplates, NextMatch,
        NewServiceEnds, RemoveService, GetConfigsForService, RemoveConfigsForService,
        RemoveTagsHash, DiscoveryTypeOK, CacheFollowsPolled, Positions
<1>3. ASSUME NEW g \in Goroutines, CommonStep(g)
      PROVE  CacheFollowsPolled'
  BY <1>3 DEF CommonStep, ResolveTemplate, SetLoaded, AddConfigForService, AddConfigForTemplate,
        SetTagsHash, Schedule, Unschedule, RemoveLoaded, DiscoveryTypeOK, CacheFollowsPolled,
        Positions
<1>4. CASE Provide \/ Poll
  BY <1>4 DEF Provide, Poll, DiscoveryTypeOK, CacheFollowsPolled
<1>5. ASSUME NEW s \in Services,
             \/ ChangeTags(s) \/ ServiceFound(s, TRUE) \/ ServiceFound(s, FALSE)
             \/ ServiceGone(s) \/ TagFreshness(s)
      PROVE  CacheFollowsPolled'
  BY <1>5 DEF ChangeTags, ServiceFound, ServiceGone, TagFreshness, DiscoveryTypeOK,
        CacheFollowsPolled
<1> QED BY <1>1, <1>2, <1>3, <1>4, <1>5 DEF DiscoveryNext

\* The store: the provider changes and the poller takes it up.
LEMMA StoreProvider ==
    ASSUME DiscoveryTypes, DiscoveryTypes', CacheFollowsPolled, ~overlapped => StoreInv, ~overlapped',
           Provide \/ Poll
    PROVE  StoreInv'
<1> USE DEF DiscoveryTypes, Idle, Begin, Go, Goroutines, Points, PollerPoints, ListenerPoints, StoringPoints, RemovingPoints,
        ResolvingPoints,
        StoredPoints, MatchingPoints, outsideVars, storeVars, serviceVars, indexVars, localVars,
        pollerVars, listenerVars, subjectVars, configVars
<1>1. CASE Provide
  <2> USE <1>1 DEF Provide
  <2>1. StoreInv /\ ~overlapped
    OBVIOUS
  <2>2. OneAtWork'
    BY <2>1 DEF StoreInv, OneAtWork, DiscoveryTypeOK
  <2>3. OneAtWork' /\ ScheduledIsLoaded' /\ LoadedIsIndexed'
    BY <2>1, <2>2 DEF StoreInv, OneAtWork, ScheduledIsLoaded, LoadedIsIndexed, TemplateIsCached,
        ServiceIsReady, DiscoveryTypeOK, LocalsEnd, Subjects
  <2>4. TemplateIsCached'
    BY <2>1, <2>2, <2>3 DEF StoreInv, OneAtWork, LoadedIsIndexed, TemplateIsCached, CacheFollowsPolled,
        DiscoveryTypeOK, LocalsEnd, Subjects, Positions
  <2>5. ServiceIsReady'
    BY <2>1, <2>2, <2>3 DEF StoreInv, OneAtWork, LoadedIsIndexed, ServiceIsReady, DiscoveryTypeOK, LocalsEnd,
        Subjects, Positions
  <2>6. LoadedOnce'
    BY <2>1, <2>2, <2>3 DEF StoreInv, OneAtWork, LoadedOnce, TemplateIsCached, ServiceIsReady, DiscoveryTypeOK,
        LocalsEnd, Subjects, Positions
  <2> QED BY <2>3, <2>4, <2>5, <2>6 DEF StoreInv
<1>2. CASE Poll
  <2> USE <1>2 DEF Poll
  <2>1. StoreInv /\ ~overlapped
    OBVIOUS
  <2>2. OneAtWork'
    BY <2>1 DEF StoreInv, OneAtWork, DiscoveryTypeOK
  <2>3. OneAtWork' /\ ScheduledIsLoaded' /\ LoadedIsIndexed'
    BY <2>1, <2>2 DEF StoreInv, OneAtWork, ScheduledIsLoaded, LoadedIsIndexed, TemplateIsCached,
        ServiceIsReady, DiscoveryTypeOK, LocalsEnd, Subjects
  <2>4. TemplateIsCached'
    BY <2>1, <2>2, <2>3 DEF StoreInv, OneAtWork, LoadedIsIndexed, TemplateIsCached, CacheFollowsPolled,
        DiscoveryTypeOK, LocalsEnd, Subjects, Positions
  <2>5. ServiceIsReady'
    BY <2>1, <2>2, <2>3 DEF StoreInv, OneAtWork, LoadedIsIndexed, ServiceIsReady, DiscoveryTypeOK, LocalsEnd,
        Subjects, Positions
  <2>6. LoadedOnce'
    BY <2>1, <2>2, <2>3 DEF StoreInv, OneAtWork, LoadedOnce, TemplateIsCached, ServiceIsReady, DiscoveryTypeOK,
        LocalsEnd, Subjects, Positions
  <2> QED BY <2>3, <2>4, <2>5, <2>6 DEF StoreInv
<1> QED BY <1>1, <1>2

\* The store: a service changes and the listener takes it up.
LEMMA StoreService ==
    ASSUME DiscoveryTypes, DiscoveryTypes', CacheFollowsPolled, ~overlapped => StoreInv, ~overlapped',
           NEW s \in Services,
           \/ ChangeTags(s) \/ ServiceFound(s, TRUE) \/ ServiceFound(s, FALSE)
           \/ ServiceGone(s) \/ TagFreshness(s)
    PROVE  StoreInv'
<1> USE DEF DiscoveryTypes, Idle, Begin, Go, Goroutines, Points, PollerPoints, ListenerPoints, StoringPoints, RemovingPoints,
        ResolvingPoints,
        StoredPoints, MatchingPoints, outsideVars, storeVars, serviceVars, indexVars, localVars,
        pollerVars, listenerVars, subjectVars, configVars
<1>1. CASE ChangeTags(s)
  <2> USE <1>1 DEF ChangeTags
  <2>1. StoreInv /\ ~overlapped
    OBVIOUS
  <2>2. OneAtWork'
    BY <2>1 DEF StoreInv, OneAtWork, DiscoveryTypeOK
  <2>3. OneAtWork' /\ ScheduledIsLoaded' /\ LoadedIsIndexed'
    BY <2>1, <2>2 DEF StoreInv, OneAtWork, ScheduledIsLoaded, LoadedIsIndexed, TemplateIsCached,
        ServiceIsReady, DiscoveryTypeOK, LocalsEnd, Subjects
  <2>4. TemplateIsCached'
    BY <2>1, <2>2, <2>3 DEF StoreInv, OneAtWork, LoadedIsIndexed, TemplateIsCached, CacheFollowsPolled,
        DiscoveryTypeOK, LocalsEnd, Subjects, Positions
  <2>5. ServiceIsReady'
    BY <2>1, <2>2, <2>3 DEF StoreInv, OneAtWork, LoadedIsIndexed, ServiceIsReady, DiscoveryTypeOK, LocalsEnd,
        Subjects, Positions
  <2>6. LoadedOnce'
    BY <2>1, <2>2, <2>3 DEF StoreInv, OneAtWork, LoadedOnce, TemplateIsCached, ServiceIsReady, DiscoveryTypeOK,
        LocalsEnd, Subjects, Positions
  <2> QED BY <2>3, <2>4, <2>5, <2>6 DEF StoreInv
<1>2. CASE ServiceFound(s, TRUE)
  <2> USE <1>2 DEF ServiceFound
  <2>1. StoreInv /\ ~overlapped
    OBVIOUS
  <2>2. OneAtWork'
    BY <2>1 DEF StoreInv, OneAtWork, DiscoveryTypeOK
  <2>3. OneAtWork' /\ ScheduledIsLoaded' /\ LoadedIsIndexed'
    BY <2>1, <2>2 DEF StoreInv, OneAtWork, ScheduledIsLoaded, LoadedIsIndexed, TemplateIsCached,
        ServiceIsReady, DiscoveryTypeOK, LocalsEnd, Subjects
  <2>4. TemplateIsCached'
    BY <2>1, <2>2, <2>3 DEF StoreInv, OneAtWork, LoadedIsIndexed, TemplateIsCached, CacheFollowsPolled,
        DiscoveryTypeOK, LocalsEnd, Subjects, Positions
  <2>5. ServiceIsReady'
    BY <2>1, <2>2, <2>3 DEF StoreInv, OneAtWork, LoadedIsIndexed, ServiceIsReady, DiscoveryTypeOK, LocalsEnd,
        Subjects, Positions
  <2>6. LoadedOnce'
    BY <2>1, <2>2, <2>3 DEF StoreInv, OneAtWork, LoadedOnce, TemplateIsCached, ServiceIsReady, DiscoveryTypeOK,
        LocalsEnd, Subjects, Positions
  <2> QED BY <2>3, <2>4, <2>5, <2>6 DEF StoreInv
<1>3. CASE ServiceFound(s, FALSE)
  <2> USE <1>3 DEF ServiceFound
  <2>1. StoreInv /\ ~overlapped
    OBVIOUS
  <2>2. OneAtWork'
    BY <2>1 DEF StoreInv, OneAtWork, DiscoveryTypeOK
  <2>3. OneAtWork' /\ ScheduledIsLoaded' /\ LoadedIsIndexed'
    BY <2>1, <2>2 DEF StoreInv, OneAtWork, ScheduledIsLoaded, LoadedIsIndexed, TemplateIsCached,
        ServiceIsReady, DiscoveryTypeOK, LocalsEnd, Subjects
  <2>4. TemplateIsCached'
    BY <2>1, <2>2, <2>3 DEF StoreInv, OneAtWork, LoadedIsIndexed, TemplateIsCached, CacheFollowsPolled,
        DiscoveryTypeOK, LocalsEnd, Subjects, Positions
  <2>5. ServiceIsReady'
    BY <2>1, <2>2, <2>3 DEF StoreInv, OneAtWork, LoadedIsIndexed, ServiceIsReady, DiscoveryTypeOK, LocalsEnd,
        Subjects, Positions
  <2>6. LoadedOnce'
    BY <2>1, <2>2, <2>3 DEF StoreInv, OneAtWork, LoadedOnce, TemplateIsCached, ServiceIsReady, DiscoveryTypeOK,
        LocalsEnd, Subjects, Positions
  <2> QED BY <2>3, <2>4, <2>5, <2>6 DEF StoreInv
<1>4. CASE ServiceGone(s)
  <2> USE <1>4 DEF ServiceGone
  <2>1. StoreInv /\ ~overlapped
    OBVIOUS
  <2>2. OneAtWork'
    BY <2>1 DEF StoreInv, OneAtWork, DiscoveryTypeOK
  <2>3. OneAtWork' /\ ScheduledIsLoaded' /\ LoadedIsIndexed'
    BY <2>1, <2>2 DEF StoreInv, OneAtWork, ScheduledIsLoaded, LoadedIsIndexed, TemplateIsCached,
        ServiceIsReady, DiscoveryTypeOK, LocalsEnd, Subjects
  <2>4. TemplateIsCached'
    BY <2>1, <2>2, <2>3 DEF StoreInv, OneAtWork, LoadedIsIndexed, TemplateIsCached, CacheFollowsPolled,
        DiscoveryTypeOK, LocalsEnd, Subjects, Positions
  <2>5. ServiceIsReady'
    BY <2>1, <2>2, <2>3 DEF StoreInv, OneAtWork, LoadedIsIndexed, ServiceIsReady, DiscoveryTypeOK, LocalsEnd,
        Subjects, Positions
  <2>6. LoadedOnce'
    BY <2>1, <2>2, <2>3 DEF StoreInv, OneAtWork, LoadedOnce, TemplateIsCached, ServiceIsReady, DiscoveryTypeOK,
        LocalsEnd, Subjects, Positions
  <2> QED BY <2>3, <2>4, <2>5, <2>6 DEF StoreInv
<1>5. CASE TagFreshness(s)
  <2> USE <1>5 DEF TagFreshness
  <2>1. StoreInv /\ ~overlapped
    OBVIOUS
  <2>2. OneAtWork'
    BY <2>1 DEF StoreInv, OneAtWork, DiscoveryTypeOK
  <2>3. OneAtWork' /\ ScheduledIsLoaded' /\ LoadedIsIndexed'
    BY <2>1, <2>2 DEF StoreInv, OneAtWork, ScheduledIsLoaded, LoadedIsIndexed, TemplateIsCached,
        ServiceIsReady, DiscoveryTypeOK, LocalsEnd, Subjects
  <2>4. TemplateIsCached'
    BY <2>1, <2>2, <2>3 DEF StoreInv, OneAtWork, LoadedIsIndexed, TemplateIsCached, CacheFollowsPolled,
        DiscoveryTypeOK, LocalsEnd, Subjects, Positions
  <2>5. ServiceIsReady'
    BY <2>1, <2>2, <2>3 DEF StoreInv, OneAtWork, LoadedIsIndexed, ServiceIsReady, DiscoveryTypeOK, LocalsEnd,
        Subjects, Positions
  <2>6. LoadedOnce'
    BY <2>1, <2>2, <2>3 DEF StoreInv, OneAtWork, LoadedOnce, TemplateIsCached, ServiceIsReady, DiscoveryTypeOK,
        LocalsEnd, Subjects, Positions
  <2> QED BY <2>3, <2>4, <2>5, <2>6 DEF StoreInv
<1> QED BY <1>1, <1>2, <1>3, <1>4, <1>5

\* The store: the poller's own operations.
LEMMA StorePoller ==
    ASSUME DiscoveryTypes, DiscoveryTypes', CacheFollowsPolled, ~overlapped => StoreInv, ~overlapped',
           PollerStep
    PROVE  StoreInv'
<1> USE DEF DiscoveryTypes, Idle, Begin, Go, Goroutines, Points, PollerPoints, ListenerPoints, StoringPoints, RemovingPoints,
        ResolvingPoints,
        StoredPoints, MatchingPoints, outsideVars, storeVars, serviceVars, indexVars, localVars,
        pollerVars, listenerVars, subjectVars, configVars
<1>1. ASSUME NEW t \in Templates, GetConfigsForTemplate(t) PROVE StoreInv'
  <2> USE <1>1 DEF GetConfigsForTemplate
  <2>1. OneAtWork' /\ ScheduledIsLoaded' /\ LoadedIsIndexed'
    BY DEF StoreInv, OneAtWork, ScheduledIsLoaded, LoadedIsIndexed, TemplateIsCached,
        ServiceIsReady, DiscoveryTypeOK, LocalsEnd, Subjects
  <2>2. TemplateIsCached'
    BY <2>1 DEF StoreInv, OneAtWork, LoadedIsIndexed, TemplateIsCached, CacheFollowsPolled,
        DiscoveryTypeOK, LocalsEnd, Subjects, Positions
  <2>3. ServiceIsReady'
    BY <2>1 DEF StoreInv, OneAtWork, LoadedIsIndexed, ServiceIsReady, DiscoveryTypeOK, LocalsEnd,
        Subjects, Positions
  <2>4. LoadedOnce'
    BY <2>1 DEF StoreInv, OneAtWork, LoadedOnce, TemplateIsCached, ServiceIsReady, DiscoveryTypeOK,
        LocalsEnd, Subjects, Positions
  <2> QED BY <2>1, <2>2, <2>3, <2>4 DEF StoreInv
<1>2. ASSUME NEW t \in Templates, SetTemplate(t) PROVE StoreInv'
  <2> USE <1>2 DEF SetTemplate
  <2>1. OneAtWork' /\ ScheduledIsLoaded' /\ LoadedIsIndexed'
    BY DEF StoreInv, OneAtWork, ScheduledIsLoaded, LoadedIsIndexed, TemplateIsCached,
        ServiceIsReady, DiscoveryTypeOK, LocalsEnd, Subjects
  <2>2. TemplateIsCached'
    BY <2>1 DEF StoreInv, OneAtWork, LoadedIsIndexed, TemplateIsCached, CacheFollowsPolled,
        DiscoveryTypeOK, LocalsEnd, Subjects, Positions
  <2>3. ServiceIsReady'
    BY <2>1 DEF StoreInv, OneAtWork, LoadedIsIndexed, ServiceIsReady, DiscoveryTypeOK, LocalsEnd,
        Subjects, Positions
  <2>4. LoadedOnce'
    BY <2>1 DEF StoreInv, OneAtWork, LoadedOnce, TemplateIsCached, ServiceIsReady, DiscoveryTypeOK,
        LocalsEnd, Subjects, Positions
  <2> QED BY <2>1, <2>2, <2>3, <2>4 DEF StoreInv
<1>3. CASE RemoveConfigsForTemplate
  <2> USE <1>3 DEF RemoveConfigsForTemplate
  <2>1. OneAtWork' /\ ScheduledIsLoaded' /\ LoadedIsIndexed'
    BY DEF StoreInv, OneAtWork, ScheduledIsLoaded, LoadedIsIndexed, TemplateIsCached,
        ServiceIsReady, DiscoveryTypeOK, LocalsEnd, Subjects
  <2>2. TemplateIsCached'
    BY <2>1 DEF StoreInv, OneAtWork, LoadedIsIndexed, TemplateIsCached, CacheFollowsPolled,
        DiscoveryTypeOK, LocalsEnd, Subjects, Positions
  <2>3. ServiceIsReady'
    BY <2>1 DEF StoreInv, OneAtWork, LoadedIsIndexed, ServiceIsReady, DiscoveryTypeOK, LocalsEnd,
        Subjects, Positions
  <2>4. LoadedOnce'
    BY <2>1 DEF StoreInv, OneAtWork, LoadedOnce, TemplateIsCached, ServiceIsReady, DiscoveryTypeOK,
        LocalsEnd, Subjects, Positions
  <2> QED BY <2>1, <2>2, <2>3, <2>4 DEF StoreInv
<1>4. CASE DelTemplate
  <2> USE <1>4 DEF DelTemplate
  <2>1. OneAtWork' /\ ScheduledIsLoaded' /\ LoadedIsIndexed'
    BY DEF StoreInv, OneAtWork, ScheduledIsLoaded, LoadedIsIndexed, TemplateIsCached,
        ServiceIsReady, DiscoveryTypeOK, LocalsEnd, Subjects
  <2>2. TemplateIsCached'
    BY <2>1 DEF StoreInv, OneAtWork, LoadedIsIndexed, TemplateIsCached, CacheFollowsPolled,
        DiscoveryTypeOK, LocalsEnd, Subjects, Positions
  <2>3. ServiceIsReady'
    BY <2>1 DEF StoreInv, OneAtWork, LoadedIsIndexed, ServiceIsReady, DiscoveryTypeOK, LocalsEnd,
        Subjects, Positions
  <2>4. LoadedOnce'
    BY <2>1 DEF StoreInv, OneAtWork, LoadedOnce, TemplateIsCached, ServiceIsReady, DiscoveryTypeOK,
        LocalsEnd, Subjects, Positions
  <2> QED BY <2>1, <2>2, <2>3, <2>4 DEF StoreInv
<1>5. CASE GetServices
  <2> USE <1>5 DEF GetServices
  <2>1. OneAtWork' /\ ScheduledIsLoaded' /\ LoadedIsIndexed'
    BY DEF StoreInv, OneAtWork, ScheduledIsLoaded, LoadedIsIndexed, TemplateIsCached,
        ServiceIsReady, DiscoveryTypeOK, LocalsEnd, Subjects
  <2>2. TemplateIsCached'
    BY <2>1 DEF StoreInv, OneAtWork, LoadedIsIndexed, TemplateIsCached, CacheFollowsPolled,
        DiscoveryTypeOK, LocalsEnd, Subjects, Positions
  <2>3. ServiceIsReady'
    BY <2>1 DEF StoreInv, OneAtWork, LoadedIsIndexed, ServiceIsReady, DiscoveryTypeOK, LocalsEnd,
        Subjects, Positions
  <2>4. LoadedOnce'
    BY <2>1 DEF StoreInv, OneAtWork, LoadedOnce, TemplateIsCached, ServiceIsReady, DiscoveryTypeOK,
        LocalsEnd, Subjects, Positions
  <2> QED BY <2>1, <2>2, <2>3, <2>4 DEF StoreInv
<1>6. ASSUME NEW s \in Services, GetService(s) PROVE StoreInv'
  <2> USE <1>6 DEF GetService
  <2>1. OneAtWork' /\ ScheduledIsLoaded' /\ LoadedIsIndexed'
    BY DEF StoreInv, OneAtWork, ScheduledIsLoaded, LoadedIsIndexed, TemplateIsCached,
        ServiceIsReady, DiscoveryTypeOK, LocalsEnd, Subjects
  <2>2. TemplateIsCached'
    BY <2>1 DEF StoreInv, OneAtWork, LoadedIsIndexed, TemplateIsCached, CacheFollowsPolled,
        DiscoveryTypeOK, LocalsEnd, Subjects, Positions
  <2>3. ServiceIsReady'
    BY <2>1 DEF StoreInv, OneAtWork, LoadedIsIndexed, ServiceIsReady, DiscoveryTypeOK, LocalsEnd,
        Subjects, Positions
  <2>4. LoadedOnce'
    BY <2>1 DEF StoreInv, OneAtWork, LoadedOnce, TemplateIsCached, ServiceIsReady, DiscoveryTypeOK,
        LocalsEnd, Subjects, Positions
  <2> QED BY <2>1, <2>2, <2>3, <2>4 DEF StoreInv
<1>7. CASE ResolvedAll
  <2> USE <1>7 DEF ResolvedAll
  <2>1. OneAtWork' /\ ScheduledIsLoaded' /\ LoadedIsIndexed'
    BY DEF StoreInv, OneAtWork, ScheduledIsLoaded, LoadedIsIndexed, TemplateIsCached,
        ServiceIsReady, DiscoveryTypeOK, LocalsEnd, Subjects
  <2>2. TemplateIsCached'
    BY <2>1 DEF StoreInv, OneAtWork, LoadedIsIndexed, TemplateIsCached, CacheFollowsPolled,
        DiscoveryTypeOK, LocalsEnd, Subjects, Positions
  <2>3. ServiceIsReady'
    BY <2>1 DEF StoreInv, OneAtWork, LoadedIsIndexed, ServiceIsReady, DiscoveryTypeOK, LocalsEnd,
        Subjects, Positions
  <2>4. LoadedOnce'
    BY <2>1 DEF StoreInv, OneAtWork, LoadedOnce, TemplateIsCached, ServiceIsReady, DiscoveryTypeOK,
        LocalsEnd, Subjects, Positions
  <2> QED BY <2>1, <2>2, <2>3, <2>4 DEF StoreInv
<1>8. CASE PollEnds
  <2> USE <1>8 DEF PollEnds
  <2>1. OneAtWork' /\ ScheduledIsLoaded' /\ LoadedIsIndexed'
    BY DEF StoreInv, OneAtWork, ScheduledIsLoaded, LoadedIsIndexed, TemplateIsCached,
        ServiceIsReady, DiscoveryTypeOK, LocalsEnd, Subjects
  <2>2. TemplateIsCached'
    BY <2>1 DEF StoreInv, OneAtWork, LoadedIsIndexed, TemplateIsCached, CacheFollowsPolled,
        DiscoveryTypeOK, LocalsEnd, Subjects, Positions
  <2>3. ServiceIsReady'
    BY <2>1 DEF StoreInv, OneAtWork, LoadedIsIndexed, ServiceIsReady, DiscoveryTypeOK, LocalsEnd,
        Subjects, Positions
  <2>4. LoadedOnce'
    BY <2>1 DEF StoreInv, OneAtWork, LoadedOnce, TemplateIsCached, ServiceIsReady, DiscoveryTypeOK,
        LocalsEnd, Subjects, Positions
  <2> QED BY <2>1, <2>2, <2>3, <2>4 DEF StoreInv
<1> QED BY <1>1, <1>2, <1>3, <1>4, <1>5, <1>6, <1>7, <1>8 DEF PollerStep

\* The store: the listener's own operations.
LEMMA StoreListener ==
    ASSUME DiscoveryTypes, DiscoveryTypes', CacheFollowsPolled, ~overlapped => StoreInv, ~overlapped',
           ListenerStep
    PROVE  StoreInv'
<1> USE DEF DiscoveryTypes, Idle, Begin, Go, Goroutines, Points, PollerPoints, ListenerPoints, StoringPoints, RemovingPoints,
        ResolvingPoints,
        StoredPoints, MatchingPoints, outsideVars, storeVars, serviceVars, indexVars, localVars,
        pollerVars, listenerVars, subjectVars, configVars
<1>1. CASE SetService
  <2> USE <1>1 DEF SetService
  <2>1. OneAtWork' /\ ScheduledIsLoaded' /\ LoadedIsIndexed'
    BY DEF StoreInv, OneAtWork, ScheduledIsLoaded, LoadedIsIndexed, TemplateIsCached,
        ServiceIsReady, DiscoveryTypeOK, LocalsEnd, Subjects
  <2>2. TemplateIsCached'
    BY <2>1 DEF StoreInv, OneAtWork, LoadedIsIndexed, TemplateIsCached, CacheFollowsPolled,
        DiscoveryTypeOK, LocalsEnd, Subjects, Positions
  <2>3. ServiceIsReady'
    BY <2>1 DEF StoreInv, OneAtWork, LoadedIsIndexed, ServiceIsReady, DiscoveryTypeOK, LocalsEnd,
        Subjects, Positions
  <2>4. LoadedOnce'
    BY <2>1 DEF StoreInv, OneAtWork, LoadedOnce, TemplateIsCached, ServiceIsReady, DiscoveryTypeOK,
        LocalsEnd, Subjects, Positions
  <2> QED BY <2>1, <2>2, <2>3, <2>4 DEF StoreInv
<1>2. CASE SetServiceHash
  <2> USE <1>2 DEF SetServiceHash
  <2>1. OneAtWork' /\ ScheduledIsLoaded' /\ LoadedIsIndexed'
    BY DEF StoreInv, OneAtWork, ScheduledIsLoaded, LoadedIsIndexed, TemplateIsCached,
        ServiceIsReady, DiscoveryTypeOK, LocalsEnd, Subjects
  <2>2. TemplateIsCached'
    BY <2>1 DEF StoreInv, OneAtWork, LoadedIsIndexed, TemplateIsCached, CacheFollowsPolled,
        DiscoveryTypeOK, LocalsEnd, Subjects, Positions
  <2>3. ServiceIsReady'
    BY <2>1 DEF StoreInv, OneAtWork, LoadedIsIndexed, ServiceIsReady, DiscoveryTypeOK, LocalsEnd,
        Subjects, Positions
  <2>4. LoadedOnce'
    BY <2>1 DEF StoreInv, OneAtWork, LoadedOnce, TemplateIsCached, ServiceIsReady, DiscoveryTypeOK,
        LocalsEnd, Subjects, Positions
  <2> QED BY <2>1, <2>2, <2>3, <2>4 DEF StoreInv
<1>3. CASE SetADID
  <2> USE <1>3 DEF SetADID
  <2>1. OneAtWork' /\ ScheduledIsLoaded' /\ LoadedIsIndexed'
    BY DEF StoreInv, OneAtWork, ScheduledIsLoaded, LoadedIsIndexed, TemplateIsCached,
        ServiceIsReady, DiscoveryTypeOK, LocalsEnd, Subjects
  <2>2. TemplateIsCached'
    BY <2>1 DEF StoreInv, OneAtWork, LoadedIsIndexed, TemplateIsCached, CacheFollowsPolled,
        DiscoveryTypeOK, LocalsEnd, Subjects, Positions
  <2>3. ServiceIsReady'
    BY <2>1 DEF StoreInv, OneAtWork, LoadedIsIndexed, ServiceIsReady, DiscoveryTypeOK, LocalsEnd,
        Subjects, Positions
  <2>4. LoadedOnce'
    BY <2>1 DEF StoreInv, OneAtWork, LoadedOnce, TemplateIsCached, ServiceIsReady, DiscoveryTypeOK,
        LocalsEnd, Subjects, Positions
  <2> QED BY <2>1, <2>2, <2>3, <2>4 DEF StoreInv
<1>4. CASE GetTemplates
  <2> USE <1>4 DEF GetTemplates
  <2>1. OneAtWork' /\ ScheduledIsLoaded' /\ LoadedIsIndexed'
    BY DEF StoreInv, OneAtWork, ScheduledIsLoaded, LoadedIsIndexed, TemplateIsCached,
        ServiceIsReady, DiscoveryTypeOK, LocalsEnd, Subjects
  <2>2. TemplateIsCached'
    BY <2>1 DEF StoreInv, OneAtWork, LoadedIsIndexed, TemplateIsCached, CacheFollowsPolled,
        DiscoveryTypeOK, LocalsEnd, Subjects, Positions
  <2>3. ServiceIsReady'
    BY <2>1 DEF StoreInv, OneAtWork, LoadedIsIndexed, ServiceIsReady, DiscoveryTypeOK, LocalsEnd,
        Subjects, Positions
  <2>4. LoadedOnce'
    BY <2>1 DEF StoreInv, OneAtWork, LoadedOnce, TemplateIsCached, ServiceIsReady, DiscoveryTypeOK,
        LocalsEnd, Subjects, Positions
  <2> QED BY <2>1, <2>2, <2>3, <2>4 DEF StoreInv
<1>5. ASSUME NEW t \in Templates, NextMatch(t) PROVE StoreInv'
  <2> USE <1>5 DEF NextMatch
  <2>1. OneAtWork' /\ ScheduledIsLoaded' /\ LoadedIsIndexed'
    BY DEF StoreInv, OneAtWork, ScheduledIsLoaded, LoadedIsIndexed, TemplateIsCached,
        ServiceIsReady, DiscoveryTypeOK, LocalsEnd, Subjects
  <2>2. TemplateIsCached'
    BY <2>1 DEF StoreInv, OneAtWork, LoadedIsIndexed, TemplateIsCached, CacheFollowsPolled,
        DiscoveryTypeOK, LocalsEnd, Subjects, Positions
  <2>3. ServiceIsReady'
    BY <2>1 DEF StoreInv, OneAtWork, LoadedIsIndexed, ServiceIsReady, DiscoveryTypeOK, LocalsEnd,
        Subjects, Positions
  <2>4. LoadedOnce'
    BY <2>1 DEF StoreInv, OneAtWork, LoadedOnce, TemplateIsCached, ServiceIsReady, DiscoveryTypeOK,
        LocalsEnd, Subjects, Positions
  <2> QED BY <2>1, <2>2, <2>3, <2>4 DEF StoreInv
<1>6. CASE NewServiceEnds
  <2> USE <1>6 DEF NewServiceEnds
  <2>1. OneAtWork' /\ ScheduledIsLoaded' /\ LoadedIsIndexed'
    BY DEF StoreInv, OneAtWork, ScheduledIsLoaded, LoadedIsIndexed, TemplateIsCached,
        ServiceIsReady, DiscoveryTypeOK, LocalsEnd, Subjects
  <2>2. TemplateIsCached'
    BY <2>1 DEF StoreInv, OneAtWork, LoadedIsIndexed, TemplateIsCached, CacheFollowsPolled,
        DiscoveryTypeOK, LocalsEnd, Subjects, Positions
  <2>3. ServiceIsReady'
    BY <2>1 DEF StoreInv, OneAtWork, LoadedIsIndexed, ServiceIsReady, DiscoveryTypeOK, LocalsEnd,
        Subjects, Positions
  <2>4. LoadedOnce'
    BY <2>1 DEF StoreInv, OneAtWork, LoadedOnce, TemplateIsCached, ServiceIsReady, DiscoveryTypeOK,
        LocalsEnd, Subjects, Positions
  <2> QED BY <2>1, <2>2, <2>3, <2>4 DEF StoreInv
<1>7. CASE RemoveService
  <2> USE <1>7 DEF RemoveService
  <2>1. OneAtWork' /\ ScheduledIsLoaded' /\ LoadedIsIndexed'
    BY DEF StoreInv, OneAtWork, ScheduledIsLoaded, LoadedIsIndexed, TemplateIsCached,
        ServiceIsReady, DiscoveryTypeOK, LocalsEnd, Subjects
  <2>2. TemplateIsCached'
    BY <2>1 DEF StoreInv, OneAtWork, LoadedIsIndexed, TemplateIsCached, CacheFollowsPolled,
        DiscoveryTypeOK, LocalsEnd, Subjects, Positions
  <2>3. ServiceIsReady'
    BY <2>1 DEF StoreInv, OneAtWork, LoadedIsIndexed, ServiceIsReady, DiscoveryTypeOK, LocalsEnd,
        Subjects, Positions
  <2>4. LoadedOnce'
    BY <2>1 DEF StoreInv, OneAtWork, LoadedOnce, TemplateIsCached, ServiceIsReady, DiscoveryTypeOK,
        LocalsEnd, Subjects, Positions
  <2> QED BY <2>1, <2>2, <2>3, <2>4 DEF StoreInv
<1>8. CASE GetConfigsForService
  <2> USE <1>8 DEF GetConfigsForService
  <2>1. OneAtWork' /\ ScheduledIsLoaded' /\ LoadedIsIndexed'
    BY DEF StoreInv, OneAtWork, ScheduledIsLoaded, LoadedIsIndexed, TemplateIsCached,
        ServiceIsReady, DiscoveryTypeOK, LocalsEnd, Subjects
  <2>2. TemplateIsCached'
    BY <2>1 DEF StoreInv, OneAtWork, LoadedIsIndexed, TemplateIsCached, CacheFollowsPolled,
        DiscoveryTypeOK, LocalsEnd, Subjects, Positions
  <2>3. ServiceIsReady'
    BY <2>1 DEF StoreInv, OneAtWork, LoadedIsIndexed, ServiceIsReady, DiscoveryTypeOK, LocalsEnd,
        Subjects, Positions
  <2>4. LoadedOnce'
    BY <2>1 DEF StoreInv, OneAtWork, LoadedOnce, TemplateIsCached, ServiceIsReady, DiscoveryTypeOK,
        LocalsEnd, Subjects, Positions
  <2> QED BY <2>1, <2>2, <2>3, <2>4 DEF StoreInv
<1>9. CASE RemoveConfigsForService
  <2> USE <1>9 DEF RemoveConfigsForService
  <2>1. OneAtWork' /\ ScheduledIsLoaded' /\ LoadedIsIndexed'
    BY DEF StoreInv, OneAtWork, ScheduledIsLoaded, LoadedIsIndexed, TemplateIsCached,
        ServiceIsReady, DiscoveryTypeOK, LocalsEnd, Subjects
  <2>2. TemplateIsCached'
    BY <2>1 DEF StoreInv, OneAtWork, LoadedIsIndexed, TemplateIsCached, CacheFollowsPolled,
        DiscoveryTypeOK, LocalsEnd, Subjects, Positions
  <2>3. ServiceIsReady'
    BY <2>1 DEF StoreInv, OneAtWork, LoadedIsIndexed, ServiceIsReady, DiscoveryTypeOK, LocalsEnd,
        Subjects, Positions
  <2>4. LoadedOnce'
    BY <2>1 DEF StoreInv, OneAtWork, LoadedOnce, TemplateIsCached, ServiceIsReady, DiscoveryTypeOK,
        LocalsEnd, Subjects, Positions
  <2> QED BY <2>1, <2>2, <2>3, <2>4 DEF StoreInv
<1>10. CASE RemoveTagsHash
  <2> USE <1>10 DEF RemoveTagsHash
  <2>1. OneAtWork' /\ ScheduledIsLoaded' /\ LoadedIsIndexed'
    BY DEF StoreInv, OneAtWork, ScheduledIsLoaded, LoadedIsIndexed, TemplateIsCached,
        ServiceIsReady, DiscoveryTypeOK, LocalsEnd, Subjects
  <2>2. TemplateIsCached'
    BY <2>1 DEF StoreInv, OneAtWork, LoadedIsIndexed, TemplateIsCached, CacheFollowsPolled,
        DiscoveryTypeOK, LocalsEnd, Subjects, Positions
  <2>3. ServiceIsReady'
    BY <2>1 DEF StoreInv, OneAtWork, LoadedIsIndexed, ServiceIsReady, DiscoveryTypeOK, LocalsEnd,
        Subjects, Positions
  <2>4. LoadedOnce'
    BY <2>1 DEF StoreInv, OneAtWork, LoadedOnce, TemplateIsCached, ServiceIsReady, DiscoveryTypeOK,
        LocalsEnd, Subjects, Positions
  <2> QED BY <2>1, <2>2, <2>3, <2>4 DEF StoreInv
<1> QED BY <1>1, <1>2, <1>3, <1>4, <1>5, <1>6, <1>7, <1>8, <1>9, <1>10 DEF ListenerStep

\* The store: the operations both goroutines execute.
LEMMA StoreCommon ==
    ASSUME DiscoveryTypes, DiscoveryTypes', CacheFollowsPolled, ~overlapped => StoreInv, ~overlapped',
           NEW g \in Goroutines,
           CommonStep(g)
    PROVE  StoreInv'
<1> USE DEF DiscoveryTypes, Idle, Begin, Go, Goroutines, Points, PollerPoints, ListenerPoints, StoringPoints, RemovingPoints,
        ResolvingPoints,
        StoredPoints, MatchingPoints, outsideVars, storeVars, serviceVars, indexVars, localVars,
        pollerVars, listenerVars, subjectVars, configVars
<1>1. CASE ResolveTemplate(g)
  <2> USE <1>1 DEF ResolveTemplate
  <2>1. OneAtWork' /\ ScheduledIsLoaded' /\ LoadedIsIndexed'
    BY DEF StoreInv, OneAtWork, ScheduledIsLoaded, LoadedIsIndexed, TemplateIsCached,
        ServiceIsReady, DiscoveryTypeOK, LocalsEnd, Subjects
  <2>2. TemplateIsCached'
    BY <2>1 DEF StoreInv, OneAtWork, LoadedIsIndexed, TemplateIsCached, CacheFollowsPolled,
        DiscoveryTypeOK, LocalsEnd, Subjects, Positions
  <2>3. ServiceIsReady'
    BY <2>1 DEF StoreInv, OneAtWork, LoadedIsIndexed, ServiceIsReady, DiscoveryTypeOK, LocalsEnd,
        Subjects, Positions
  <2>4. LoadedOnce'
    BY <2>1 DEF StoreInv, OneAtWork, LoadedOnce, TemplateIsCached, ServiceIsReady, DiscoveryTypeOK,
        LocalsEnd, Subjects, Positions
  <2> QED BY <2>1, <2>2, <2>3, <2>4 DEF StoreInv
<1>2. CASE SetLoaded(g)
  <2> USE <1>2 DEF SetLoaded
  <2>1. OneAtWork' /\ ScheduledIsLoaded' /\ LoadedIsIndexed'
    BY DEF StoreInv, OneAtWork, ScheduledIsLoaded, LoadedIsIndexed, TemplateIsCached,
        ServiceIsReady, DiscoveryTypeOK, LocalsEnd, Subjects
  <2>2. TemplateIsCached'
    BY <2>1 DEF StoreInv, OneAtWork, LoadedIsIndexed, TemplateIsCached, CacheFollowsPolled,
        DiscoveryTypeOK, LocalsEnd, Subjects, Positions
  <2>3. ServiceIsReady'
    BY <2>1 DEF StoreInv, OneAtWork, LoadedIsIndexed, ServiceIsReady, DiscoveryTypeOK, LocalsEnd,
        Subjects, Positions
  <2>4. LoadedOnce'
    BY <2>1 DEF StoreInv, OneAtWork, LoadedOnce, TemplateIsCached, ServiceIsReady, DiscoveryTypeOK,
        LocalsEnd, Subjects, Positions
  <2> QED BY <2>1, <2>2, <2>3, <2>4 DEF StoreInv
<1>3. CASE AddConfigForService(g)
  <2> USE <1>3 DEF AddConfigForService
  <2>1. OneAtWork' /\ ScheduledIsLoaded' /\ LoadedIsIndexed'
    BY DEF StoreInv, OneAtWork, ScheduledIsLoaded, LoadedIsIndexed, TemplateIsCached,
        ServiceIsReady, DiscoveryTypeOK, LocalsEnd, Subjects
  <2>2. TemplateIsCached'
    BY <2>1 DEF StoreInv, OneAtWork, LoadedIsIndexed, TemplateIsCached, CacheFollowsPolled,
        DiscoveryTypeOK, LocalsEnd, Subjects, Positions
  <2>3. ServiceIsReady'
    BY <2>1 DEF StoreInv, OneAtWork, LoadedIsIndexed, ServiceIsReady, DiscoveryTypeOK, LocalsEnd,
        Subjects, Positions
  <2>4. LoadedOnce'
    BY <2>1 DEF StoreInv, OneAtWork, LoadedOnce, TemplateIsCached, ServiceIsReady, DiscoveryTypeOK,
        LocalsEnd, Subjects, Positions
  <2> QED BY <2>1, <2>2, <2>3, <2>4 DEF StoreInv
<1>4. CASE AddConfigForTemplate(g)
  <2> USE <1>4 DEF AddConfigForTemplate
  <2>1. OneAtWork' /\ ScheduledIsLoaded' /\ LoadedIsIndexed'
    BY DEF StoreInv, OneAtWork, ScheduledIsLoaded, LoadedIsIndexed, TemplateIsCached,
        ServiceIsReady, DiscoveryTypeOK, LocalsEnd, Subjects
  <2>2. TemplateIsCached'
    BY <2>1 DEF StoreInv, OneAtWork, LoadedIsIndexed, TemplateIsCached, CacheFollowsPolled,
        DiscoveryTypeOK, LocalsEnd, Subjects, Positions
  <2>3. ServiceIsReady'
    BY <2>1 DEF StoreInv, OneAtWork, LoadedIsIndexed, ServiceIsReady, DiscoveryTypeOK, LocalsEnd,
        Subjects, Positions
  <2>4. LoadedOnce'
    BY <2>1 DEF StoreInv, OneAtWork, LoadedOnce, TemplateIsCached, ServiceIsReady, DiscoveryTypeOK,
        LocalsEnd, Subjects, Positions
  <2> QED BY <2>1, <2>2, <2>3, <2>4 DEF StoreInv
<1>5. CASE SetTagsHash(g)
  <2> USE <1>5 DEF SetTagsHash
  <2>1. OneAtWork' /\ ScheduledIsLoaded' /\ LoadedIsIndexed'
    BY DEF StoreInv, OneAtWork, ScheduledIsLoaded, LoadedIsIndexed, TemplateIsCached,
        ServiceIsReady, DiscoveryTypeOK, LocalsEnd, Subjects
  <2>2. TemplateIsCached'
    BY <2>1 DEF StoreInv, OneAtWork, LoadedIsIndexed, TemplateIsCached, CacheFollowsPolled,
        DiscoveryTypeOK, LocalsEnd, Subjects, Positions
  <2>3. ServiceIsReady'
    BY <2>1 DEF StoreInv, OneAtWork, LoadedIsIndexed, ServiceIsReady, DiscoveryTypeOK, LocalsEnd,
        Subjects, Positions
  <2>4. LoadedOnce'
    BY <2>1 DEF StoreInv, OneAtWork, LoadedOnce, TemplateIsCached, ServiceIsReady, DiscoveryTypeOK,
        LocalsEnd, Subjects, Positions
  <2> QED BY <2>1, <2>2, <2>3, <2>4 DEF StoreInv
<1>6. CASE Schedule(g)
  <2> USE <1>6 DEF Schedule
  <2>1. OneAtWork' /\ ScheduledIsLoaded' /\ LoadedIsIndexed'
    BY DEF StoreInv, OneAtWork, ScheduledIsLoaded, LoadedIsIndexed, TemplateIsCached,
        ServiceIsReady, DiscoveryTypeOK, LocalsEnd, Subjects
  <2>2. TemplateIsCached'
    BY <2>1 DEF StoreInv, OneAtWork, LoadedIsIndexed, TemplateIsCached, CacheFollowsPolled,
        DiscoveryTypeOK, LocalsEnd, Subjects, Positions
  <2>3. ServiceIsReady'
    BY <2>1 DEF StoreInv, OneAtWork, LoadedIsIndexed, ServiceIsReady, DiscoveryTypeOK, LocalsEnd,
        Subjects, Positions
  <2>4. LoadedOnce'
    BY <2>1 DEF StoreInv, OneAtWork, LoadedOnce, TemplateIsCached, ServiceIsReady, DiscoveryTypeOK,
        LocalsEnd, Subjects, Positions
  <2> QED BY <2>1, <2>2, <2>3, <2>4 DEF StoreInv
<1>7. CASE Unschedule(g)
  <2> USE <1>7 DEF Unschedule
  <2>1. OneAtWork' /\ ScheduledIsLoaded' /\ LoadedIsIndexed'
    BY DEF StoreInv, OneAtWork, ScheduledIsLoaded, LoadedIsIndexed, TemplateIsCached,
        ServiceIsReady, DiscoveryTypeOK, LocalsEnd, Subjects
  <2>2. TemplateIsCached'
    BY <2>1 DEF StoreInv, OneAtWork, LoadedIsIndexed, TemplateIsCached, CacheFollowsPolled,
        DiscoveryTypeOK, LocalsEnd, Subjects, Positions
  <2>3. ServiceIsReady'
    BY <2>1 DEF StoreInv, OneAtWork, LoadedIsIndexed, ServiceIsReady, DiscoveryTypeOK, LocalsEnd,
        Subjects, Positions
  <2>4. LoadedOnce'
    BY <2>1 DEF StoreInv, OneAtWork, LoadedOnce, TemplateIsCached, ServiceIsReady, DiscoveryTypeOK,
        LocalsEnd, Subjects, Positions
  <2> QED BY <2>1, <2>2, <2>3, <2>4 DEF StoreInv
<1>8. CASE RemoveLoaded(g)
  <2> USE <1>8 DEF RemoveLoaded
  <2>1. OneAtWork' /\ ScheduledIsLoaded' /\ LoadedIsIndexed'
    BY DEF StoreInv, OneAtWork, ScheduledIsLoaded, LoadedIsIndexed, TemplateIsCached,
        ServiceIsReady, DiscoveryTypeOK, LocalsEnd, Subjects
  <2>2. TemplateIsCached'
    BY <2>1 DEF StoreInv, OneAtWork, LoadedIsIndexed, TemplateIsCached, CacheFollowsPolled,
        DiscoveryTypeOK, LocalsEnd, Subjects, Positions
  <2>3. ServiceIsReady'
    BY <2>1 DEF StoreInv, OneAtWork, LoadedIsIndexed, ServiceIsReady, DiscoveryTypeOK, LocalsEnd,
        Subjects, Positions
  <2>4. LoadedOnce'
    BY <2>1 DEF StoreInv, OneAtWork, LoadedOnce, TemplateIsCached, ServiceIsReady, DiscoveryTypeOK,
        LocalsEnd, Subjects, Positions
  <2> QED BY <2>1, <2>2, <2>3, <2>4 DEF StoreInv
<1> QED BY <1>1, <1>2, <1>3, <1>4, <1>5, <1>6, <1>7, <1>8 DEF CommonStep

\* NothingLeft, for any templates, services and changes of the tags: as long as poller and
\* listener have not overlapped, what is scheduled is what is loaded, of cached templates and
\* known services, once for each of their pairs.
THEOREM NothingIsLeftBehind == DiscoverySpec => []NothingLeft
<1> DEFINE Inv == DiscoveryTypes /\ CacheFollowsPolled /\ (~overlapped => StoreInv)
<1>1. DiscoveryInit => Inv
  <2> SUFFICES ASSUME DiscoveryInit
               PROVE  Inv
    OBVIOUS
  <2> USE DiscoveryAssumption DEF DiscoveryInit, Goroutines, Points, PollerPoints, ListenerPoints, StoringPoints, RemovingPoints,
        ResolvingPoints
  <2>1. DiscoveryTypes
    <3>1. DiscoveryTypeOK
      <4>1. tagger \in [Services -> TagVersions]
        BY DEF TagVersions
      <4> QED BY <4>1 DEF DiscoveryTypeOK
    <3>2. Positions /\ LocalsEnd /\ Subjects
      BY DEF Positions, LocalsEnd, Subjects
    <3> QED BY <3>1, <3>2 DEF DiscoveryTypes
  <2>2. CacheFollowsPolled
    BY DEF CacheFollowsPolled
  <2>3. StoreInv
    BY DEF StoreInv, OneAtWork, ScheduledIsLoaded, LoadedIsIndexed, TemplateIsCached,
        ServiceIsReady, LoadedOnce, Idle, StoredPoints, MatchingPoints
  <2> QED BY <2>1, <2>2, <2>3
<1>2. Inv /\ [DiscoveryNext]_adVars => Inv'
  <2>1. CASE UNCHANGED adVars
    BY <2>1 DEF adVars, DiscoveryTypes, DiscoveryTypeOK, Positions, LocalsEnd, Subjects,
        CacheFollowsPolled, StoreInv, OneAtWork, ScheduledIsLoaded, LoadedIsIndexed,
        TemplateIsCached, ServiceIsReady, LoadedOnce, Idle,
        outsideVars, storeVars, serviceVars, indexVars, localVars,
        pollerVars, listenerVars, subjectVars, configVars
  <2>2. ASSUME Inv, DiscoveryNext
        PROVE  Inv'
    <3>1. DiscoveryTypes'
      BY <2>2, DiscoveryTypesProvider, DiscoveryTypesService, DiscoveryTypesPoller,
         DiscoveryTypesListener, DiscoveryTypesCommon DEF DiscoveryNext
    <3>2. CacheFollowsPolled'
      BY <2>2, CacheStep
    <3>3. ASSUME ~overlapped'
          PROVE  StoreInv'
      BY <2>2, <3>1, <3>3, StoreProvider, StoreService, StorePoller, StoreListener, StoreCommon
         DEF DiscoveryNext
    <3> QED BY <3>1, <3>2, <3>3
  <2> QED BY <2>1, <2>2
<1>3. Inv => NothingLeft
  BY DEF NothingLeft, Quiet, Idle, DiscoveryTypes, DiscoveryTypeOK, LocalsEnd, StoreInv,
        ScheduledIsLoaded, TemplateIsCached, ServiceIsReady, LoadedOnce, Goroutines, Points, PollerPoints, ListenerPoints, StoringPoints, RemovingPoints,
        ResolvingPoints
<1> QED BY <1>1, <1>2, <1>3, PTL DEF DiscoverySpec
===============================================================================
