------------------------- MODULE AudioEngineProofs -------------------------
(***************************************************************************)
(* Theorems about AudioEngine, for every number of streams, generations,   *)
(* frames and blocks.                                                      *)
(***************************************************************************)
EXTENDS AudioEngineRefinement, SequenceTheorems, TLAPS

(* Types of the values the actions build. *)

LEMMA IdTypes == 0 \in StreamId /\ Stream \subseteq StreamId
BY EngineAssumption DEF StreamId, Stream

LEMMA SilenceType == Silence \in Playback
BY IdTypes DEF Silence, Playback, Frame

LEMMA NoMarkerType == NoMarker \in Marker
BY IdTypes DEF NoMarker, Marker, Frame

LEMMA NoSourceType == NoSource \in Source
BY IdTypes DEF NoSource, Source, NoFrame, Frame

LEMMA NewSourceType ==
  ASSUME NEW s \in StreamId, NEW f \in Frame
  PROVE  NewSource(s, f) \in Source
BY NoSourceType DEF NewSource, Source, NoFrame, Frame

\* Dropping stale blocks leaves a queue of blocks, no longer than before.
LEMMA DropStaleType ==
  ASSUME QueueType, NEW gen, DropStaleBlocks(gen)
  PROVE  QueueType'
<1>1. PICK n \in 0..Len(blocks) : /\ blocks' = SubSeq(blocks, n + 1, Len(blocks))
                                  /\ frontSeen' = (frontSeen /\ n = 0)
  BY DEF DropStaleBlocks
<1>2. blocks \in Seq(Block) /\ Len(blocks) \in Nat /\ Len(blocks) <= Capacity
  BY DEF QueueType
<1>3. \A i \in (n + 1)..Len(blocks) : blocks[i] \in Block
  BY <1>2, ElementOfSeq
<1>4. /\ SubSeq(blocks, n + 1, Len(blocks)) \in Seq(Block)
      /\ Len(SubSeq(blocks, n + 1, Len(blocks)))
           = IF n + 1 <= Len(blocks) THEN Len(blocks) - (n + 1) + 1 ELSE 0
  BY <1>2, <1>3, SubSeqProperties
<1>5. frontSeen' \in BOOLEAN
  BY <1>1
<1>6. Len(blocks') <= Capacity
  BY <1>1, <1>2, <1>4, EngineAssumption
<1> QED BY <1>1, <1>4, <1>5, <1>6 DEF QueueType

\* Sending a command leaves a sequence of commands.
LEMMA SendType ==
  ASSUME commands \in Seq(Command),
         NEW kind \in {"Start", "Queue", "ClearQueued", "Seek", "Advanced", "Stop"},
         NEW stream \in StreamId, NEW gen \in Nat, NEW frame \in Frame,
         Send(kind, stream, gen, frame)
  PROVE  commands' \in Seq(Command)
<1>1. [kind |-> kind, stream |-> stream, gen |-> gen, frame |-> frame] \in Command
  BY DEF Command
<1> QED BY <1>1 DEF Send

-----------------------------------------------------------------------------
(* Type correctness: one lemma per thread. *)

LEMMA InitType == Init => TypeOK
<1> SUFFICES ASSUME Init PROVE TypeOK
  OBVIOUS
<1> USE IdTypes DEF Init
<1>1. UiType
  BY SilenceType DEF UiType, Frame
<1>2. ByteType
  BY DEF ByteType
<1>3. ChannelType
  BY EmptySeq DEF ChannelType
<1>4. DecoderType
  BY NoSourceType, NoMarkerType DEF DecoderType
<1>5. QueueType
  <2>1. blocks \in Seq(Block) /\ Len(blocks) = 0
    BY EmptySeq
  <2>2. 0 <= Capacity
    BY EngineAssumption
  <2> QED BY <2>1, <2>2 DEF QueueType
<1>6. CallbackType
  BY SilenceType DEF CallbackType, Sound, Frame
<1> QED BY <1>1, <1>2, <1>3, <1>4, <1>5, <1>6 DEF TypeOK

\* What an action leaves alone keeps its type.
LEMMA SameType ==
  /\ UiType /\ UNCHANGED uiVars => UiType'
  /\ ByteType /\ UNCHANGED byteVars => ByteType'
  /\ ChannelType /\ UNCHANGED <<commands, events>> => ChannelType'
  /\ DecoderType /\ UNCHANGED decVars => DecoderType'
  /\ QueueType /\ UNCHANGED queueVars => QueueType'
  /\ CallbackType /\ UNCHANGED callbackVars => CallbackType'
<1>1. UiType /\ UNCHANGED uiVars => UiType'
  BY DEF uiVars, UiType
<1>2. ByteType /\ UNCHANGED byteVars => ByteType'
  BY DEF byteVars, ByteType
<1>3. ChannelType /\ UNCHANGED <<commands, events>> => ChannelType'
  BY DEF ChannelType
<1>4. DecoderType /\ UNCHANGED decVars => DecoderType'
  BY DEF decVars, DecoderType
<1>5. QueueType /\ UNCHANGED queueVars => QueueType'
  BY DEF queueVars, QueueType
<1>6. CallbackType /\ UNCHANGED callbackVars => CallbackType'
  BY DEF callbackVars, CallbackType
<1> QED BY <1>1, <1>2, <1>3, <1>4, <1>5, <1>6

\* What the UI thread may change: its own variables, the bytes, commands,
\* events and the front of the queue.
LEMMA CallType == ASSUME TypeOK, Call PROVE TypeOK'
<1> USE EngineAssumption, IdTypes, SameType
<1>0. /\ UiType /\ ByteType /\ ChannelType /\ DecoderType /\ QueueType /\ CallbackType
      /\ currentId \in StreamId /\ queuedId \in StreamId /\ lastId \in StreamId
      /\ generation \in Nat /\ generation + 1 \in Nat /\ shownFrame \in Frame
      /\ commands \in Seq(Command)
  BY DEF TypeOK, UiType, ChannelType
<1>n. lastId < MaxStream => lastId + 1 \in StreamId
  BY <1>0 DEF StreamId
<1>t. \A f \in Targets : f \in Frame
  BY DEF Frame
<1>1. ASSUME NEW f \in Targets, BeginStream(f) PROVE TypeOK'
  <2>1. UiType'
    BY <1>0, <1>n, <1>1 DEF BeginStream, NewGeneration, StartDevice, UiType, Frame
  <2>2. ChannelType'
    BY <1>0, <1>n, <1>t, <1>1, SendType DEF BeginStream, NewGeneration, ChannelType
  <2>3. QueueType'
    BY <1>0, <1>1, DropStaleType DEF BeginStream, StartDevice
  <2> QED BY <1>0, <1>1, <2>1, <2>2, <2>3 DEF BeginStream, TypeOK
<1>2. ASSUME NEW n \in 0..MaxFrames, AttachSource(n) PROVE TypeOK'
  <2>1. ByteType'
    <3>1. currentId \in Stream /\ n \in Nat
      BY <1>0, <1>2 DEF AttachSource, StreamId, Stream
    <3> QED BY <1>0, <1>2, <3>1 DEF AttachSource, ByteType
  <2>2. ChannelType'
    BY <1>0, <1>2, SendType DEF AttachSource, ChannelType
  <2> QED BY <1>0, <1>2, <2>1, <2>2 DEF AttachSource, TypeOK
<1>3. CASE QueueStream
  <2>1. UiType'
    BY <1>0, <1>n, <1>3 DEF QueueStream, UiType
  <2>2. ChannelType'
    <3> DEFINE clear == [kind |-> "ClearQueued", stream |-> queuedId, gen |-> 0, frame |-> 0]
               queue == [kind |-> "Queue", stream |-> lastId + 1, gen |-> 0, frame |-> 0]
               cleared == IF queuedId = 0 THEN <<>> ELSE <<clear>>
    <3>1. clear \in Command /\ queue \in Command
      BY <1>0, <1>n, <1>3 DEF Command, Frame, QueueStream
    <3>2. cleared \in Seq(Command) /\ <<queue>> \in Seq(Command)
      BY <3>1, EmptySeq
    <3>3. commands' = commands \o cleared \o <<queue>> /\ events' = events
      BY <1>3 DEF QueueStream
    <3> QED BY <1>0, <3>2, <3>3, ConcatProperties DEF ChannelType
  <2> QED BY <1>0, <1>3, <2>1, <2>2 DEF QueueStream, TypeOK
<1>4. CASE ClearQueued
  <2>1. UiType'
    BY <1>0, <1>4 DEF ClearQueued, UiType
  <2>2. ChannelType'
    BY <1>0, <1>4, SendType DEF ClearQueued, ChannelType, Frame
  <2> QED BY <1>0, <1>4, <2>1, <2>2 DEF ClearQueued, TypeOK
<1>5. CASE PlayQueuedNow
  <2>1. UiType'
    BY <1>0, <1>5 DEF PlayQueuedNow, NewGeneration, StartDevice, UiType, Frame
  <2>2. ChannelType'
    BY <1>0, <1>5, SendType DEF PlayQueuedNow, NewGeneration, ChannelType, Frame
  <2>3. QueueType'
    BY <1>0, <1>5, DropStaleType DEF PlayQueuedNow, StartDevice
  <2> QED BY <1>0, <1>5, <2>1, <2>2, <2>3 DEF PlayQueuedNow, TypeOK
<1>6. CASE Pause \/ Resume
  <2>1. UiType'
    BY <1>0, <1>6 DEF Pause, Resume, UiType
  <2>2. QueueType'
    BY <1>0, <1>6, DropStaleType DEF Pause, Resume
  <2> QED BY <1>0, <1>6, <2>1, <2>2 DEF Pause, Resume, TypeOK
<1>7. CASE Stop
  <2>1. UiType'
    BY <1>0, <1>7 DEF Stop, StopEngine, NewGeneration, UiType, Frame
  <2>2. ChannelType'
    BY <1>0, <1>7, SendType DEF Stop, StopEngine, ChannelType, Frame
  <2>3. QueueType'
    BY <1>0, <1>7, DropStaleType DEF Stop, StopEngine
  <2> QED BY <1>0, <1>7, <2>1, <2>2, <2>3 DEF Stop, StopEngine, TypeOK
<1>8. ASSUME NEW f \in Targets, Seek(f) PROVE TypeOK'
  <2>1. UiType'
    BY <1>0, <1>8 DEF Seek, NewGeneration, UiType, Frame
  <2>2. ChannelType'
    BY <1>0, <1>8, SendType DEF Seek, NewGeneration, ChannelType, Frame
  <2>3. QueueType'
    BY <1>0, <1>8, DropStaleType DEF Seek
  <2> QED BY <1>0, <1>8, <2>1, <2>2, <2>3 DEF Seek, TypeOK
<1>9. CASE PositionSeconds
  <2>1. published.frame \in Frame
    BY <1>0 DEF CallbackType, Playback
  <2>2. UiType'
    BY <1>0, <1>9, <2>1 DEF PositionSeconds, UiType
  <2> QED BY <1>0, <1>9, <2>2 DEF PositionSeconds, TypeOK
<1> QED BY <1>1, <1>2, <1>3, <1>4, <1>5, <1>6, <1>7, <1>8, <1>9 DEF Call

LEMMA ArriveType == ASSUME TypeOK, Arrive PROVE TypeOK'
<1>1. PICK s \in Stream : AppendData(s) \/ FinishData(s)
  BY DEF Arrive
<1>2. ByteType'
  <2>1. CASE AppendData(s)
    <3>1. available[s] + 1 \in Nat /\ available \in [Stream -> Nat]
      BY DEF TypeOK, ByteType
    <3> QED BY <2>1, <3>1 DEF TypeOK, ByteType, AppendData
  <2>2. CASE FinishData(s)
    BY <2>2 DEF TypeOK, ByteType, FinishData
  <2> QED BY <1>1, <2>1, <2>2
<1> QED BY <1>1, <1>2, SameType DEF AppendData, FinishData, TypeOK

LEMMA PollType == ASSUME TypeOK, PollRead \/ Poll PROVE TypeOK'
<1> USE EngineAssumption, IdTypes, SilenceType, SameType
<1>0. /\ UiType /\ ByteType /\ ChannelType /\ DecoderType /\ QueueType /\ CallbackType
      /\ queuedId \in StreamId /\ generation \in Nat /\ generation + 1 \in Nat
      /\ commands \in Seq(Command) /\ <<>> \in Seq(Event)
      /\ snapshot.frame \in Frame /\ published \in Playback
  BY EmptySeq DEF TypeOK, UiType, ChannelType, Playback, CallbackType
<1>1. CASE PollRead
  <2>1. UiType'
    BY <1>0, <1>1 DEF PollRead, UiType
  <2> QED BY <1>0, <1>1, <2>1 DEF PollRead, TypeOK
<1>2. CASE PollUndecodable
  <2>1. UiType'
    BY <1>0, <1>2 DEF PollUndecodable, StopEngine, NewGeneration, UiType, Frame
  <2>2. ChannelType'
    BY <1>0, <1>2, SendType DEF PollUndecodable, StopEngine, ChannelType, Frame
  <2>3. QueueType'
    BY <1>0, <1>2, DropStaleType DEF PollUndecodable, StopEngine
  <2> QED BY <1>0, <1>2, <2>1, <2>2, <2>3 DEF PollUndecodable, StopEngine, TypeOK
<1>3. /\ QueuedAfterEvents \in StreamId /\ QueuedFormatAfterEvents \in BOOLEAN
      /\ CurrentFormatAfterEvents \in BOOLEAN
  <2>1. QueuedAfterEvents \in StreamId
    BY <1>0 DEF QueuedAfterEvents
  <2> QED BY <2>1 DEF QueuedFormatAfterEvents, CurrentFormatAfterEvents
<1>4. CASE PollNothingPlayed
  <2>1. UiType'
    BY <1>0, <1>3, <1>4 DEF PollNothingPlayed, EventsHandled, EventsTaken, QueuedKept, UiType
  <2>2. ChannelType'
    BY <1>0, <1>4 DEF PollNothingPlayed, EventsHandled, EventsTaken, ChannelType
  <2> QED BY <1>0, <1>4, <2>1, <2>2 DEF PollNothingPlayed, EventsHandled, EventsTaken, TypeOK
<1>5. CASE PollCurrent
  <2>1. UiType'
    BY <1>0, <1>3, <1>5 DEF PollCurrent, EventsHandled, EventsTaken, QueuedKept, UiType
  <2>2. ChannelType'
    BY <1>0, <1>5 DEF PollCurrent, EventsHandled, EventsTaken, ChannelType
  <2> QED BY <1>0, <1>5, <2>1, <2>2 DEF PollCurrent, EventsHandled, EventsTaken, TypeOK
<1>6. CASE PollAdvanced
  <2>1. UiType'
    BY <1>0, <1>3, <1>6 DEF PollAdvanced, EventsHandled, EventsTaken, UiType
  <2>2. ChannelType'
    BY <1>0, <1>6, SendType DEF PollAdvanced, EventsHandled, EventsTaken, ChannelType, Frame
  <2> QED BY <1>0, <1>6, <2>1, <2>2 DEF PollAdvanced, EventsHandled, EventsTaken, TypeOK
<1>7. CASE PollCleared
  <2>1. UiType'
    BY <1>0, <1>3, <1>7 DEF PollCleared, EventsHandled, EventsTaken, QueuedKept, UiType
  <2>2. ChannelType'
    BY <1>0, <1>7 DEF PollCleared, EventsHandled, EventsTaken, ChannelType
  <2> QED BY <1>0, <1>7, <2>1, <2>2 DEF PollCleared, EventsHandled, EventsTaken, TypeOK
<1> QED BY <1>1, <1>2, <1>4, <1>5, <1>6, <1>7 DEF Poll

LEMMA ApplyType == ASSUME TypeOK, ApplyCommand PROVE TypeOK'
<1> USE IdTypes, SameType, NoSourceType, NoMarkerType
<1>0. /\ UiType /\ ByteType /\ ChannelType /\ DecoderType /\ QueueType /\ CallbackType
      /\ decCurrent \in Source /\ chainedFrom \in Source /\ marker \in Marker
  BY DEF TypeOK, DecoderType
<1>1. ASSUME NEW kind, Apply(kind)
      PROVE  /\ ChannelType' /\ Head(commands).stream \in StreamId
             /\ Head(commands).gen \in Nat /\ Head(commands).frame \in Frame
             /\ UiType' /\ ByteType' /\ QueueType' /\ CallbackType'
  <2>1. Head(commands) \in Command /\ Tail(commands) \in Seq(Command)
    BY <1>0, <1>1, HeadTailProperties DEF Apply, ChannelType
  <2>2. ChannelType'
    BY <1>0, <1>1, <2>1 DEF Apply, ChannelType
  <2> QED BY <1>0, <1>1, <2>1, <2>2 DEF Apply, Command
<1>2. CASE ApplyStart
  <2>1. DecoderType'
    BY <1>1, <1>2, NewSourceType DEF ApplyStart, DecoderType
  <2> QED BY <1>1, <1>2, <2>1 DEF ApplyStart, TypeOK
<1>3. CASE ApplyQueue
  <2>1. DecoderType'
    BY <1>0, <1>1, <1>3 DEF ApplyQueue, DecoderType
  <2> QED BY <1>1, <1>3, <2>1 DEF ApplyQueue, TypeOK
<1>4. CASE ApplyClearQueued
  <2>1. [stream |-> Head(commands).stream, frame |-> 0] \in Marker
    BY <1>1, <1>4 DEF ApplyClearQueued, Marker, Frame
  <2>2. DecoderType'
    BY <1>0, <1>4, <2>1 DEF ApplyClearQueued, DecoderType
  <2> QED BY <1>1, <1>4, <2>2 DEF ApplyClearQueued, TypeOK
<1>5. CASE ApplySeek
  <2> DEFINE c == Head(commands)
             undo == chainedFrom.stream # 0 /\ chainedFrom.stream = c.stream
             source == IF undo THEN chainedFrom ELSE decCurrent
  <2>1. source \in Source /\ decCurrent.stream \in StreamId
    BY <1>0 DEF Source
  <2>2. c.frame \in Frame /\ c.gen \in Nat
    BY <1>1, <1>5 DEF ApplySeek
  <2>3. [source EXCEPT !.seekTo = c.frame, !.atEnd = FALSE] \in Source
    BY ONLY <2>1, <2>2 DEF Source
  <2>4. CASE UNCHANGED decVars
    BY <1>0, <1>1, <1>5, <2>4 DEF ApplySeek, TypeOK
  <2>5. CASE /\ decQueued' = (IF undo THEN decCurrent.stream ELSE decQueued)
             /\ decGeneration' = c.gen
             /\ decCurrent' = [source EXCEPT !.seekTo = c.frame, !.atEnd = FALSE]
             /\ chainedFrom' = NoSource /\ marker' = NoMarker /\ decEnded' = FALSE
    <3>1. decQueued' \in StreamId
      BY <1>0, <2>1, <2>5 DEF DecoderType
    <3>2. DecoderType'
      BY <2>2, <2>3, <2>5, <3>1 DEF DecoderType
    <3> QED BY <1>1, <1>5, <3>2 DEF ApplySeek, TypeOK
  <2> QED BY <1>5, <2>4, <2>5 DEF ApplySeek
<1>6. CASE ApplyAdvanced
  <2>1. DecoderType'
    BY <1>0, <1>6 DEF ApplyAdvanced, DecoderType
  <2> QED BY <1>1, <1>6, <2>1 DEF ApplyAdvanced, TypeOK
<1>7. CASE ApplyStop
  <2>1. DecoderType'
    BY <1>0, <1>7 DEF ApplyStop, DecoderType
  <2> QED BY <1>1, <1>7, <2>1 DEF ApplyStop, TypeOK
<1> QED BY <1>2, <1>3, <1>4, <1>5, <1>6, <1>7 DEF ApplyCommand

LEMMA StepType == ASSUME TypeOK, Step PROVE TypeOK'
<1> USE IdTypes, SameType, NoSourceType, NoMarkerType
<1>0. /\ UiType /\ ByteType /\ ChannelType /\ DecoderType /\ QueueType /\ CallbackType
      /\ decCurrent \in Source /\ chainedFrom \in Source /\ marker \in Marker
      /\ decGeneration \in Nat /\ decQueued \in StreamId
      /\ decCurrent.stream \in StreamId /\ decCurrent.nextFrame \in Frame
      /\ marker.frame \in Frame /\ marker.stream \in StreamId
      /\ events \in Seq(Event) /\ commands \in Seq(Command)
      /\ blocks \in Seq(Block) /\ Len(blocks) \in Nat
  BY DEF TypeOK, DecoderType, Source, Marker, ChannelType, QueueType
<1>s. ASSUME Stepping, ChannelType', DecoderType', QueueType' PROVE TypeOK'
  BY <1>0, <1>s DEF Stepping, TypeOK
<1>p. ASSUME NEW block \in Block, HasSpace, Push(block), UNCHANGED frontSeen
      PROVE  QueueType'
  <2>1. Append(blocks, block) \in Seq(Block) /\ Len(Append(blocks, block)) = Len(blocks) + 1
    BY <1>0
  <2> QED BY <1>0, <1>p, <2>1, EngineAssumption DEF HasSpace, Push, QueueType
<1>e. ASSUME NEW kind \in {"Opened", "OpenFailed"}, NEW s \in Stream
      PROVE  Append(events, [kind |-> kind, stream |-> s]) \in Seq(Event)
  BY <1>0 DEF Event
<1>m. \A s \in StreamId : s # 0 => s \in Stream
  BY EngineAssumption DEF StreamId, Stream
<1>1. CASE WriteMarker
  <2>1. [gen |-> decGeneration, stream |-> marker.stream, frame |-> marker.frame,
         count |-> 0, end |-> TRUE] \in Block
    BY <1>0, <1>m, <1>1 DEF WriteMarker, Block
  <2>2. QueueType'
    BY <1>p, <1>1, <2>1 DEF WriteMarker, Stepping
  <2>3. DecoderType'
    BY <1>0, <1>1 DEF WriteMarker, DecoderType
  <2>4. ChannelType' /\ Stepping
    BY <1>0, <1>1 DEF WriteMarker, Stepping, ChannelType
  <2> QED BY <1>s, <2>2, <2>3, <2>4
<1>2. CASE Open
  <2>1. Stepping /\ QueueType' /\ decCurrent.stream \in Stream
    BY <1>0, <1>m, <1>2 DEF Open, Working, Stepping, queueVars
  <2>2. ChannelType'
    BY <1>0, <1>2, <1>e, <2>1 DEF Open, ChannelType, Working, Stepping
  <2>3. decCurrent' \in Source
    BY <1>0, <1>2 DEF Open, Source
  <2>4. DecoderType'
    BY <1>0, <1>2, <2>3 DEF Open, DecoderType
  <2> QED BY <1>s, <2>1, <2>2, <2>4
<1>3. CASE Recover
  <2>1. Stepping /\ QueueType' /\ ChannelType'
    BY <1>0, <1>3 DEF Recover, Working, Stepping, queueVars
  <2>2. decCurrent' \in Source
    BY <1>0, <1>3 DEF Recover, Source
  <2>3. DecoderType'
    BY <1>0, <1>3, <2>2 DEF Recover, DecoderType
  <2> QED BY <1>s, <2>1, <2>3
<1>4. CASE SeekSource
  <2>1. Stepping /\ QueueType' /\ ChannelType'
    BY <1>0, <1>4 DEF SeekSource, Interrupted, Ready, Working, Stepping, queueVars
  <2>2. decCurrent' \in Source
    <3>1. CASE Interrupted
      BY <1>0, <3>1 DEF Interrupted, Source
    <3>2. ASSUME NEW failed \in BOOLEAN,
                 decCurrent' = [decCurrent EXCEPT !.seekTo = NoFrame,
                                  !.nextFrame = decCurrent.seekTo, !.atEnd = failed]
          PROVE  decCurrent' \in Source
      <4>1. decCurrent.seekTo \in Frame
        BY <1>0, <1>4 DEF SeekSource, Source
      <4> QED BY ONLY <1>0, <3>2, <4>1 DEF Source
    <3> QED BY <1>4, <3>1, <3>2 DEF SeekSource
  <2>3. DecoderType'
    BY <1>0, <1>4, <2>2 DEF SeekSource, DecoderType
  <2> QED BY <1>s, <2>1, <2>3
<1>5. CASE DecodeBlock
  <2> DEFINE block(n) == [gen |-> decGeneration, stream |-> decCurrent.stream,
                          frame |-> decCurrent.nextFrame, count |-> n, end |-> FALSE]
  <2>1. /\ Stepping /\ ChannelType' /\ UNCHANGED frontSeen /\ HasSpace
        /\ decCurrent.stream \in Stream
    BY <1>0, <1>m, <1>5 DEF DecodeBlock, Ready, Working, Stepping
  <2>3. QueueType' /\ decCurrent' \in Source
    <3>1. CASE Interrupted
      BY <1>0, <2>1, <3>1 DEF Interrupted, Source, queueVars
    <3>2. ASSUME NEW n \in 0..BlockFrames, NEW last \in BOOLEAN,
                 UNCHANGED blocks \/ Push(block(n)),
                 decCurrent' = [decCurrent EXCEPT !.nextFrame = @ + n, !.atEnd = last]
          PROVE  QueueType' /\ decCurrent' \in Source
      <4>1. n \in Nat
        BY <3>2, EngineAssumption
      <4>2. block(n) \in Block
        BY <1>0, <2>1, <4>1 DEF Block
      <4>3. decCurrent.nextFrame + n \in Frame
        BY <1>0, <4>1 DEF Frame
      <4>4. decCurrent' \in Source
        BY ONLY <1>0, <3>2, <4>3 DEF Source
      <4>5. CASE UNCHANGED blocks
        BY <1>0, <2>1, <4>4, <4>5 DEF queueVars
      <4>6. CASE Push(block(n))
        <5> HIDE DEF block
        <5> QED BY <1>p, <2>1, <4>2, <4>4, <4>6
      <4> QED BY <3>2, <4>5, <4>6
    <3>3. \/ Interrupted
          \/ \E n \in 0..BlockFrames, last \in BOOLEAN :
               /\ UNCHANGED blocks \/ Push(block(n))
               /\ decCurrent' = [decCurrent EXCEPT !.nextFrame = @ + n, !.atEnd = last]
      BY <1>5 DEF DecodeBlock
    <3> HIDE DEF block
    <3> QED BY <3>1, <3>2, <3>3
  <2>4. DecoderType'
    BY <1>0, <1>5, <2>3 DEF DecodeBlock, DecoderType
  <2> QED BY <1>s, <2>1, <2>3, <2>4
<1>6. CASE Chain
  <2>1. Stepping /\ QueueType' /\ decQueued \in Stream
    BY <1>0, <1>m, <1>6 DEF Chain, MayChain, AtEnd, Ready, Working, Stepping, queueVars
  <2>2. ChannelType'
    BY <1>0, <1>6, <1>e, <2>1 DEF Chain, AtEnd, Ready, Working, Stepping, ChannelType
  <2>3. [NewSource(decQueued, 0) EXCEPT !.opened = TRUE] \in Source
    <3>1. NewSource(decQueued, 0) \in Source
      BY <1>0, NewSourceType DEF Frame
    <3>2. ASSUME NEW x \in Source PROVE [x EXCEPT !.opened = TRUE] \in Source
      BY <3>2 DEF Source
    <3> QED BY <3>1, <3>2
  <2>4. DecoderType'
    BY <1>0, <1>6, <2>3 DEF Chain, DecoderType
  <2> QED BY <1>s, <2>1, <2>2, <2>4
<1>7. CASE EndStream
  <2>1. Stepping /\ QueueType' /\ ChannelType'
    BY <1>0, <1>7 DEF EndStream, AtEnd, Ready, Working, Stepping, queueVars
  <2>2. marker' \in Marker
    BY <1>0, <1>7 DEF EndStream, Marker
  <2>3. DecoderType'
    BY <1>0, <1>7, <2>2 DEF EndStream, DecoderType
  <2> QED BY <1>s, <2>1, <2>3
<1> QED BY <1>1, <1>2, <1>3, <1>4, <1>5, <1>6, <1>7 DEF Step

LEMMA PlayType == ASSUME TypeOK, Play PROVE TypeOK'
<1> USE SameType
<1>0. /\ UiType /\ ByteType /\ ChannelType /\ DecoderType /\ QueueType /\ CallbackType
      /\ generation \in Nat /\ playing \in Playback /\ frontOffset \in Nat
      /\ Offset \in Nat
  BY DEF TypeOK, UiType, CallbackType, Offset
<1>c. ASSUME InCallback, QueueType', CallbackType' PROVE TypeOK'
  BY <1>0, <1>c DEF InCallback, TypeOK
<1>1. ASSUME blocks # <<>>
      PROVE  /\ blocks[1] \in Block
             /\ Tail(blocks) \in Seq(Block) /\ Len(Tail(blocks)) <= Capacity
  <2>1. blocks \in Seq(Block) /\ Len(blocks) \in Nat \ {0} /\ Len(blocks) <= Capacity
    BY <1>0, <1>1, EmptySeq DEF QueueType
  <2>2. Tail(blocks) \in Seq(Block) /\ Len(Tail(blocks)) = Len(blocks) - 1
    BY <1>1, <2>1, HeadTailProperties
  <2> QED BY <2>1, <2>2, ElementOfSeq, EngineAssumption
<1>2. CASE CallbackStart
  <2>1. CallbackType' /\ QueueType' /\ InCallback
    BY <1>0, <1>2 DEF CallbackStart, CallbackType
  <2> QED BY <1>c, <2>1
<1>3. CASE DropOlder
  <2>1. CallbackType' /\ QueueType' /\ InCallback
    BY <1>0, <1>1, <1>3 DEF DropOlder, PopFront, QueueType
  <2> QED BY <1>c, <2>1
<1>4. CASE Refuse
  <2>1. [playing EXCEPT !.ended = TRUE] \in Playback
    BY <1>0 DEF Playback
  <2>2. CallbackType'
    BY <1>0, <1>4, <2>1 DEF Refuse, CallbackType
  <2>3. QueueType' /\ InCallback
    BY <1>0, <1>4 DEF Refuse, QueueType
  <2> QED BY <1>c, <2>2, <2>3
<1>5. CASE PlayBlock
  <2> DEFINE block == blocks[1]
  <2>1. PICK upTo \in Offset..block.count :
          /\ playing' = [gen |-> block.gen, stream |-> block.stream,
                         frame |-> block.frame + upTo,
                         ended |-> upTo = block.count /\ block.end]
          /\ frontOffset' = upTo
          /\ IF upTo = block.count THEN PopFront ELSE frontSeen' = TRUE /\ UNCHANGED blocks
          /\ heard' = IF upTo = Offset THEN heard
                      ELSE [gen |-> block.gen, stream |-> block.stream,
                            from |-> block.frame + Offset, to |-> block.frame + upTo]
          /\ callback' \in {"running", "ending"}
    BY <1>5 DEF PlayBlock
  <2>2. /\ blocks # <<>> /\ block \in Block /\ upTo \in Nat
        /\ UNCHANGED <<callbackGen, published>> /\ InCallback
    BY <1>0, <1>1, <1>5 DEF PlayBlock, Block
  <2>3. QueueType'
    BY <1>0, <1>1, <2>1, <2>2 DEF PopFront, QueueType
  <2>4. playing' \in Playback
    BY <2>1, <2>2, IdTypes DEF Block, Playback, Frame
  <2>5. heard' \in Sound
    BY <1>0, <2>1, <2>2, IdTypes DEF Block, Sound, Frame, CallbackType
  <2>6. CallbackType'
    BY <1>0, <2>1, <2>2, <2>4, <2>5 DEF CallbackType
  <2> QED BY <1>c, <2>2, <2>3, <2>6
<1>6. CASE CallbackEnd
  <2>1. CallbackType' /\ QueueType' /\ InCallback
    BY <1>0, <1>6 DEF CallbackEnd, CallbackType
  <2> QED BY <1>c, <2>1
<1> QED BY <1>2, <1>3, <1>4, <1>5, <1>6 DEF Play

LEMMA TypeKept == TypeOK /\ [Next]_vars => TypeOK'
<1>1. ASSUME TypeOK, UNCHANGED vars PROVE TypeOK'
  BY <1>1, SameType DEF TypeOK, vars
<1> QED
  BY <1>1, CallType, ArriveType, PollType, ApplyType, StepType, PlayType DEF Next

\* Every variable keeps its type, and the decoder never writes into a full
\* block queue (BlockQueue::back).
THEOREM TypeCorrect == Spec => []TypeOK
BY InitType, TypeKept, PTL DEF Spec

-----------------------------------------------------------------------------
(* What the UI thread tells the others agrees with what it knows.  The     *)
(* argument needs the type invariant only for the order of the ids.        *)

LEMMA UiConsistentStep == ASSUME TypeOK, UiConsistent, [Next]_vars PROVE UiConsistent'
<1>0. /\ currentId \in StreamId /\ queuedId \in StreamId /\ lastId \in StreamId
      /\ device \in BOOLEAN
      /\ state \in {"Stopped", "Buffering", "Playing", "Paused"}
  BY DEF TypeOK, UiType
<1> USE <1>0, EngineAssumption DEF UiConsistent, StreamId
<1>1. ASSUME NEW f \in Targets, BeginStream(f) PROVE UiConsistent'
  BY <1>1 DEF BeginStream, StartDevice
<1>2. ASSUME NEW n \in 0..MaxFrames, AttachSource(n) PROVE UiConsistent'
  BY <1>2 DEF AttachSource, uiVars
<1>3. CASE QueueStream
  BY <1>3 DEF QueueStream
<1>4. CASE ClearQueued
  BY <1>4 DEF ClearQueued
<1>5. CASE PlayQueuedNow
  BY <1>5 DEF PlayQueuedNow, StartDevice
<1>6. CASE Pause \/ Resume
  BY <1>6 DEF Pause, Resume
<1>7. CASE Stop
  BY <1>7 DEF Stop, StopEngine
<1>8. ASSUME NEW f \in Targets, Seek(f) PROVE UiConsistent'
  BY <1>8 DEF Seek
<1>9. CASE PositionSeconds
  BY <1>9 DEF PositionSeconds
<1>10. CASE Arrive
  BY <1>10 DEF Arrive, AppendData, FinishData, uiVars
<1>11. CASE PollRead
  BY <1>11 DEF PollRead
<1>12. CASE PollUndecodable
  BY <1>12 DEF PollUndecodable, StopEngine
<1>13. CASE PollNothingPlayed
  BY <1>13 DEF PollNothingPlayed, EventsHandled, EventsTaken, QueuedKept, QueuedAfterEvents
<1>14. CASE PollCurrent
  BY <1>14 DEF PollCurrent, EventsHandled, EventsTaken, QueuedKept, QueuedAfterEvents
<1>15. CASE PollAdvanced
  BY <1>15 DEF PollAdvanced, EventsHandled, EventsTaken, QueuedAfterEvents
<1>16. CASE PollCleared
  BY <1>16 DEF PollCleared, EventsHandled, EventsTaken, QueuedKept, QueuedAfterEvents
<1>17. CASE ApplyCommand
  BY <1>17 DEF ApplyCommand, ApplyStart, ApplyQueue, ApplyClearQueued, ApplySeek,
     ApplyAdvanced, ApplyStop, Apply, uiVars
<1>18. CASE Step
  <2>1. Stepping
    <3>1. CASE DecodeBlock
      BY <3>1 DEF DecodeBlock, Ready, Working
    <3>2. CASE WriteMarker \/ Open \/ Recover \/ SeekSource \/ Chain \/ EndStream
      BY <3>2 DEF WriteMarker, Open, Recover, SeekSource, Chain, EndStream, AtEnd, Ready, Working
    <3> QED BY <1>18, <3>1, <3>2 DEF Step
  <2> QED BY <2>1 DEF Stepping, uiVars
<1>19. CASE Play
  BY <1>19 DEF Play, CallbackStart, DropOlder, Refuse, PlayBlock, CallbackEnd, InCallback, uiVars
<1>20. CASE UNCHANGED vars
  BY <1>20 DEF vars, uiVars
<1> QED BY <1>1, <1>2, <1>3, <1>4, <1>5, <1>6, <1>7, <1>8, <1>9, <1>10, <1>11, <1>12, <1>13,
           <1>14, <1>15, <1>16, <1>17, <1>18, <1>19, <1>20 DEF Next, Call, Poll

\* allowedNext is the queued stream, a queued stream is younger than the
\* current one, and the device runs exactly while the state says so.
THEOREM UiConsistency == Spec => []UiConsistent
<1>1. Init => UiConsistent
  BY DEF Init, UiConsistent
<1>2. TypeOK /\ UiConsistent /\ [Next]_vars => UiConsistent'
  BY UiConsistentStep
<1> QED BY <1>1, <1>2, TypeCorrect, PTL DEF Spec

-----------------------------------------------------------------------------
(* The order of generations.  GenerationsInOrder is inductive given the    *)
(* types; it falls into what is queued for the callback, what is asked of  *)
(* the decoder, and where the three threads are.                           *)

BlocksInOrder ==
  /\ \A i, j \in 1..Len(blocks) : i <= j => blocks[i].gen <= blocks[j].gen
  /\ \A i \in 1..Len(blocks) : playing.gen <= blocks[i].gen /\ blocks[i].gen <= decGeneration

IsRequest(c) == c.kind \in {"Start", "Seek"}

RequestsInOrder ==
  \A i \in 1..Len(commands) : IsRequest(commands[i]) =>
    /\ decGeneration <= commands[i].gen /\ commands[i].gen <= generation
    /\ \A j \in 1..i : IsRequest(commands[j]) => commands[j].gen <= commands[i].gen

ThreadsInOrder ==
  published.gen <= playing.gen /\ playing.gen <= decGeneration /\ decGeneration <= generation

LEMMA OrderParts ==
  GenerationsInOrder <=> BlocksInOrder /\ RequestsInOrder /\ ThreadsInOrder
BY DEF GenerationsInOrder, BlocksInOrder, RequestsInOrder, ThreadsInOrder, IsRequest

LEMMA OrderTypes ==
  ASSUME TypeOK
  PROVE  /\ generation \in Nat /\ decGeneration \in Nat
         /\ playing.gen \in Nat /\ published.gen \in Nat
         /\ blocks \in Seq(Block) /\ Len(blocks) \in Nat
         /\ \A i \in 1..Len(blocks) : blocks[i].gen \in Nat
         /\ commands \in Seq(Command) /\ Len(commands) \in Nat
         /\ \A i \in 1..Len(commands) : commands[i].gen \in Nat
<1>1. blocks \in Seq(Block) /\ commands \in Seq(Command)
  BY DEF TypeOK, QueueType, ChannelType
<1>2. \A i \in 1..Len(blocks) : blocks[i] \in Block
  BY <1>1, ElementOfSeq
<1>3. \A i \in 1..Len(commands) : commands[i] \in Command
  BY <1>1, ElementOfSeq
<1>4. /\ \A i \in 1..Len(blocks) : blocks[i].gen \in Nat
      /\ \A i \in 1..Len(commands) : commands[i].gen \in Nat
  BY <1>2, <1>3 DEF Block, Command
<1>5. /\ generation \in Nat /\ decGeneration \in Nat
      /\ playing.gen \in Nat /\ published.gen \in Nat
  BY DEF TypeOK, UiType, DecoderType, CallbackType, Playback
<1> QED BY <1>1, <1>4, <1>5

\* Blocks leave the queue at the front, which keeps the others in order.
LEMMA FrontLeaves ==
  ASSUME TypeOK, BlocksInOrder, UNCHANGED <<playing, decGeneration>>,
         NEW n \in 0..Len(blocks), blocks' = SubSeq(blocks, n + 1, Len(blocks))
  PROVE  BlocksInOrder'
<1>1. blocks \in Seq(Block) /\ Len(blocks) \in Nat
  BY OrderTypes
<1>2. \A i \in (n + 1)..Len(blocks) : blocks[i] \in Block
  BY <1>1, ElementOfSeq
<1>3. /\ Len(blocks') = Len(blocks) - n
      /\ \A i \in 1..Len(blocks') : blocks'[i] = blocks[i + n] /\ i + n \in 1..Len(blocks)
  BY <1>1, <1>2, SubSeqProperties
<1>4. \A i, j \in 1..Len(blocks') : i <= j => blocks'[i].gen <= blocks'[j].gen
  <2> TAKE i, j \in 1..Len(blocks')
  <2>1. i + n \in 1..Len(blocks) /\ j + n \in 1..Len(blocks) /\ (i <= j => i + n <= j + n)
    BY <1>1, <1>3
  <2> QED BY <1>3, <2>1 DEF BlocksInOrder
<1>5. \A i \in 1..Len(blocks') : playing.gen <= blocks'[i].gen /\ blocks'[i].gen <= decGeneration
  BY <1>3 DEF BlocksInOrder
<1> QED BY <1>4, <1>5 DEF BlocksInOrder

\* A callback that is done with the front block leaves the rest in order.
LEMMA FrontPopped ==
  ASSUME TypeOK, BlocksInOrder, UNCHANGED decGeneration, blocks # <<>>,
         blocks' = Tail(blocks), playing'.gen \in {playing.gen, blocks[1].gen}
  PROVE  BlocksInOrder'
<1>1. blocks \in Seq(Block) /\ Len(blocks) \in Nat \ {0}
  BY OrderTypes, EmptySeq
<1>2. /\ Len(blocks') = Len(blocks) - 1
      /\ \A i \in 1..Len(blocks') : blocks'[i] = blocks[i + 1] /\ i + 1 \in 1..Len(blocks)
  BY <1>1, HeadTailProperties
<1>3. 1 \in 1..Len(blocks)
  BY <1>1
<1> QED BY <1>1, <1>2, <1>3 DEF BlocksInOrder

\* A request that the UI sends has the generation it has just reached.
LEMMA RequestSent ==
  ASSUME TypeOK, RequestsInOrder, ThreadsInOrder, UNCHANGED decGeneration,
         generation' \in {generation, generation + 1},
         NEW more \in Seq(Command), commands' = commands \o more,
         \A i \in 1..Len(more) : IsRequest(more[i]) => more[i].gen = generation'
  PROVE  RequestsInOrder'
<1>1. /\ Len(commands') = Len(commands) + Len(more)
      /\ \A i \in 1..Len(commands) : commands'[i] = commands[i]
      /\ \A i \in 1..Len(commands') :
           i > Len(commands) => /\ commands'[i] = more[i - Len(commands)]
                                /\ i - Len(commands) \in 1..Len(more)
  BY OrderTypes, ConcatProperties, LenProperties
<1>2. generation <= generation' /\ decGeneration <= generation'
  BY OrderTypes DEF ThreadsInOrder
<1>3. \A i \in 1..Len(commands') : IsRequest(commands'[i]) =>
        decGeneration <= commands'[i].gen /\ commands'[i].gen <= generation'
  <2> TAKE i \in 1..Len(commands')
  <2>1. CASE i <= Len(commands)
    BY <1>1, <1>2, <2>1, OrderTypes DEF RequestsInOrder
  <2>2. CASE i > Len(commands)
    BY <1>1, <1>2, <2>2, OrderTypes
  <2> QED BY <2>1, <2>2, OrderTypes, <1>1
<1>4. ASSUME NEW i \in 1..Len(commands'), NEW j \in 1..i,
             IsRequest(commands'[i]), IsRequest(commands'[j])
      PROVE  commands'[j].gen <= commands'[i].gen
  <2>0. Len(commands) \in Nat /\ Len(more) \in Nat /\ j \in 1..Len(commands')
    BY <1>1, OrderTypes, LenProperties
  <2>1. CASE i <= Len(commands)
    BY <1>1, <1>4, <2>0, <2>1 DEF RequestsInOrder
  <2>2. CASE i > Len(commands)
    <3>1. commands'[i].gen = generation'
      BY <1>1, <1>4, <2>2
    <3> QED BY <1>3, <1>4, <2>0, <3>1
  <2> QED BY <2>0, <2>1, <2>2
<1> QED BY <1>3, <1>4 DEF RequestsInOrder

\* The UI sends requests in the order of their generations, and may drop
\* blocks from the front.
LEMMA UiKeepsOrder ==
  ASSUME TypeOK, GenerationsInOrder,
         UNCHANGED <<decGeneration, playing, published>>,
         UNCHANGED blocks \/ (\E gen : DropStaleBlocks(gen)),
         generation' \in {generation, generation + 1},
         RequestsInOrder'
  PROVE  GenerationsInOrder'
<1>1. BlocksInOrder /\ ThreadsInOrder
  BY OrderParts
<1>2. BlocksInOrder'
  <2>1. CASE UNCHANGED blocks
    BY <1>1, <2>1 DEF BlocksInOrder
  <2>2. ASSUME NEW gen, DropStaleBlocks(gen) PROVE BlocksInOrder'
    <3>1. PICK n \in 0..Len(blocks) : blocks' = SubSeq(blocks, n + 1, Len(blocks))
      BY <2>2 DEF DropStaleBlocks
    <3> QED BY <1>1, <3>1, FrontLeaves
  <2> QED BY <2>1, <2>2
<1>3. ThreadsInOrder'
  BY <1>1, OrderTypes DEF ThreadsInOrder
<1>4. GenerationsInOrder' <=> BlocksInOrder' /\ RequestsInOrder' /\ ThreadsInOrder'
  BY DEF GenerationsInOrder, BlocksInOrder, RequestsInOrder, ThreadsInOrder, IsRequest
<1> QED BY <1>2, <1>3, <1>4

\* One command sent: a request of the generation just reached, or no request.
LEMMA SendInOrder ==
  ASSUME TypeOK, GenerationsInOrder, UNCHANGED decGeneration,
         generation' \in {generation, generation + 1},
         NEW kind \in {"Start", "Queue", "ClearQueued", "Seek", "Advanced", "Stop"},
         NEW stream \in StreamId, NEW gen \in Nat, NEW frame \in Frame,
         Send(kind, stream, gen, frame),
         kind \in {"Start", "Seek"} => gen = generation'
  PROVE  RequestsInOrder'
<1> DEFINE c == [kind |-> kind, stream |-> stream, gen |-> gen, frame |-> frame]
<1>1. c \in Command /\ (IsRequest(c) => c.gen = generation')
  BY DEF Command, IsRequest
<1>2. commands' = Append(commands, c)
  BY DEF Send
<1> HIDE DEF c
<1>3. commands \in Seq(Command)
  BY OrderTypes
<1>4. <<c>> \in Seq(Command) /\ Len(<<c>>) = 1 /\ <<c>>[1] = c
  BY <1>1
<1>5. commands' = commands \o <<c>>
  BY <1>1, <1>2, <1>3, AppendIsConcat
<1>6. \A i \in 1..Len(<<c>>) : IsRequest(<<c>>[i]) => <<c>>[i].gen = generation'
  BY <1>1, <1>4
<1> QED BY <1>4, <1>5, <1>6, RequestSent, OrderParts

\* What no thread's order depends on.
LEMMA SameOrder ==
  ASSUME GenerationsInOrder,
         UNCHANGED <<blocks, commands, decGeneration, playing, published, generation>>
  PROVE  GenerationsInOrder'
BY DEF GenerationsInOrder

LEMMA CallOrder == ASSUME TypeOK, GenerationsInOrder, Call PROVE GenerationsInOrder'
<1> USE IdTypes
<1>0. /\ currentId \in StreamId /\ queuedId \in StreamId /\ lastId \in StreamId
      /\ generation \in Nat /\ generation + 1 \in Nat /\ shownFrame \in Frame
      /\ 0 \in Frame /\ 0 \in Nat /\ commands \in Seq(Command)
  BY OrderTypes DEF TypeOK, UiType, Frame
<1>n. lastId < MaxStream => lastId + 1 \in StreamId
  BY <1>0, EngineAssumption DEF StreamId
<1>t. \A f \in Targets : f \in Frame
  BY EngineAssumption DEF Frame
<1>s. ASSUME UNCHANGED <<commands, decGeneration, generation>> PROVE RequestsInOrder'
  BY <1>s, OrderParts DEF RequestsInOrder
<1> DEFINE Fixed == UNCHANGED <<decGeneration, playing, published>>
           Front == UNCHANGED blocks \/ (\E gen : DropStaleBlocks(gen))
<1>1. ASSUME NEW f \in Targets, BeginStream(f) PROVE GenerationsInOrder'
  <2>1. Fixed /\ Front /\ generation' = generation + 1
    BY <1>1 DEF BeginStream, NewGeneration, StartDevice, decVars, callbackVars, queueVars
  <2>2. Send("Start", currentId', generation', f) /\ currentId' \in StreamId
    BY <1>n, <1>1 DEF BeginStream
  <2>3. RequestsInOrder'
    BY <1>0, <1>t, <2>1, <2>2, SendInOrder
  <2> QED BY <2>1, <2>3, UiKeepsOrder
<1>2. ASSUME NEW n \in 0..MaxFrames, AttachSource(n) PROVE GenerationsInOrder'
  <2>1. Fixed /\ Front /\ generation' = generation
    BY <1>2 DEF AttachSource, decVars, callbackVars, queueVars, uiVars
  <2>2. RequestsInOrder'
    BY <1>0, <1>2, <2>1, SendInOrder DEF AttachSource
  <2> QED BY <2>1, <2>2, UiKeepsOrder
<1>3. CASE QueueStream
  <2>1. Fixed /\ Front /\ generation' = generation
    BY <1>3 DEF QueueStream, decVars, callbackVars, queueVars
  <2> DEFINE clear == [kind |-> "ClearQueued", stream |-> queuedId, gen |-> 0, frame |-> 0]
             queue == [kind |-> "Queue", stream |-> lastId + 1, gen |-> 0, frame |-> 0]
             cleared == IF queuedId = 0 THEN <<>> ELSE <<clear>>
             more == cleared \o <<queue>>
  <2>2. /\ clear \in Command /\ queue \in Command
        /\ ~ IsRequest(clear) /\ ~ IsRequest(queue)
    BY <1>0, <1>n, <1>3 DEF Command, QueueStream, IsRequest
  <2>3. commands' = commands \o cleared \o <<queue>>
    BY <1>3 DEF QueueStream
  <2> HIDE DEF clear, queue
  <2>4. /\ cleared \in Seq(Command) /\ \A i \in 1..Len(cleared) : ~ IsRequest(cleared[i])
        /\ <<queue>> \in Seq(Command) /\ \A i \in 1..Len(<<queue>>) : ~ IsRequest(<<queue>>[i])
    <3>1. /\ <<>> \in Seq(Command) /\ Len(<<>>) = 0
          /\ \A c \in Command : <<c>> \in Seq(Command) /\ Len(<<c>>) = 1 /\ <<c>>[1] = c
      BY EmptySeq
    <3> QED BY <2>2, <3>1
  <2> HIDE DEF cleared
  <2>5. more \in Seq(Command) /\ \A i \in 1..Len(more) : ~ IsRequest(more[i])
    <3>1. /\ more \in Seq(Command) /\ Len(more) = Len(cleared) + Len(<<queue>>)
          /\ \A i \in 1..Len(more) :
               more[i] = IF i <= Len(cleared) THEN cleared[i] ELSE <<queue>>[i - Len(cleared)]
      BY <2>4, ConcatProperties
    <3>2. Len(cleared) \in Nat /\ Len(<<queue>>) \in Nat
      BY <2>4, LenProperties
    <3> HIDE DEF more
    <3> QED BY <2>4, <3>1, <3>2
  <2>6. commands' = commands \o more
    BY <1>0, <2>3, <2>4, ConcatAssociative
  <2> HIDE DEF more
  <2>7. RequestsInOrder'
    BY <2>1, <2>5, <2>6, RequestSent, OrderParts
  <2> QED BY <2>1, <2>7, UiKeepsOrder
<1>4. CASE ClearQueued
  <2>1. Fixed /\ Front /\ generation' = generation
    BY <1>4 DEF ClearQueued, decVars, callbackVars, queueVars
  <2>2. RequestsInOrder'
    BY <1>0, <1>4, <2>1, SendInOrder DEF ClearQueued
  <2> QED BY <2>1, <2>2, UiKeepsOrder
<1>5. CASE PlayQueuedNow
  <2>1. Fixed /\ Front /\ generation' = generation + 1
    BY <1>5 DEF PlayQueuedNow, NewGeneration, StartDevice, decVars, callbackVars, queueVars
  <2>2. RequestsInOrder'
    BY <1>0, <1>5, <2>1, SendInOrder DEF PlayQueuedNow
  <2> QED BY <2>1, <2>2, UiKeepsOrder
<1>6. CASE Pause \/ Resume
  <2>1. Fixed /\ Front /\ generation' = generation /\ UNCHANGED commands
    BY <1>6 DEF Pause, Resume, decVars, callbackVars
  <2> QED BY <1>s, <2>1, UiKeepsOrder
<1>7. CASE Stop
  <2>1. Fixed /\ Front /\ generation' = generation + 1
    BY <1>7 DEF Stop, StopEngine, NewGeneration, decVars, callbackVars
  <2>2. RequestsInOrder'
    BY <1>0, <1>7, <2>1, SendInOrder DEF Stop, StopEngine
  <2> QED BY <2>1, <2>2, UiKeepsOrder
<1>8. ASSUME NEW f \in Targets, Seek(f) PROVE GenerationsInOrder'
  <2>1. Fixed /\ Front /\ generation' = generation + 1
    BY <1>8 DEF Seek, NewGeneration, decVars, callbackVars, queueVars
  <2>2. RequestsInOrder'
    BY <1>0, <1>t, <1>8, <2>1, SendInOrder DEF Seek
  <2> QED BY <2>1, <2>2, UiKeepsOrder
<1>9. CASE PositionSeconds
  BY <1>9, SameOrder DEF PositionSeconds, decVars, callbackVars, queueVars
<1> QED BY <1>1, <1>2, <1>3, <1>4, <1>5, <1>6, <1>7, <1>8, <1>9 DEF Call

LEMMA PollOrder == ASSUME TypeOK, GenerationsInOrder, PollRead \/ Poll PROVE GenerationsInOrder'
<1> USE IdTypes
<1>0. /\ queuedId \in StreamId /\ generation \in Nat /\ 0 \in Frame /\ 0 \in Nat
  BY DEF TypeOK, UiType, Frame
<1> DEFINE Fixed == UNCHANGED <<decGeneration, playing, published>>
           Front == UNCHANGED blocks \/ (\E gen : DropStaleBlocks(gen))
<1>1. CASE PollRead
  BY <1>1, SameOrder DEF PollRead, decVars, callbackVars, queueVars
<1>2. CASE PollUndecodable
  <2>1. Fixed /\ Front /\ generation' = generation + 1
    BY <1>2 DEF PollUndecodable, StopEngine, NewGeneration, decVars, callbackVars
  <2>2. RequestsInOrder'
    BY <1>0, <1>2, <2>1, SendInOrder DEF PollUndecodable, StopEngine
  <2> QED BY <2>1, <2>2, UiKeepsOrder
<1>3. CASE PollNothingPlayed \/ PollCurrent
  BY <1>3, SameOrder DEF PollNothingPlayed, PollCurrent, EventsHandled, EventsTaken,
     decVars, callbackVars, queueVars
<1>4. CASE PollAdvanced
  <2>1. Fixed /\ Front /\ generation' = generation
    BY <1>4 DEF PollAdvanced, EventsHandled, EventsTaken, decVars, callbackVars, queueVars
  <2>2. RequestsInOrder'
    BY <1>0, <1>4, <2>1, SendInOrder DEF PollAdvanced
  <2> QED BY <2>1, <2>2, UiKeepsOrder
<1>5. CASE PollCleared
  <2>1. Fixed /\ Front /\ generation' \in {generation, generation + 1} /\ UNCHANGED commands
    BY <1>5 DEF PollCleared, EventsHandled, EventsTaken, decVars, callbackVars, queueVars
  <2>2. RequestsInOrder'
    BY <1>0, <2>1, OrderParts, OrderTypes DEF RequestsInOrder
  <2> QED BY <2>1, <2>2, UiKeepsOrder
<1> QED BY <1>1, <1>2, <1>3, <1>4, <1>5 DEF Poll

\* The decoder takes up the oldest request, and those behind it are no older.
LEMMA ApplyOrder == ASSUME TypeOK, GenerationsInOrder, ApplyCommand PROVE GenerationsInOrder'
<1>0. BlocksInOrder /\ RequestsInOrder /\ ThreadsInOrder
  BY OrderParts
<1>1. /\ commands # <<>> /\ commands' = Tail(commands)
      /\ UNCHANGED <<blocks, playing, published, generation>>
  BY DEF ApplyCommand, ApplyStart, ApplyQueue, ApplyClearQueued, ApplySeek, ApplyAdvanced,
     ApplyStop, Apply, uiVars, queueVars, callbackVars
<1>2. \/ UNCHANGED decGeneration
      \/ IsRequest(Head(commands)) /\ decGeneration' = Head(commands).gen
  BY DEF ApplyCommand, ApplyStart, ApplyQueue, ApplyClearQueued, ApplySeek, ApplyAdvanced,
     ApplyStop, Apply, IsRequest, decVars
<1>3. /\ Len(commands) \in Nat \ {0} /\ Len(commands') = Len(commands) - 1
      /\ Head(commands) = commands[1] /\ 1 \in 1..Len(commands)
      /\ \A i \in 1..Len(commands') :
           commands'[i] = commands[i + 1] /\ i + 1 \in 1..Len(commands)
  BY <1>1, OrderTypes, EmptySeq, HeadTailProperties
<1>4. decGeneration <= decGeneration' /\ decGeneration' <= generation /\ decGeneration' \in Nat
  BY <1>0, <1>2, <1>3, OrderTypes DEF RequestsInOrder, ThreadsInOrder
<1>5. BlocksInOrder'
  <2>1. \A i \in 1..Len(blocks) : blocks[i].gen <= decGeneration'
    BY <1>0, <1>4, OrderTypes DEF BlocksInOrder
  <2> QED BY <1>0, <1>1, <2>1 DEF BlocksInOrder
<1>6. RequestsInOrder'
  <2>1. ASSUME NEW i \in 1..Len(commands'), IsRequest(commands'[i])
        PROVE  decGeneration' <= commands'[i].gen /\ commands'[i].gen <= generation
    <3>1. i + 1 \in 1..Len(commands) /\ 1 \in 1..(i + 1) /\ IsRequest(commands[i + 1])
      BY <1>3, <2>1
    <3> QED BY <1>0, <1>2, <1>3, <3>1 DEF RequestsInOrder
  <2>2. ASSUME NEW i \in 1..Len(commands'), NEW j \in 1..i,
               IsRequest(commands'[i]), IsRequest(commands'[j])
        PROVE  commands'[j].gen <= commands'[i].gen
    <3>1. j \in 1..Len(commands') /\ i + 1 \in 1..Len(commands) /\ j + 1 \in 1..(i + 1)
      BY <1>3
    <3> QED BY <1>0, <1>3, <2>2, <3>1 DEF RequestsInOrder
  <2> QED BY <1>1, <2>1, <2>2 DEF RequestsInOrder
<1>7. ThreadsInOrder'
  BY <1>0, <1>1, <1>4, OrderTypes DEF ThreadsInOrder
<1>8. GenerationsInOrder' <=> BlocksInOrder' /\ RequestsInOrder' /\ ThreadsInOrder'
  BY DEF GenerationsInOrder, BlocksInOrder, RequestsInOrder, ThreadsInOrder, IsRequest
<1> QED BY <1>5, <1>6, <1>7, <1>8

\* A block the decoder writes has its generation, the newest in the queue.
LEMMA StepOrder == ASSUME TypeOK, GenerationsInOrder, Step PROVE GenerationsInOrder'
<1>1. ASSUME NEW block \in Block, block.gen = decGeneration, Push(block),
             UNCHANGED <<commands, decGeneration, playing, published, generation>>
      PROVE  GenerationsInOrder'
  <2>1. /\ Len(blocks') = Len(blocks) + 1 /\ blocks'[Len(blocks) + 1] = block
        /\ \A i \in 1..Len(blocks) : blocks'[i] = blocks[i]
    BY <1>1, OrderTypes, AppendProperties DEF Push
  <2>2. \A i \in 1..Len(blocks') : i \in 1..Len(blocks) \/ blocks'[i].gen = decGeneration
    BY <1>1, <2>1, OrderTypes
  <2>3. \A i \in 1..Len(blocks') :
          playing.gen <= blocks'[i].gen /\ blocks'[i].gen <= decGeneration
    BY <2>1, <2>2, OrderTypes, OrderParts DEF BlocksInOrder, ThreadsInOrder
  <2>4. \A i, j \in 1..Len(blocks') : i <= j => blocks'[i].gen <= blocks'[j].gen
    <3> TAKE i, j \in 1..Len(blocks')
    <3>1. CASE j \in 1..Len(blocks)
      BY <2>1, <3>1, OrderTypes, OrderParts DEF BlocksInOrder
    <3>2. CASE j \notin 1..Len(blocks)
      BY <2>2, <2>3, <3>2
    <3> QED BY <3>1, <3>2
  <2>5. BlocksInOrder' /\ RequestsInOrder' /\ ThreadsInOrder'
    BY <1>1, <2>3, <2>4, OrderParts DEF BlocksInOrder, RequestsInOrder, ThreadsInOrder
  <2> QED BY <2>5 DEF GenerationsInOrder, BlocksInOrder, RequestsInOrder, ThreadsInOrder, IsRequest
<1>2. CASE WriteMarker
  <2>1. [gen |-> decGeneration, stream |-> marker.stream, frame |-> marker.frame,
         count |-> 0, end |-> TRUE] \in Block
    BY <1>2, EngineAssumption DEF WriteMarker, Block, TypeOK, DecoderType, Marker, StreamId, Stream
  <2> QED BY <1>1, <1>2, <2>1 DEF WriteMarker, Stepping, uiVars, callbackVars
<1>3. CASE DecodeBlock
  <2> DEFINE block(n) == [gen |-> decGeneration, stream |-> decCurrent.stream,
                          frame |-> decCurrent.nextFrame, count |-> n, end |-> FALSE]
  <2>1. UNCHANGED <<commands, decGeneration, playing, published, generation>>
    BY <1>3 DEF DecodeBlock, Ready, Working, Stepping, uiVars, callbackVars
  <2>2. UNCHANGED blocks \/ \E n \in 0..BlockFrames : Push(block(n))
    BY <1>3 DEF DecodeBlock, Interrupted
  <2>3. ASSUME NEW n \in 0..BlockFrames PROVE block(n) \in Block /\ block(n).gen = decGeneration
    <3>1. decCurrent.stream \in Stream /\ decCurrent.nextFrame \in Nat
      <4>1. decCurrent.stream # 0
        BY <1>3 DEF DecodeBlock, Ready, Working, Stepping
      <4>2. decCurrent.stream \in StreamId /\ decCurrent.nextFrame \in Frame
        BY DEF TypeOK, DecoderType, Source
      <4> QED BY <4>1, <4>2, EngineAssumption DEF StreamId, Stream, Frame
    <3>2. n \in Nat
      BY EngineAssumption
    <3> QED BY <3>1, <3>2, OrderTypes DEF Block, Frame
  <2> HIDE DEF block
  <2>4. CASE UNCHANGED blocks
    BY <2>1, <2>4, SameOrder
  <2>5. ASSUME NEW n \in 0..BlockFrames, Push(block(n)) PROVE GenerationsInOrder'
    BY <1>1, <2>1, <2>3, <2>5
  <2> QED BY <2>2, <2>4, <2>5
<1>4. CASE Open \/ Recover \/ SeekSource \/ Chain \/ EndStream
  <2>1. UNCHANGED <<blocks, commands, decGeneration, playing, published, generation>>
    BY <1>4 DEF Open, Recover, SeekSource, Chain, EndStream, Interrupted, AtEnd, Ready,
       Working, Stepping, uiVars, callbackVars
  <2> QED BY <2>1, SameOrder
<1> QED BY <1>2, <1>3, <1>4 DEF Step

\* The callback moves to the generation of the front block, never back.
LEMMA PlayOrder == ASSUME TypeOK, GenerationsInOrder, Play PROVE GenerationsInOrder'
<1>0. BlocksInOrder /\ RequestsInOrder /\ ThreadsInOrder
  BY OrderParts
<1>c. ASSUME InCallback, BlocksInOrder',
             published'.gen <= playing'.gen, playing'.gen <= decGeneration
      PROVE  GenerationsInOrder'
  <2>1. RequestsInOrder' /\ ThreadsInOrder'
    BY <1>0, <1>c DEF InCallback, RequestsInOrder, ThreadsInOrder, uiVars, decVars
  <2> QED
    BY <1>c, <2>1 DEF GenerationsInOrder, BlocksInOrder, RequestsInOrder, ThreadsInOrder, IsRequest
<1>1. CASE CallbackStart
  BY <1>1, SameOrder DEF CallbackStart, InCallback, uiVars, decVars, queueVars
<1>2. CASE DropOlder
  <2>1. BlocksInOrder'
    BY <1>0, <1>2, FrontPopped DEF DropOlder, PopFront, InCallback, decVars, callbackVars
  <2> QED BY <1>0, <1>2, <1>c, <2>1 DEF DropOlder, ThreadsInOrder, callbackVars
<1>3. CASE Refuse
  <2>1. playing'.gen = playing.gen /\ UNCHANGED <<blocks, published>> /\ InCallback
    BY <1>3 DEF Refuse, TypeOK, CallbackType, Playback
  <2>2. BlocksInOrder'
    BY <1>0, <2>1 DEF BlocksInOrder, InCallback, decVars
  <2> QED BY <1>0, <1>c, <2>1, <2>2 DEF ThreadsInOrder
<1>4. CASE PlayBlock
  <2>1. /\ blocks # <<>> /\ playing'.gen = blocks[1].gen /\ UNCHANGED published /\ InCallback
        /\ UNCHANGED blocks \/ blocks' = Tail(blocks)
    BY <1>4 DEF PlayBlock, PopFront
  <2>2. 1 \in 1..Len(blocks)
    BY <2>1, OrderTypes, EmptySeq
  <2>3. /\ playing.gen <= blocks[1].gen /\ blocks[1].gen <= decGeneration
        /\ \A i \in 1..Len(blocks) : blocks[1].gen <= blocks[i].gen
    BY <1>0, <2>2 DEF BlocksInOrder
  <2>4. BlocksInOrder'
    <3>1. CASE UNCHANGED blocks
      BY <1>0, <2>1, <2>3, <3>1 DEF BlocksInOrder, InCallback, decVars
    <3>2. CASE blocks' = Tail(blocks)
      BY <1>0, <2>1, <3>2, FrontPopped DEF InCallback, decVars
    <3> QED BY <2>1, <3>1, <3>2
  <2>5. published'.gen <= playing'.gen
    BY <1>0, <2>1, <2>2, <2>3, OrderTypes DEF ThreadsInOrder
  <2> QED BY <1>c, <2>1, <2>3, <2>4, <2>5
<1>5. CASE CallbackEnd
  <2>1. UNCHANGED <<blocks, playing>> /\ published' = playing /\ InCallback
    BY <1>5 DEF CallbackEnd, queueVars
  <2>2. BlocksInOrder'
    BY <1>0, <2>1 DEF BlocksInOrder, InCallback, decVars
  <2> QED BY <1>0, <1>c, <2>1, <2>2, OrderTypes DEF ThreadsInOrder
<1> QED BY <1>1, <1>2, <1>3, <1>4, <1>5 DEF Play

LEMMA OrderKept == TypeOK /\ GenerationsInOrder /\ [Next]_vars => GenerationsInOrder'
<1> SUFFICES ASSUME TypeOK, GenerationsInOrder, [Next]_vars PROVE GenerationsInOrder'
  OBVIOUS
<1>1. CASE Arrive
  BY <1>1, SameOrder DEF Arrive, AppendData, FinishData, uiVars, decVars, queueVars, callbackVars
<1>2. CASE UNCHANGED vars
  BY <1>2, SameOrder DEF vars, uiVars, decVars, queueVars, callbackVars
<1> QED BY <1>1, <1>2, CallOrder, PollOrder, ApplyOrder, StepOrder, PlayOrder DEF Next

\* Generations only grow along the way from a start or seek over the commands,
\* the decoder and the block queue to the callback, and the state the callback
\* publishes: the sound never returns to an earlier start or seek.
THEOREM GenerationOrder == Spec => []GenerationsInOrder
<1>1. Init => GenerationsInOrder
  <2> SUFFICES ASSUME Init PROVE GenerationsInOrder
    OBVIOUS
  <2>1. Len(blocks) = 0 /\ Len(commands) = 0
    BY DEF Init
  <2> QED BY <2>1 DEF Init, GenerationsInOrder, Silence
<1> QED BY <1>1, OrderKept, TypeCorrect, PTL DEF Spec

-----------------------------------------------------------------------------
(* What the device is given.                                               *)
(*                                                                         *)
(* What plays and what waits to be played is seen as one line of items:    *)
(* item 0 is what the callback plays, the others are the blocks, and after *)
(* the last one comes what the decoder writes next.  The invariant says    *)
(* how neighbours of one generation fit together.  It speaks of the        *)
(* generations the callback may still play: it drops the others.           *)

Horizon == IF callback = "idle" THEN generation ELSE callbackGen
Live(g) == Horizon <= g

Item(i) ==
  IF i = 0
    THEN [gen |-> playing.gen, stream |-> playing.stream, from |-> playing.frame,
          to |-> playing.frame, end |-> playing.ended]
    ELSE [gen |-> blocks[i].gen, stream |-> blocks[i].stream,
          from |-> blocks[i].frame + (IF i = 1 THEN Offset ELSE 0),
          to |-> blocks[i].frame + blocks[i].count, end |-> blocks[i].end]
Line == 0..Len(blocks)
Last == Item(Len(blocks))

Openable(s) == s \notin Undecodable /\ available[s] > 0
Position(source) == IF source.seekTo = NoFrame THEN source.nextFrame ELSE source.seekTo
Gone(s) == s <= lastId /\ s # currentId /\ s # queuedId
Writes == decCurrent.stream # 0 /\ ~ decEnded

\* What the UI thread knows beside UiConsistent
UiKnows ==
  /\ queuedId # 0 => queuedId = lastId
  /\ ~ device => callback = "idle"
  /\ callbackGen <= generation
  /\ snapshot.gen <= published.gen
  /\ currentId # 0 => generation > 0

\* No thread knows an id that was not given out.
IdsGiven ==
  /\ decCurrent.stream <= lastId /\ chainedFrom.stream <= lastId
  /\ decQueued <= lastId /\ marker.stream <= lastId
  /\ \A i \in 1..Len(commands) : commands[i].stream <= lastId
  /\ \A i \in Line : Item(i).stream <= lastId
  /\ published.stream <= lastId /\ snapshot.stream <= lastId

\* The decoder goes on to younger streams only.
IdsGrow ==
  /\ chainedFrom.stream # 0 => chainedFrom.stream < decCurrent.stream
  /\ decQueued # 0 => decCurrent.stream < decQueued
  /\ \A i \in 1..Len(commands) : commands[i].kind = "Queue" =>
       /\ decCurrent.stream < commands[i].stream /\ decQueued < commands[i].stream
       /\ \A j \in 1..(i - 1) : commands[j].stream < commands[i].stream

ClearedAreGone ==
  \A i \in 1..Len(commands) : commands[i].kind = "ClearQueued" =>
    commands[i].stream # 0 /\ Gone(commands[i].stream)

\* A request of this generation asks for what the UI shows.
RequestsNow ==
  \A i \in 1..Len(commands) : IsRequest(commands[i]) =>
    /\ commands[i].gen > 0 /\ commands[i].stream # 0
    /\ commands[i].gen = generation =>
         commands[i].stream = currentId /\ commands[i].frame = shownFrame

\* Only attachSource() asks twice in a generation, and nothing came of the first.
Twin(j) == \E i \in 1..(j - 1) : IsRequest(commands[i]) /\ commands[i].gen = commands[j].gen
Again(j) == IsRequest(commands[j]) /\ (commands[j].gen = decGeneration \/ Twin(j))

Barren(j) ==
  /\ commands[j].kind = "Start"
  /\ \A i \in 1..(j - 1) : IsRequest(commands[i]) /\ commands[i].gen = commands[j].gen
                             => commands[i].stream = commands[j].stream
  /\ decCurrent.stream = commands[j].stream => ~ decCurrent.opened
  /\ chainedFrom.stream # commands[j].stream
  /\ \A i \in Line : Item(i).gen < commands[j].gen
  /\ commands[j].gen = decGeneration =>
       /\ decCurrent.stream \in {0, commands[j].stream}
       /\ chainedFrom.stream = 0 /\ marker.stream = 0

NothingYet == \A j \in 1..Len(commands) : Again(j) => Barren(j)

\* A source at its end stays there; only such a one is chained from, and only to a
\* complete stream.
AtItsEnd(source) ==
  /\ source.stream # 0 /\ source.opened /\ ~ source.interrupted /\ source.seekTo = NoFrame
  /\ SoundOver(source.stream, source.nextFrame)

Sources ==
  /\ decCurrent.opened => decCurrent.stream # 0 /\ Openable(decCurrent.stream)
  /\ decCurrent.atEnd => AtItsEnd(decCurrent)
  /\ chainedFrom.stream # 0 =>
       /\ chainedFrom.atEnd /\ AtItsEnd(chainedFrom) /\ Openable(chainedFrom.stream)
       /\ decCurrent.stream # 0 /\ complete[decCurrent.stream] /\ Openable(decCurrent.stream)
       /\ marker.stream \in {0, decCurrent.stream}
  /\ marker.stream # 0 => MayBeOver(marker.stream) /\ Openable(marker.stream)
  /\ decCurrent.stream # 0 => decGeneration > 0

\* A stream that is heard after the current one is complete, and that one over.
FollowsWhole(s) == currentId < s => complete[s]
CurrentOver == currentId # 0 /\ MayBeOver(currentId) /\ Openable(currentId)
Reached(s) ==
  /\ currentId # 0 /\ Openable(currentId) /\ FollowsWhole(s)
  /\ s # currentId => s # 0 /\ MayBeOver(currentId) /\ Openable(s)

InGeneration ==
  generation > 0 =>
    /\ \A i \in Line : Item(i).gen = generation => Reached(Item(i).stream)
    /\ published.gen = generation => Reached(published.stream)
    /\ snapshot.gen = generation => Reached(snapshot.stream)
    /\ decGeneration = generation =>
         /\ decCurrent.stream \notin {0, currentId} \/ chainedFrom.stream # 0 \/ marker.stream # 0
              => CurrentOver
         /\ FollowsWhole(decCurrent.stream) /\ FollowsWhole(chainedFrom.stream)
         /\ FollowsWhole(marker.stream)

\* Each item by itself
Items ==
  /\ \A i \in 1..Len(blocks) :
       /\ Item(i).gen > 0
       /\ IF Item(i).end THEN Item(i).from = Item(i).to ELSE Item(i).from < Item(i).to
  /\ playing.stream = 0 => playing.gen = 0
  /\ \A i \in Line :
       Item(i).stream # 0 /\ ~ Item(i).end => Item(i).to <= available[Item(i).stream]
  /\ frontSeen => blocks # <<>>
  /\ Offset > 0 => playing.gen = blocks[1].gen

\* b goes on where a ends, or begins the stream after it.  The end marker of a
\* cleared stream carries frame 0.
Continued(a, b) ==
  \/ b.stream = a.stream /\ (b.from = a.to \/ (b.end /\ Gone(b.stream)))
  \/ a.stream < b.stream /\ b.from = 0 /\ SoundOver(a.stream, a.to)

Follows ==
  \A i \in 1..Len(blocks) :
    Live(Item(i).gen) /\ Item(i - 1).gen = Item(i).gen /\ ~ Item(i - 1).end
      => Continued(Item(i - 1), Item(i))

\* What the decoder writes next goes on from the last item.
NextMarker == [stream |-> marker.stream, from |-> marker.frame, end |-> TRUE]
NextSound == [stream |-> decCurrent.stream, from |-> Position(decCurrent), end |-> FALSE]
Coming == IF marker.stream # 0 THEN NextMarker ELSE NextSound

WillFollow ==
  Live(decGeneration) /\ Last.gen = decGeneration /\ ~ Last.end /\ Writes =>
    /\ Continued(Last, Coming)
    /\ marker.stream = 0 /\ Last.stream # decCurrent.stream => Openable(decCurrent.stream)

\* The first item of this generation is at the place the UI shows.
Starts(item) == item.from = (IF item.stream = currentId THEN shownFrame ELSE 0)

First ==
  /\ \A i \in 1..Len(blocks) :
       Item(i).gen = generation /\ Item(i - 1).gen < generation => Starts(Item(i))
  /\ decGeneration = generation /\ Last.gen < generation /\ Writes =>
       Starts(Coming) /\ (marker.stream = 0 => currentId <= decCurrent.stream)

\* Until it ended, what plays is what was heard last.
HeardIsPlaying ==
  /\ heard.gen <= playing.gen
  /\ ~ playing.ended =>
       heard.gen = playing.gen /\ heard.stream = playing.stream /\ heard.to = playing.frame

Known == TypeOK /\ UiConsistent /\ GenerationsInOrder
Wiring == UiKnows /\ IdsGiven /\ IdsGrow /\ ClearedAreGone /\ RequestsNow /\ NothingYet
Streams == Sources /\ InGeneration
Contiguous == Items /\ Follows /\ WillFollow /\ First /\ HeardIsPlaying
LineInv == Known /\ Wiring /\ Streams /\ Contiguous

-----------------------------------------------------------------------------
(* The line and how the steps change it *)

LineTyped ==
  /\ Len(blocks) \in Nat /\ blocks \in Seq(Block) /\ Offset \in Nat
  /\ \A i \in Line : /\ Item(i).gen \in Nat /\ Item(i).stream \in StreamId
                     /\ Item(i).from \in Nat /\ Item(i).to \in Nat
                     /\ Item(i).end \in BOOLEAN
  /\ \A i \in 1..Len(blocks) : Item(i).stream \in Stream /\ Item(i).stream # 0
  /\ Item(0).from = Item(0).to

LEMMA LineTypes == TypeOK => LineTyped
<1> SUFFICES ASSUME TypeOK PROVE LineTyped
  OBVIOUS
<1>1. /\ blocks \in Seq(Block) /\ Len(blocks) \in Nat /\ playing \in Playback
      /\ frontOffset \in Nat /\ Offset \in Nat
  BY DEF TypeOK, QueueType, CallbackType, Offset
<1>2. \A i \in 1..Len(blocks) : blocks[i] \in Block
  BY <1>1, ElementOfSeq
<1>3. \A i \in 1..Len(blocks) :
        /\ Item(i).gen \in Nat /\ Item(i).stream \in Stream /\ Item(i).from \in Nat
        /\ Item(i).to \in Nat /\ Item(i).end \in BOOLEAN
  BY <1>1, <1>2 DEF Item, Block, Frame
<1>4. /\ Item(0).gen \in Nat /\ Item(0).stream \in StreamId /\ Item(0).from \in Nat
      /\ Item(0).to \in Nat /\ Item(0).end \in BOOLEAN /\ Item(0).from = Item(0).to
  BY <1>1 DEF Item, Playback, Frame
<1>5. \A i \in Line : i = 0 \/ i \in 1..Len(blocks)
  BY <1>1 DEF Line
<1>6. \A s \in Stream : s \in StreamId /\ s # 0
  BY IdTypes, EngineAssumption DEF Stream
<1> QED BY <1>1, <1>3, <1>4, <1>5, <1>6 DEF LineTyped

LEMMA LineTypesNext == TypeOK' => LineTyped'
BY LineTypes, PTL

\* Generations grow along the line, from what was published to what was asked for.
LineGrown ==
  /\ \A i, j \in Line : i <= j => Item(i).gen <= Item(j).gen
  /\ \A i \in Line : Item(i).gen <= decGeneration /\ Item(i).gen <= generation
  /\ published.gen <= Item(0).gen /\ decGeneration <= generation

LEMMA LineGrows == TypeOK /\ GenerationsInOrder => LineGrown
<1> SUFFICES ASSUME TypeOK, GenerationsInOrder PROVE LineGrown
  OBVIOUS
<1>0. LineTyped
  BY LineTypes
<1>1. /\ Item(0).gen = playing.gen
      /\ \A i \in 1..Len(blocks) : Item(i).gen = blocks[i].gen
  BY DEF Item
<1>2. \A i \in Line : i = 0 \/ i \in 1..Len(blocks)
  BY <1>0 DEF Line, LineTyped
<1>3. \A i \in Line : Item(i).gen <= decGeneration
  BY <1>1, <1>2, OrderParts DEF BlocksInOrder, ThreadsInOrder
<1>4. \A i, j \in Line : i <= j => Item(i).gen <= Item(j).gen
  <2> SUFFICES ASSUME NEW i \in Line, NEW j \in Line, i <= j PROVE Item(i).gen <= Item(j).gen
    OBVIOUS
  <2>1. CASE j = 0
    BY <1>0, <2>1 DEF Line, LineTyped
  <2>2. CASE i = 0 /\ j # 0
    BY <1>1, <1>2, <2>2, OrderParts DEF BlocksInOrder
  <2>3. CASE i # 0 /\ j # 0
    BY <1>1, <1>2, <2>3, OrderParts DEF BlocksInOrder
  <2> QED BY <2>1, <2>2, <2>3
<1>5. published.gen <= Item(0).gen /\ decGeneration <= generation
  BY <1>1, OrderParts DEF ThreadsInOrder
<1> QED BY <1>0, <1>3, <1>4, <1>5, OrderTypes DEF LineTyped, LineGrown

LEMMA LineGrowsNext == TypeOK' /\ GenerationsInOrder' => LineGrown'
BY LineGrows, PTL

\* The first n blocks leave the line.
Shifted(n) ==
  /\ Len(blocks') = Len(blocks) - n
  /\ Item(0)' = Item(0)
  /\ \A i \in 1..Len(blocks') : i + n \in 1..Len(blocks) /\ Item(i)' = Item(i + n)

LEMMA ShiftEffect ==
  ASSUME TypeOK, NEW n \in 0..Len(blocks), blocks' = SubSeq(blocks, n + 1, Len(blocks)),
         frontSeen' = (frontSeen /\ n = 0), UNCHANGED <<playing, frontOffset>>
  PROVE  Shifted(n)
<1>1. blocks \in Seq(Block) /\ Len(blocks) \in Nat /\ Offset \in Nat
  BY LineTypes DEF LineTyped
<1>2. \A i \in (n + 1)..Len(blocks) : blocks[i] \in Block
  BY <1>1, ElementOfSeq
<1>3. /\ Len(blocks') = Len(blocks) - n
      /\ \A i \in 1..Len(blocks') : blocks'[i] = blocks[i + n] /\ i + n \in 1..Len(blocks)
  BY <1>1, <1>2, SubSeqProperties
<1>4. Offset' = (IF n = 0 THEN Offset ELSE 0)
  BY DEF Offset
<1>5. Item(0)' = Item(0)
  BY DEF Item
<1>6. ASSUME NEW i \in 1..Len(blocks') PROVE Item(i)' = Item(i + n)
  <2>1. i # 0 /\ i + n # 0 /\ (i + n = 1 <=> i = 1 /\ n = 0)
    BY <1>1
  <2>2. blocks[i + n] \in Block
    BY <1>1, <1>3, ElementOfSeq
  <2>3. blocks'[i] = blocks[i + n]
    BY <1>3
  <2>4. (IF i = 1 THEN Offset' ELSE 0) = (IF i + n = 1 THEN Offset ELSE 0)
    BY <1>4, <2>1
  <2> QED BY <2>1, <2>3, <2>4 DEF Item
<1> QED BY <1>3, <1>5, <1>6 DEF Shifted

\* The line stays as it is.
LEMMA SameLine ==
  ASSUME UNCHANGED <<playing, blocks, frontSeen, frontOffset>>
  PROVE  /\ Len(blocks') = Len(blocks) /\ Line' = Line /\ Last' = Last /\ Offset' = Offset
         /\ \A i : Item(i)' = Item(i)
<1>1. Offset' = Offset
  BY DEF Offset
<1>2. \A i : Item(i)' = Item(i)
  BY <1>1 DEF Item
<1> QED BY <1>1, <1>2 DEF Line, Last

\* The decoder's block comes last.
LEMMA PushEffect ==
  ASSUME TypeOK, NEW b \in Block, Push(b), frontSeen => blocks # <<>>,
         UNCHANGED <<playing, frontSeen, frontOffset>>
  PROVE  /\ Len(blocks') = Len(blocks) + 1
         /\ \A i \in Line : Item(i)' = Item(i)
         /\ \A i \in Line' : i \in Line \/ (i = Len(blocks') /\ Item(i)' = Last')
         /\ Last' = [gen |-> b.gen, stream |-> b.stream, from |-> b.frame,
                     to |-> b.frame + b.count, end |-> b.end]
         /\ Offset' = Offset
<1>1. blocks \in Seq(Block) /\ Len(blocks) \in Nat /\ Offset \in Nat
  BY LineTypes DEF LineTyped
<1>2. /\ Len(blocks') = Len(blocks) + 1 /\ blocks'[Len(blocks) + 1] = b
      /\ \A i \in 1..Len(blocks) : blocks'[i] = blocks[i]
  BY <1>1, AppendProperties DEF Push
<1>3. Offset' = Offset /\ (Len(blocks) = 0 => Offset = 0)
  BY <1>1, EmptySeq DEF Offset
<1>4. \A i \in Line : Item(i)' = Item(i)
  BY <1>1, <1>2, <1>3 DEF Item, Line
<1>5. \A i \in Line' : i \in Line \/ i = Len(blocks')
  BY <1>1, <1>2 DEF Line
<1>6. \A i : i = Len(blocks') => Item(i)' = Last'
  BY DEF Last, Item
<1>7. Last' = [gen |-> b.gen, stream |-> b.stream, from |-> b.frame,
               to |-> b.frame + b.count, end |-> b.end]
  <2>1. b.frame \in Nat /\ b.frame + 0 = b.frame
    BY DEF Block, Frame
  <2>2. Len(blocks') # 0 /\ (Len(blocks') = 1 => Offset' = 0) /\ blocks'[Len(blocks')] = b
    BY <1>1, <1>2, <1>3
  <2> QED BY <2>1, <2>2 DEF Item, Last
<1> QED BY <1>2, <1>3, <1>4, <1>5, <1>6, <1>7

-----------------------------------------------------------------------------
(* What each thread leaves alone *)

UiStep == Call \/ PollRead \/ Poll

LEMMA NextCases ==
  ASSUME [Next]_vars
  PROVE  UiStep \/ Arrive \/ ApplyCommand \/ Step \/ Play \/ UNCHANGED vars
BY DEF Next, UiStep

LEMMA UiFrame ==
  ASSUME UiStep
  PROVE  /\ UNCHANGED <<decGeneration, decCurrent, chainedFrom, decQueued, marker, decEnded>>
         /\ UNCHANGED <<callback, callbackGen, playing, published, frontOffset, heard>>
<1>1. ASSUME Call
      PROVE  UNCHANGED decVars /\ UNCHANGED callbackVars
  BY <1>1 DEF Call, BeginStream, AttachSource, QueueStream, ClearQueued, PlayQueuedNow, Pause,
     Resume, Stop, StopEngine, PositionSeconds, Seek
<1>2. ASSUME PollRead \/ Poll
      PROVE  UNCHANGED decVars /\ UNCHANGED callbackVars
  BY <1>2 DEF PollRead, Poll, PollUndecodable, StopEngine, PollNothingPlayed, PollCurrent,
     PollAdvanced, PollCleared, EventsHandled, EventsTaken
<1> QED BY <1>1, <1>2 DEF UiStep, decVars, callbackVars

LEMMA ArriveFrame ==
  ASSUME Arrive
  PROVE  UNCHANGED <<uiVars, commands, events, decVars, queueVars, callbackVars>>
BY DEF Arrive, AppendData, FinishData

LEMMA ApplyFrame ==
  ASSUME ApplyCommand
  PROVE  /\ UNCHANGED <<uiVars, byteVars, events, queueVars, callbackVars>>
         /\ commands # <<>> /\ commands' = Tail(commands)
BY DEF ApplyCommand, ApplyStart, ApplyQueue, ApplyClearQueued, ApplySeek, ApplyAdvanced,
   ApplyStop, Apply

LEMMA StepFrame ==
  ASSUME Step
  PROVE  /\ UNCHANGED <<uiVars, byteVars, commands, frontSeen, callbackVars, decGeneration>>
         /\ Writes
<1>1. Stepping /\ UNCHANGED decGeneration
  BY DEF Step, WriteMarker, Open, Recover, SeekSource, DecodeBlock, Chain, EndStream, AtEnd,
     Ready, Working
<1> QED BY <1>1 DEF Stepping, Writes

LEMMA PlayFrame ==
  ASSUME Play
  PROVE  UNCHANGED <<uiVars, byteVars, commands, events, decVars>>
BY DEF Play, CallbackStart, DropOlder, Refuse, PlayBlock, CallbackEnd, InCallback

\* Bytes only arrive, and none does after the last one.
LEMMA BytesGrow ==
  ASSUME TypeOK, [Next]_vars
  PROVE  /\ \A s \in Stream : available[s] <= available'[s]
         /\ \A s \in Stream : complete[s] => complete'[s] /\ available'[s] = available[s]
<1>1. available \in [Stream -> Nat] /\ complete \in [Stream -> BOOLEAN]
  BY DEF TypeOK, ByteType
<1>2. CASE UNCHANGED byteVars
  BY <1>1, <1>2 DEF byteVars
<1>3. CASE Arrive
  BY <1>1, <1>3 DEF Arrive, AppendData, FinishData
<1>4. ASSUME NEW n \in 0..MaxFrames, AttachSource(n)
      PROVE  /\ \A s \in Stream : available[s] <= available'[s]
             /\ \A s \in Stream : complete[s] => complete'[s] /\ available'[s] = available[s]
  BY <1>1, <1>4 DEF AttachSource
<1>5. CASE Call
  <2>1. \/ UNCHANGED byteVars
        \/ \E n \in 0..MaxFrames : AttachSource(n)
    BY <1>5 DEF Call, BeginStream, QueueStream, ClearQueued, PlayQueuedNow, Pause,
       Resume, Stop, StopEngine, PositionSeconds, Seek
  <2> QED BY <1>2, <1>4, <2>1
<1>6. CASE PollRead \/ Poll
  <2>1. UNCHANGED byteVars
    BY <1>6 DEF PollRead, Poll, PollUndecodable, StopEngine, PollNothingPlayed, PollCurrent,
       PollAdvanced, PollCleared, EventsHandled, EventsTaken
  <2> QED BY <1>2, <2>1
<1>7. CASE ApplyCommand \/ Step \/ Play \/ UNCHANGED vars
  BY <1>2, <1>7, ApplyFrame, StepFrame, PlayFrame DEF vars
<1> QED BY <1>3, <1>5, <1>6, <1>7, NextCases DEF UiStep

LEMMA OpenableStays ==
  ASSUME TypeOK, [Next]_vars, NEW s \in StreamId, s # 0
  PROVE  /\ Openable(s) => Openable(s)'
         /\ complete[s] => complete'[s] /\ available'[s] = available[s]
         /\ MayBeOver(s) => MayBeOver(s)'
         /\ \A f : SoundOver(s, f) => SoundOver(s, f)'
<1>1. s \in Stream
  BY EngineAssumption DEF StreamId, Stream
<1>2. available[s] \in Nat /\ available'[s] \in Nat
  <2>1. TypeOK'
    BY TypeKept
  <2> QED BY <1>1, <2>1 DEF TypeOK, ByteType
<1> QED BY <1>1, <1>2, BytesGrow DEF Openable, MayBeOver, SoundOver

\* A stream whose sound is over at some frame may be over.
LEMMA OverMayBe ==
  ASSUME NEW s, NEW frame, SoundOver(s, frame) PROVE MayBeOver(s)
<1>1. CASE complete[s]
  BY <1>1 DEF MayBeOver
<1>2. CASE <<s, frame>> \in Faults
  <2>1. <<s, frame>>[1] = s
    OBVIOUS
  <2> QED BY <1>2, <2>1 DEF MayBeOver, Faulty
<1> QED BY <1>1, <1>2 DEF SoundOver

\* The UI thread: the generation grows by one at most, an id that is neither
\* current nor queued never is again, and blocks are dropped only while no
\* callback runs.  Within a generation the place shown changes only to one
\* that was played.
Played == published.gen = generation \/ snapshot.gen = generation
UiMoves ==
  /\ generation' \in {generation, generation + 1}
  /\ lastId <= lastId'
  /\ \A s \in Nat : s # 0 /\ Gone(s) => Gone(s)'
  /\ UNCHANGED <<blocks, frontSeen>> \/ (callback = "idle" /\ DropStaleBlocks(generation'))
  /\ snapshot' \in {snapshot, published, Silence}
  /\ generation' = generation =>
       \/ currentId' = currentId /\ (shownFrame' = shownFrame \/ Played)
       \/ /\ snapshot.gen = generation /\ snapshot.stream = queuedId
          /\ queuedId # 0 /\ currentId' = queuedId

LEMMA UiMoving == ASSUME TypeOK, UiConsistent, UiKnows, UiStep PROVE UiMoves
<1>0. /\ lastId \in Nat /\ currentId \in Nat /\ queuedId \in Nat /\ generation \in Nat
      /\ (~ device => callback = "idle") /\ allowedNext = queuedId
      /\ (state = "Paused" => ~ device) /\ currentId <= lastId /\ queuedId <= lastId
  BY EngineAssumption DEF TypeOK, UiType, UiConsistent, UiKnows, StreamId
<1> USE <1>0 DEF UiMoves, Gone, queueVars
<1>1. ASSUME NEW f \in Targets, BeginStream(f) PROVE UiMoves
  BY <1>1 DEF BeginStream, NewGeneration, StartDevice
<1>2. ASSUME NEW n \in 0..MaxFrames, AttachSource(n) PROVE UiMoves
  BY <1>2 DEF AttachSource, uiVars
<1>3. CASE QueueStream
  BY <1>3 DEF QueueStream
<1>4. CASE ClearQueued
  BY <1>4 DEF ClearQueued
<1>5. CASE PlayQueuedNow
  BY <1>5 DEF PlayQueuedNow, NewGeneration, StartDevice
<1>6. CASE Pause \/ Resume
  BY <1>6 DEF Pause, Resume, DeviceCanStop
<1>7. CASE Stop
  BY <1>7 DEF Stop, StopEngine, NewGeneration, DeviceCanStop
<1>8. ASSUME NEW f \in Targets, Seek(f) PROVE UiMoves
  BY <1>8 DEF Seek, NewGeneration
<1>9. CASE PositionSeconds
  BY <1>9 DEF PositionSeconds, Played
<1>10. CASE PollRead
  BY <1>10 DEF PollRead
<1>11. CASE PollUndecodable
  BY <1>11 DEF PollUndecodable, StopEngine, NewGeneration, DeviceCanStop
<1>12. CASE PollNothingPlayed
  BY <1>12 DEF PollNothingPlayed, EventsHandled, EventsTaken, QueuedKept, QueuedAfterEvents
<1>13. CASE PollCurrent
  BY <1>13 DEF PollCurrent, EventsHandled, EventsTaken, QueuedKept, QueuedAfterEvents, Played
<1>14. CASE PollAdvanced
  BY <1>14 DEF PollAdvanced, EventsHandled, EventsTaken, QueuedAfterEvents
<1>15. CASE PollCleared
  BY <1>15 DEF PollCleared, EventsHandled, EventsTaken, QueuedKept, QueuedAfterEvents
<1> QED BY <1>1, <1>2, <1>3, <1>4, <1>5, <1>6, <1>7, <1>8, <1>9, <1>10, <1>11, <1>12, <1>13,
           <1>14, <1>15 DEF UiStep, Call, Poll

-----------------------------------------------------------------------------
(* How each step changes the line *)

\* Blocks leave the line only when the callback would not play them any more.
Shrinks ==
  \E n \in 0..Len(blocks) :
    /\ Shifted(n)
    /\ Offset' = (IF n = 0 THEN Offset ELSE 0) /\ (frontSeen' => frontSeen /\ n = 0)
    /\ n = 0 => UNCHANGED blocks
    /\ \A i \in 1..n : Item(i).gen < Horizon'
    /\ UNCHANGED playing

LEMMA Unshrunk ==
  ASSUME TypeOK, UNCHANGED <<playing, blocks, frontSeen, frontOffset>>
  PROVE  Shrinks
<1>1. Len(blocks) \in Nat
  BY LineTypes DEF LineTyped
<1>2. Shifted(0)
  BY <1>1, SameLine DEF Shifted
<1> QED BY <1>1, <1>2, SameLine DEF Shrinks

LEMMA HorizonMoves ==
  ASSUME TypeOK, UiConsistent, UiKnows, [Next]_vars
  PROVE  /\ Horizon \in Nat /\ Horizon' \in Nat
         /\ Horizon <= Horizon' /\ Horizon' <= generation' /\ generation <= generation'
<1>0. /\ generation \in Nat /\ callbackGen \in Nat /\ callbackGen <= generation
  BY DEF TypeOK, UiType, CallbackType, UiKnows
<1>1. CASE UiStep
  <2>1. UNCHANGED <<callback, callbackGen>> /\ generation' \in {generation, generation + 1}
    BY <1>1, UiFrame, UiMoving DEF UiMoves
  <2> QED BY <1>0, <2>1 DEF Horizon
<1>2. CASE Arrive \/ ApplyCommand \/ Step \/ UNCHANGED vars
  <2>1. UNCHANGED <<callback, callbackGen, generation>>
    BY <1>2, ArriveFrame, ApplyFrame, StepFrame DEF uiVars, callbackVars, vars
  <2> QED BY <1>0, <2>1 DEF Horizon
<1>3. CASE Play
  <2>1. UNCHANGED generation
    BY <1>3, PlayFrame DEF uiVars
  <2>2. \/ callback' = "idle" /\ UNCHANGED callbackGen
        \/ callback = "idle" /\ callbackGen' = generation
        \/ callback # "idle" /\ UNCHANGED callbackGen
    BY <1>3 DEF Play, CallbackStart, DropOlder, Refuse, PlayBlock, CallbackEnd, callbackVars
  <2>3. Horizon \in Nat /\ generation' = generation /\ Horizon <= generation
    BY <1>0, <2>1 DEF Horizon
  <2>4. Horizon' = generation \/ Horizon' = Horizon
    BY <2>1, <2>2 DEF Horizon
  <2> QED BY <1>0, <2>3, <2>4
<1> QED BY <1>1, <1>2, <1>3, NextCases

LEMMA FrontDropped ==
  ASSUME TypeOK, NEW n \in 0..Len(blocks), blocks' = SubSeq(blocks, n + 1, Len(blocks)),
         frontSeen' = (frontSeen /\ n = 0), UNCHANGED <<playing, frontOffset>>,
         \A i \in 1..n : blocks[i].gen < Horizon'
  PROVE  Shrinks
<1>1. Shifted(n)
  BY ShiftEffect
<1>2. \A i \in 1..n : Item(i).gen < Horizon'
  BY DEF Item
<1>3. Offset' = (IF n = 0 THEN Offset ELSE 0)
  BY DEF Offset
<1>4. n = 0 => UNCHANGED blocks
  BY SubSeqFull, LineTypes DEF LineTyped
<1> QED BY <1>1, <1>2, <1>3, <1>4 DEF Shrinks

LEMMA UiShrinks ==
  ASSUME TypeOK, UiConsistent, UiKnows, UiStep
  PROVE  Shrinks
<1>1. UNCHANGED <<playing, frontOffset, callback, callbackGen>>
  BY UiFrame
<1>2. CASE UNCHANGED <<blocks, frontSeen>>
  BY <1>1, <1>2, Unshrunk
<1>3. CASE callback = "idle" /\ DropStaleBlocks(generation')
  <2>1. Horizon' = generation'
    BY <1>1, <1>3 DEF Horizon
  <2>2. PICK n \in 0..Len(blocks) :
          /\ \A i \in 1..n : blocks[i].gen < generation'
          /\ blocks' = SubSeq(blocks, n + 1, Len(blocks))
          /\ frontSeen' = (frontSeen /\ n = 0)
    BY <1>3 DEF DropStaleBlocks, Older
  <2> QED BY <1>1, <2>1, <2>2, FrontDropped
<1> QED BY <1>2, <1>3, UiMoving DEF UiMoves

LEMMA DropShrinks == ASSUME TypeOK, DropOlder PROVE Shrinks
<1>1. /\ UNCHANGED <<playing, frontOffset, callback, callbackGen>> /\ callback = "running"
      /\ blocks # <<>> /\ blocks[1].gen < callbackGen /\ blocks' = Tail(blocks) /\ frontSeen' = FALSE
  BY DEF DropOlder, PopFront, callbackVars, Older
<1>2. Horizon' = callbackGen
  BY <1>1 DEF Horizon
<1>3. blocks \in Seq(Block) /\ Len(blocks) \in Nat /\ Len(blocks) # 0
  BY <1>1, LineTypes, EmptySeq DEF LineTyped
<1>4. Tail(blocks) = SubSeq(blocks, 1 + 1, Len(blocks))
  BY <1>1, <1>3, TailIsSubSeq
<1>5. 1 \in 0..Len(blocks) /\ (\A i \in 1..1 : i = 1) /\ 1 # 0
  BY <1>3
<1>6. (frontSeen /\ 1 = 0) = FALSE
  BY <1>5, Zenon
<1>7. frontSeen' = (frontSeen /\ 1 = 0)
  BY <1>1, <1>6
<1> QED BY <1>7, <1>1, <1>2, <1>4, <1>5, FrontDropped

\* The callback plays item 1 up to some frame: the whole block, which then
\* leaves the line, or a part of it.
Plays(to) ==
  /\ to \in Nat /\ Item(1).from <= to /\ to <= Item(1).to
  /\ to > Item(1).from \/ to = Item(1).to
  /\ Item(0)' = [gen |-> Item(1).gen, stream |-> Item(1).stream, from |-> to, to |-> to,
                 end |-> (to = Item(1).to /\ Item(1).end)]
  /\ heard' = IF to = Item(1).from THEN heard
              ELSE [gen |-> Item(1).gen, stream |-> Item(1).stream,
                    from |-> Item(1).from, to |-> to]
  /\ IF to = Item(1).to
       THEN /\ Len(blocks') = Len(blocks) - 1 /\ ~ frontSeen' /\ Offset' = 0
            /\ \A i \in 1..Len(blocks') : i + 1 \in 1..Len(blocks) /\ Item(i)' = Item(i + 1)
       ELSE /\ UNCHANGED blocks /\ Item(1)' = [Item(1) EXCEPT !.from = to]
            /\ \A i \in 2..Len(blocks) : Item(i)' = Item(i)

\* A block the callback goes on to follows what plays, unless a start or seek
\* came in between.
GoesOn ==
  /\ callback = "running" /\ callback' # "idle" /\ Len(blocks) > 0
  /\ Horizon <= Item(1).gen
  /\ Item(1).gen = Item(0).gen =>
       ~ Item(0).end /\ Item(1).stream \in {Item(0).stream, allowedNext}

LEMMA PlayEffect ==
  ASSUME TypeOK, PlayBlock
  PROVE  GoesOn /\ \E to \in Nat : Plays(to)
<1>1. /\ blocks \in Seq(Block) /\ Len(blocks) \in Nat \ {0} /\ Offset \in Nat
      /\ playing \in Playback /\ callbackGen \in Nat
  BY LineTypes, EmptySeq DEF LineTyped, PlayBlock, TypeOK, CallbackType
<1>2. blocks[1] \in Block
  BY <1>1, ElementOfSeq
<1>3. /\ blocks[1].gen \in Nat /\ blocks[1].frame \in Nat /\ blocks[1].count \in Nat
      /\ blocks[1].end \in BOOLEAN
  BY <1>2 DEF Block, Frame
<1>4. Item(1) = [gen |-> blocks[1].gen, stream |-> blocks[1].stream,
                 from |-> blocks[1].frame + Offset, to |-> blocks[1].frame + blocks[1].count,
                 end |-> blocks[1].end]
  BY DEF Item
<1>5. GoesOn
  <2>1. callback = "running" /\ callback' # "idle" /\ ~ (blocks[1].gen < callbackGen)
        /\ ~ Refused(blocks[1])
    BY DEF PlayBlock, Older
  <2>2. Item(0).gen = playing.gen /\ Item(0).end = playing.ended
        /\ Item(0).stream = playing.stream
    BY DEF Item
  <2> QED BY <1>1, <1>3, <1>4, <2>1, <2>2 DEF GoesOn, Horizon, Refused
<1>6. PICK upTo \in Offset..blocks[1].count :
        /\ upTo > Offset \/ upTo = blocks[1].count
        /\ playing' = [gen |-> blocks[1].gen, stream |-> blocks[1].stream,
                       frame |-> blocks[1].frame + upTo,
                       ended |-> upTo = blocks[1].count /\ blocks[1].end]
        /\ frontOffset' = upTo
        /\ IF upTo = blocks[1].count THEN PopFront ELSE frontSeen' = TRUE /\ UNCHANGED blocks
        /\ heard' = IF upTo = Offset THEN heard
                    ELSE [gen |-> blocks[1].gen, stream |-> blocks[1].stream,
                          from |-> blocks[1].frame + Offset, to |-> blocks[1].frame + upTo]
  BY DEF PlayBlock
<1> DEFINE to == blocks[1].frame + upTo
<1>7. /\ to \in Nat /\ Item(1).from <= to /\ to <= Item(1).to
      /\ to > Item(1).from \/ to = Item(1).to
      /\ (to = Item(1).to <=> upTo = blocks[1].count) /\ (to = Item(1).from <=> upTo = Offset)
  BY <1>1, <1>3, <1>4, <1>6
<1>8. Item(0)' = [gen |-> Item(1).gen, stream |-> Item(1).stream, from |-> to, to |-> to,
                  end |-> (to = Item(1).to /\ Item(1).end)]
  BY <1>4, <1>6, <1>7 DEF Item
<1>9. heard' = IF to = Item(1).from THEN heard
               ELSE [gen |-> Item(1).gen, stream |-> Item(1).stream,
                     from |-> Item(1).from, to |-> to]
  BY <1>4, <1>6, <1>7
<1>10. CASE to = Item(1).to
  <2>1. blocks' = Tail(blocks) /\ ~ frontSeen' /\ Offset' = 0
    BY <1>6, <1>7, <1>10 DEF PopFront, Offset
  <2>2. /\ Len(blocks') = Len(blocks) - 1
        /\ \A i \in 1..Len(blocks') : blocks'[i] = blocks[i + 1] /\ i + 1 \in 1..Len(blocks)
    BY <1>1, <2>1, EmptySeq, HeadTailProperties
  <2>3. \A i \in 1..Len(blocks') : Item(i)' = Item(i + 1)
    BY <1>1, <2>1, <2>2 DEF Item
  <2>4. Plays(to)
    BY <1>7, <1>8, <1>9, <1>10, <2>1, <2>2, <2>3 DEF Plays
  <2> QED BY <1>5, <1>7, <2>4
<1>11. CASE to # Item(1).to
  <2>1. UNCHANGED blocks /\ Offset' = upTo
    BY <1>6, <1>7, <1>11 DEF Offset
  <2>2. Item(1)' = [Item(1) EXCEPT !.from = to]
    BY <1>4, <2>1 DEF Item
  <2>3. \A i \in 2..Len(blocks) : Item(i)' = Item(i)
    BY <1>1, <2>1 DEF Item
  <2>4. Plays(to)
    BY <1>7, <1>8, <1>9, <1>11, <2>1, <2>2, <2>3 DEF Plays
  <2> QED BY <1>5, <1>7, <2>4
<1> QED BY <1>10, <1>11

\* A refused block stays, and what plays has ended.
Refuses ==
  /\ callback = "running" /\ callback' = "ending" /\ Len(blocks) > 0
  /\ UNCHANGED <<blocks, callbackGen, published, heard>>
  /\ Item(0)' = [Item(0) EXCEPT !.end = TRUE] /\ Offset' = Offset
  /\ \A i \in 1..Len(blocks) : Item(i)' = Item(i)

LEMMA RefuseEffect == ASSUME TypeOK, Refuse PROVE Refuses
<1>1. /\ playing' = [playing EXCEPT !.ended = TRUE] /\ Offset' = Offset
      /\ UNCHANGED <<blocks, callbackGen, published, heard>>
      /\ callback = "running" /\ callback' = "ending"
  BY DEF Refuse, Offset
<1>2. Len(blocks) \in Nat \ {0} /\ playing \in Playback
  BY LineTypes, EmptySeq DEF LineTyped, Refuse, TypeOK, CallbackType
<1>3. Item(0)' = [Item(0) EXCEPT !.end = TRUE]
  <2>1. /\ playing'.gen = playing.gen /\ playing'.stream = playing.stream
        /\ playing'.frame = playing.frame /\ playing'.ended
    BY <1>1, <1>2 DEF Playback
  <2>2. playing'.ended = TRUE
    BY <1>1, <1>2 DEF Playback
  <2>3. Item(0)' = [gen |-> playing.gen, stream |-> playing.stream, from |-> playing.frame,
                    to |-> playing.frame, end |-> TRUE]
    BY <2>1, <2>2 DEF Item
  <2>4. Item(0) = [gen |-> playing.gen, stream |-> playing.stream, from |-> playing.frame,
                   to |-> playing.frame, end |-> playing.ended]
    BY DEF Item
  <2> QED BY ONLY <2>3, <2>4
<1>4. \A i \in 1..Len(blocks) : Item(i)' = Item(i)
  BY <1>1 DEF Item
<1> QED BY <1>1, <1>2, <1>3, <1>4 DEF Refuses

\* What the decoder writes: the marker, or sound that has arrived.
Writing(b) ==
  /\ b \in Block /\ Push(b) /\ b.gen = decGeneration /\ UNCHANGED <<decCurrent, chainedFrom>>
  /\ b.stream = marker.stream /\ b.frame = marker.frame /\ b.count = 0 /\ b.end
  /\ marker.stream # 0 /\ decEnded'
Sounding(b) ==
  /\ b \in Block /\ Push(b) /\ b.gen = decGeneration
  /\ UNCHANGED <<chainedFrom, marker, decEnded>>
  /\ b.stream = decCurrent.stream /\ b.frame = decCurrent.nextFrame /\ b.count > 0 /\ ~ b.end
  /\ marker.stream = 0 /\ decCurrent.opened
  /\ b.frame + b.count <= available[decCurrent.stream]
  /\ decCurrent.seekTo = NoFrame
  /\ \E last \in BOOLEAN :
       /\ decCurrent' = [decCurrent EXCEPT !.nextFrame = b.frame + b.count, !.atEnd = last]
       /\ last => /\ SoundOver(decCurrent.stream, b.frame + b.count)
                  /\ ~ decCurrent.interrupted

\* A read gives what has arrived, and less than a block only where the sound may
\* be over.
LEMMA GivenOver ==
  ASSUME TypeOK, decCurrent.stream # 0, NEW n \in 0..BlockFrames,
         Gives(decCurrent.stream, decCurrent.nextFrame, n)
  PROVE  /\ n > 0 => decCurrent.nextFrame + n <= available[decCurrent.stream]
         /\ n < BlockFrames => SoundOver(decCurrent.stream, decCurrent.nextFrame + n)
<1> DEFINE s == decCurrent.stream
           from == decCurrent.nextFrame
<1>1. s \in Stream /\ available[s] \in Nat /\ from \in Nat
  BY EngineAssumption DEF TypeOK, DecoderType, ByteType, Source, Frame, StreamId, Stream
<1>2. n \in Nat /\ BlockFrames \in Nat
  BY EngineAssumption
<1>3. n > 0 => from + n <= available[s]
  BY DEF Gives
<1>4. ASSUME n < BlockFrames PROVE SoundOver(s, from + n)
  <2>1. CASE <<s, from + n>> \in Faults
    BY <2>1 DEF SoundOver
  <2>2. CASE from + n >= available[s] /\ ReadReturns(from + BlockFrames)
    <3>1. n = 0 \/ from + n = available[s]
      BY <1>1, <1>2, <1>3, <2>2
    <3>2. available[s] < from + BlockFrames
      BY <1>1, <1>2, <1>4, <2>2
    <3>3. complete[s]
      BY <1>1, <1>2, <2>2, <3>2 DEF ReadReturns
    <3> QED BY <1>1, <1>2, <2>2, <3>3 DEF SoundOver
  <2>3. \/ n = BlockFrames \/ <<s, from + n>> \in Faults
        \/ from + n >= available[s] /\ ReadReturns(from + BlockFrames)
    BY DEF Gives
  <2> QED BY <1>2, <1>4, <2>1, <2>2, <2>3
<1> QED BY <1>3, <1>4

LEMMA StepWrites ==
  ASSUME TypeOK, Step
  PROVE  UNCHANGED blocks \/ \E b \in Block : Writing(b) \/ Sounding(b)
<1>0. /\ decCurrent.stream \in StreamId /\ decCurrent.nextFrame \in Nat /\ marker \in Marker
      /\ decGeneration \in Nat /\ decCurrent \in Source
  BY DEF TypeOK, DecoderType, Source, Frame
<1>1. CASE WriteMarker
  <2> DEFINE b == [gen |-> decGeneration, stream |-> marker.stream, frame |-> marker.frame,
                   count |-> 0, end |-> TRUE]
  <2>1. b \in Block
    BY <1>0, <1>1, EngineAssumption DEF WriteMarker, Block, Marker, StreamId, Stream
  <2>2. Writing(b)
    BY <1>1, <2>1 DEF WriteMarker, Writing
  <2> QED BY <2>1, <2>2
<1>2. CASE DecodeBlock
  <2> DEFINE block(n) == [gen |-> decGeneration, stream |-> decCurrent.stream,
                          frame |-> decCurrent.nextFrame, count |-> n, end |-> FALSE]
  <2>1. SUFFICES ASSUME ~ UNCHANGED blocks
                 PROVE  \E c \in Block : Writing(c) \/ Sounding(c)
    OBVIOUS
  <2>2. PICK count \in 0..BlockFrames, last \in BOOLEAN :
          /\ Gives(decCurrent.stream, decCurrent.nextFrame, count)
          /\ last => count < BlockFrames
          /\ count # 0 /\ Push(block(count))
          /\ decCurrent' = [decCurrent EXCEPT !.nextFrame = @ + count, !.atEnd = last]
    BY <1>2, <2>1 DEF DecodeBlock, Interrupted
  <2>3. count \in Nat \ {0}
    BY <2>2, EngineAssumption
  <2>4. decCurrent.stream \in Stream /\ available[decCurrent.stream] \in Nat
    <3>1. decCurrent.stream # 0
      BY <1>2 DEF DecodeBlock, Ready, Working, Stepping
    <3> QED BY <1>0, <3>1, EngineAssumption DEF StreamId, Stream, TypeOK, ByteType
  <2>5. /\ decCurrent.nextFrame + count <= available[decCurrent.stream]
        /\ count < BlockFrames => SoundOver(decCurrent.stream, decCurrent.nextFrame + count)
    <3>1. decCurrent.stream # 0
      BY <2>4, EngineAssumption DEF Stream
    <3> QED BY <2>2, <2>3, <3>1, GivenOver
  <2>6. /\ marker.stream = 0 /\ decCurrent.opened /\ decCurrent.seekTo = NoFrame
        /\ UNCHANGED <<chainedFrom, marker, decEnded>> /\ ~ decCurrent.interrupted
    BY <1>2 DEF DecodeBlock, Ready, Working, Stepping
  <2>7. block(count) \in Block
    BY <1>0, <2>3, <2>4 DEF Block, Frame
  <2> DEFINE b == block(count)
  <2>8. /\ b.gen = decGeneration /\ b.stream = decCurrent.stream
        /\ b.frame = decCurrent.nextFrame /\ b.count = count /\ ~ b.end
    OBVIOUS
  <2>9. b \in Block /\ Push(b)
    BY <2>2, <2>7
  <2> HIDE DEF b
  <2>10. /\ decCurrent' = [decCurrent EXCEPT !.nextFrame = b.frame + b.count, !.atEnd = last]
         /\ last => /\ SoundOver(decCurrent.stream, b.frame + b.count)
                    /\ ~ decCurrent.interrupted
    BY <2>2, <2>5, <2>6, <2>8
  <2>11. b.count > 0 /\ b.frame + b.count <= available[decCurrent.stream]
    BY <2>3, <2>5, <2>8
  <2>12. Sounding(b)
    BY <2>6, <2>8, <2>9, <2>10, <2>11 DEF Sounding
  <2> QED BY <2>9, <2>12
<1>3. CASE Open \/ Recover \/ SeekSource \/ Chain \/ EndStream
  BY <1>3 DEF Open, Recover, SeekSource, Interrupted, Chain, EndStream
<1> QED BY <1>1, <1>2, <1>3 DEF Step

-----------------------------------------------------------------------------
(* The commands *)

LEMMA CommandTypes ==
  ASSUME TypeOK
  PROVE  /\ commands \in Seq(Command) /\ Len(commands) \in Nat
         /\ \A i \in 1..Len(commands) :
              /\ commands[i].stream \in StreamId /\ commands[i].gen \in Nat
              /\ commands[i].frame \in Nat /\ commands[i].stream \in Nat
<1>1. commands \in Seq(Command) /\ Len(commands) \in Nat
  BY DEF TypeOK, ChannelType
<1>2. \A i \in 1..Len(commands) : commands[i] \in Command
  BY <1>1, ElementOfSeq
<1> QED BY <1>1, <1>2 DEF Command, StreamId, Frame

IdsTyped ==
  /\ lastId \in Nat /\ currentId \in Nat /\ queuedId \in Nat
  /\ generation \in Nat /\ decGeneration \in Nat /\ shownFrame \in Nat
  /\ decCurrent.stream \in Nat /\ chainedFrom.stream \in Nat /\ decQueued \in Nat
  /\ marker.stream \in Nat /\ decCurrent.stream \in StreamId
  /\ chainedFrom.stream \in StreamId /\ decQueued \in StreamId /\ marker.stream \in StreamId
  /\ currentId \in StreamId /\ queuedId \in StreamId
LEMMA IdsAreTyped == TypeOK => IdsTyped
BY EngineAssumption DEF TypeOK, UiType, DecoderType, Source, Marker, StreamId, Frame, IdsTyped
LEMMA IdsAreTypedNext == TypeOK' => IdsTyped'
BY IdsAreTyped, PTL

\* What the UI thread sends comes last.  A request names the current stream and
\* the generation it has just begun; only attachSource() begins none.
UiSends ==
  /\ Len(commands) <= Len(commands')
  /\ \A i \in 1..Len(commands) : commands'[i] = commands[i]
  /\ \A i \in 1..Len(commands') : i > Len(commands) =>
       /\ IsRequest(commands'[i]) =>
            /\ i = Len(commands) + 1 /\ commands'[i].gen = generation'
            /\ commands'[i].stream = currentId' /\ commands'[i].frame = shownFrame'
            /\ currentId' # 0 /\ generation' > 0
            /\ generation' = generation =>
                 /\ commands'[i].kind = "Start" /\ UNCHANGED <<uiVars, queueVars>>
                 /\ available[currentId] = 0 /\ ~ complete[currentId]
       /\ commands'[i].kind = "Queue" =>
            /\ i = Len(commands') /\ commands'[i].stream = lastId' /\ lastId' = lastId + 1
            /\ \A j \in (Len(commands) + 1)..(i - 1) : commands'[j].stream <= lastId
       /\ commands'[i].kind = "ClearQueued" =>
            commands'[i].stream # 0 /\ commands'[i].stream \notin {currentId', queuedId'}
       /\ commands'[i].stream <= lastId'

LEMMA NoneSent == ASSUME TypeOK, UNCHANGED commands PROVE UiSends
BY CommandTypes DEF UiSends

LEMMA OneSent ==
  ASSUME TypeOK, NEW c \in Command, commands' = Append(commands, c)
  PROVE  /\ Len(commands') = Len(commands) + 1
         /\ \A i \in 1..Len(commands) : commands'[i] = commands[i]
         /\ \A i \in 1..Len(commands') : i > Len(commands) => i = Len(commands) + 1 /\ commands'[i] = c
<1>1. commands \in Seq(Command) /\ Len(commands) \in Nat
  BY CommandTypes
<1>2. /\ Len(commands') = Len(commands) + 1 /\ commands'[Len(commands) + 1] = c
      /\ \A i \in 1..Len(commands) : commands'[i] = commands[i]
  BY <1>1, AppendProperties
<1> QED BY <1>1, <1>2

LEMMA UiSending == ASSUME TypeOK, UiConsistent, UiKnows, UiStep PROVE UiSends
<1>0. /\ IdsTyped /\ currentId <= lastId /\ queuedId <= lastId
      /\ (queuedId # 0 => currentId # 0 /\ currentId < queuedId)
      /\ (currentId # 0 => generation > 0) /\ Len(commands) \in Nat
  BY IdsAreTyped, CommandTypes DEF UiConsistent, UiKnows
<1>t. \A f \in Targets : f \in Nat
  BY EngineAssumption
<1>c. ASSUME NEW kind \in {"Start", "Queue", "ClearQueued", "Seek", "Advanced", "Stop"},
             NEW stream \in StreamId, NEW gen \in Nat, NEW frame \in Nat,
             Send(kind, stream, gen, frame)
      PROVE  /\ Len(commands') = Len(commands) + 1
             /\ \A i \in 1..Len(commands) : commands'[i] = commands[i]
             /\ \A i \in 1..Len(commands') : i > Len(commands) =>
                  /\ i = Len(commands) + 1 /\ commands'[i].kind = kind
                  /\ commands'[i].stream = stream
                  /\ commands'[i].gen = gen /\ commands'[i].frame = frame
  <2> DEFINE c == [kind |-> kind, stream |-> stream, gen |-> gen, frame |-> frame]
  <2>1. c \in Command
    BY DEF Command, Frame
  <2>2. /\ c.kind = kind /\ c.stream = stream /\ c.gen = gen /\ c.frame = frame
        /\ commands' = Append(commands, c)
    BY <1>c DEF Send
  <2> HIDE DEF c
  <2> QED BY <2>1, <2>2, OneSent
<1>n. lastId < MaxStream => lastId + 1 \in StreamId
  BY <1>0, EngineAssumption DEF StreamId, IdsTyped
<1>1. ASSUME NEW f \in Targets, BeginStream(f) PROVE UiSends
  <2>1. /\ generation' = generation + 1 /\ shownFrame' = f /\ lastId' = lastId + 1
        /\ currentId' = lastId + 1 /\ Send("Start", lastId + 1, generation', f)
        /\ lastId + 1 \in StreamId /\ generation' \in Nat
    BY <1>0, <1>n, <1>1 DEF BeginStream, NewGeneration, IdsTyped
  <2>2. /\ Len(commands') = Len(commands) + 1
        /\ \A i \in 1..Len(commands) : commands'[i] = commands[i]
        /\ \A i \in 1..Len(commands') : i > Len(commands) =>
             /\ i = Len(commands) + 1 /\ commands'[i].kind = "Start"
             /\ commands'[i].stream = lastId + 1
             /\ commands'[i].gen = generation' /\ commands'[i].frame = f
    BY <1>c, <1>t, <2>1
  <2>3. /\ generation' > 0 /\ generation' # generation /\ lastId + 1 # 0
        /\ lastId + 1 <= lastId' /\ Len(commands) <= Len(commands')
    BY <1>0, <2>1, <2>2 DEF IdsTyped
  <2> QED BY <2>1, <2>2, <2>3 DEF UiSends
<1>2. ASSUME NEW n \in 0..MaxFrames, AttachSource(n) PROVE UiSends
  <2>1. /\ Send("Start", currentId, generation, shownFrame) /\ currentId # 0
        /\ UNCHANGED <<uiVars, queueVars, generation, currentId, shownFrame, lastId>>
        /\ available[currentId] = 0 /\ ~ complete[currentId]
    BY <1>2 DEF AttachSource, uiVars
  <2>2. /\ Len(commands') = Len(commands) + 1
        /\ \A i \in 1..Len(commands) : commands'[i] = commands[i]
        /\ \A i \in 1..Len(commands') : i > Len(commands) =>
             /\ i = Len(commands) + 1 /\ commands'[i].kind = "Start"
             /\ commands'[i].stream = currentId
             /\ commands'[i].gen = generation /\ commands'[i].frame = shownFrame
    BY <1>0, <1>c, <2>1 DEF IdsTyped
  <2>3. generation > 0 /\ currentId <= lastId /\ Len(commands) <= Len(commands')
    BY <1>0, <2>1, <2>2
  <2> QED BY <2>1, <2>2, <2>3 DEF UiSends
<1>3. CASE QueueStream
  <2> DEFINE clear == [kind |-> "ClearQueued", stream |-> queuedId, gen |-> 0, frame |-> 0]
             queue == [kind |-> "Queue", stream |-> lastId + 1, gen |-> 0, frame |-> 0]
  <2>1. /\ clear \in Command /\ queue \in Command
        /\ clear.kind = "ClearQueued" /\ clear.stream = queuedId
        /\ queue.kind = "Queue" /\ queue.stream = lastId + 1
    BY <1>0, <1>n, <1>3 DEF Command, QueueStream, IdsTyped, Frame
  <2>2. commands' = IF queuedId = 0 THEN commands \o <<>> \o <<queue>>
                                    ELSE commands \o <<clear>> \o <<queue>>
    BY <1>3 DEF QueueStream
  <2>3. lastId' = lastId + 1 /\ queuedId' = lastId + 1 /\ currentId' = currentId
    BY <1>3 DEF QueueStream
  <2> HIDE DEF clear, queue
  <2>4. commands \in Seq(Command) /\ Len(commands) \in Nat
    BY CommandTypes
  <2>5. CASE queuedId = 0
    <3>1. commands' = Append(commands, queue)
      BY <2>1, <2>2, <2>4, <2>5, ConcatEmptySeq, AppendIsConcat
    <3>2. /\ Len(commands') = Len(commands) + 1
          /\ \A i \in 1..Len(commands) : commands'[i] = commands[i]
          /\ \A i \in 1..Len(commands') : i > Len(commands) =>
               i = Len(commands) + 1 /\ commands'[i] = queue
      BY <2>1, <3>1, OneSent
    <3>3. \A i \in 1..Len(commands') : i > Len(commands) =>
            /\ i = Len(commands') /\ (Len(commands) + 1)..(i - 1) = {}
            /\ commands'[i].kind = "Queue" /\ commands'[i].stream = lastId + 1
      BY <2>1, <2>4, <3>2
    <3>4. lastId + 1 <= lastId' /\ Len(commands) <= Len(commands')
      BY <1>0, <2>3, <2>4, <3>2 DEF IdsTyped
    <3> QED BY <2>3, <3>2, <3>3, <3>4 DEF UiSends, IsRequest
  <2>6. CASE queuedId # 0
    <3> DEFINE first == Append(commands, clear)
    <3>1. /\ first \in Seq(Command) /\ Len(first) = Len(commands) + 1
          /\ first[Len(commands) + 1] = clear
          /\ \A i \in 1..Len(commands) : first[i] = commands[i]
      BY <2>1, <2>4, AppendProperties
    <3>2. commands' = Append(first, queue)
      BY <2>1, <2>2, <2>4, <2>6, <3>1, AppendIsConcat
    <3> HIDE DEF first
    <3>3. /\ Len(commands') = Len(first) + 1 /\ commands'[Len(first) + 1] = queue
          /\ \A i \in 1..Len(first) : commands'[i] = first[i]
      BY <2>1, <3>1, <3>2, AppendProperties
    <3>4. /\ Len(commands') = Len(commands) + 2
          /\ commands'[Len(commands) + 2] = queue /\ commands'[Len(commands) + 1] = clear
          /\ \A i \in 1..Len(commands) : commands'[i] = commands[i]
          /\ \A i \in 1..Len(commands') : i > Len(commands) =>
               i = Len(commands) + 1 \/ i = Len(commands) + 2
          /\ \A j \in (Len(commands) + 1)..(Len(commands) + 2 - 1) : j = Len(commands) + 1
      BY <2>4, <3>1, <3>3
    <3>5. /\ lastId \in Nat /\ queuedId \in Nat /\ queuedId <= lastId /\ currentId # queuedId
          /\ lastId' = lastId + 1 /\ queuedId' = lastId + 1 /\ currentId' = currentId
      BY <1>0, <2>3, <2>6 DEF IdsTyped
    <3>6. /\ Len(commands) <= Len(commands') /\ queuedId <= lastId' /\ lastId + 1 <= lastId'
          /\ queuedId # queuedId' /\ queuedId # currentId'
          /\ Len(commands) + 2 = Len(commands')
      BY <2>4, <3>4, <3>5
    <3>7. ASSUME NEW i \in 1..Len(commands'), i > Len(commands)
          PROVE  \/ /\ commands'[i].kind = "ClearQueued" /\ commands'[i].stream = queuedId
                 \/ /\ commands'[i].kind = "Queue" /\ commands'[i].stream = lastId + 1
                    /\ i = Len(commands')
                    /\ \A j \in (Len(commands) + 1)..(i - 1) : commands'[j].stream <= lastId
      <4>1. CASE i = Len(commands) + 1
        BY <2>1, <3>4, <4>1
      <4>2. CASE i = Len(commands) + 2
        BY <2>1, <3>4, <3>5, <3>6, <4>2
      <4> QED BY <3>4, <3>7, <4>1, <4>2
    <3> QED BY <2>6, <3>4, <3>5, <3>6, <3>7 DEF UiSends, IsRequest
  <2> QED BY <2>5, <2>6
<1>4. CASE ClearQueued
  <2>1. /\ Send("ClearQueued", queuedId, 0, 0) /\ queuedId # 0 /\ queuedId' = 0
        /\ UNCHANGED <<currentId, lastId>>
    BY <1>4 DEF ClearQueued
  <2>2. /\ Len(commands') = Len(commands) + 1
        /\ \A i \in 1..Len(commands) : commands'[i] = commands[i]
        /\ \A i \in 1..Len(commands') : i > Len(commands) =>
             /\ i = Len(commands) + 1 /\ commands'[i].kind = "ClearQueued"
             /\ commands'[i].stream = queuedId
    BY <1>0, <1>c, <2>1 DEF IdsTyped
  <2>3. /\ queuedId # currentId' /\ queuedId # queuedId' /\ queuedId <= lastId'
        /\ Len(commands) <= Len(commands')
    BY <1>0, <2>1, <2>2 DEF IdsTyped
  <2> QED BY <2>1, <2>2, <2>3 DEF UiSends, IsRequest
<1>5. CASE PlayQueuedNow
  <2>1. /\ generation' = generation + 1 /\ shownFrame' = 0 /\ lastId' = lastId
        /\ currentId' = queuedId /\ Send("Start", queuedId, generation', 0)
        /\ queuedId # 0 /\ queuedId \in StreamId /\ generation' \in Nat
    BY <1>0, <1>5 DEF PlayQueuedNow, NewGeneration, IdsTyped
  <2>2. /\ Len(commands') = Len(commands) + 1
        /\ \A i \in 1..Len(commands) : commands'[i] = commands[i]
        /\ \A i \in 1..Len(commands') : i > Len(commands) =>
             /\ i = Len(commands) + 1 /\ commands'[i].kind = "Start"
             /\ commands'[i].stream = queuedId
             /\ commands'[i].gen = generation' /\ commands'[i].frame = 0
    BY <1>c, <2>1
  <2>3. /\ generation' > 0 /\ generation' # generation
        /\ queuedId <= lastId' /\ Len(commands) <= Len(commands')
    BY <1>0, <2>1, <2>2 DEF IdsTyped
  <2> QED BY <2>1, <2>2, <2>3 DEF UiSends
<1>6. CASE Stop \/ PollUndecodable
  <2>1. Send("Stop", 0, 0, 0) /\ UNCHANGED lastId
    BY <1>6 DEF Stop, PollUndecodable, StopEngine
  <2>2. /\ Len(commands') = Len(commands) + 1
        /\ \A i \in 1..Len(commands) : commands'[i] = commands[i]
        /\ \A i \in 1..Len(commands') : i > Len(commands) =>
             /\ i = Len(commands) + 1 /\ commands'[i].kind = "Stop"
             /\ commands'[i].stream = 0
             /\ commands'[i].gen = 0 /\ commands'[i].frame = 0
    BY <1>c, <2>1, IdTypes
  <2>3. 0 <= lastId' /\ Len(commands) <= Len(commands')
    BY <1>0, <2>1, <2>2 DEF IdsTyped
  <2> QED BY <2>2, <2>3 DEF UiSends, IsRequest
<1>7. ASSUME NEW f \in Targets, Seek(f) PROVE UiSends
  <2>1. /\ generation' = generation + 1 /\ shownFrame' = f /\ UNCHANGED <<currentId, lastId>>
        /\ currentId # 0 /\ Send("Seek", currentId, generation', f) /\ generation' \in Nat
    BY <1>0, <1>7 DEF Seek, NewGeneration, IdsTyped
  <2>2. /\ Len(commands') = Len(commands) + 1
        /\ \A i \in 1..Len(commands) : commands'[i] = commands[i]
        /\ \A i \in 1..Len(commands') : i > Len(commands) =>
             /\ i = Len(commands) + 1 /\ commands'[i].kind = "Seek"
             /\ commands'[i].stream = currentId
             /\ commands'[i].gen = generation' /\ commands'[i].frame = f
    <3>1. f \in Nat /\ currentId \in StreamId
      BY <1>0, <1>t DEF IdsTyped
    <3> QED BY <1>c, <2>1, <3>1
  <2>3. /\ generation' > 0 /\ generation' # generation
        /\ currentId <= lastId' /\ Len(commands) <= Len(commands')
    BY <1>0, <2>1, <2>2 DEF IdsTyped
  <2> QED BY <2>1, <2>2, <2>3 DEF UiSends
<1>8. CASE PollAdvanced
  <2>1. Send("Advanced", queuedId, 0, 0) /\ UNCHANGED lastId
    BY <1>8 DEF PollAdvanced, EventsHandled, EventsTaken
  <2>2. /\ Len(commands') = Len(commands) + 1
        /\ \A i \in 1..Len(commands) : commands'[i] = commands[i]
        /\ \A i \in 1..Len(commands') : i > Len(commands) =>
             /\ i = Len(commands) + 1 /\ commands'[i].kind = "Advanced"
             /\ commands'[i].stream = queuedId
             /\ commands'[i].gen = 0 /\ commands'[i].frame = 0
    BY <1>0, <1>c, <2>1 DEF IdsTyped
  <2>3. queuedId <= lastId' /\ Len(commands) <= Len(commands')
    BY <1>0, <2>1, <2>2 DEF IdsTyped
  <2> QED BY <2>2, <2>3 DEF UiSends, IsRequest
<1>9. CASE Pause \/ Resume \/ PositionSeconds \/ PollRead \/ PollNothingPlayed \/ PollCurrent
             \/ PollCleared
  BY <1>9, NoneSent DEF Pause, Resume, PositionSeconds, PollRead, PollNothingPlayed,
     PollCurrent, PollCleared
<1> QED BY <1>1, <1>2, <1>3, <1>4, <1>5, <1>6, <1>7, <1>8, <1>9 DEF UiStep, Call, Poll

\* The decoder takes the first.
LEMMA CommandTaken ==
  ASSUME TypeOK, ApplyCommand
  PROVE  /\ Len(commands') = Len(commands) - 1 /\ Len(commands) > 0
         /\ Head(commands) = commands[1]
         /\ \A i \in 1..Len(commands') :
              commands'[i] = commands[i + 1] /\ i + 1 \in 1..Len(commands)
BY ApplyFrame, CommandTypes, EmptySeq, HeadTailProperties

LEMMA CommandsStay ==
  ASSUME [Next]_vars
  PROVE  UiStep \/ ApplyCommand \/ UNCHANGED commands
BY NextCases, ArriveFrame, StepFrame, PlayFrame DEF vars

\* Every step of the line is one of these.
LEMMA LineMoves ==
  ASSUME TypeOK, UiConsistent, UiKnows, [Next]_vars
  PROVE  Shrinks \/ (Step /\ ~ UNCHANGED blocks) \/ Refuse \/ PlayBlock
<1>1. CASE UNCHANGED <<playing, blocks, frontSeen, frontOffset>>
  BY <1>1, Unshrunk
<1>2. CASE Arrive \/ ApplyCommand \/ Step \/ UNCHANGED vars
  BY <1>1, <1>2, ArriveFrame, ApplyFrame, StepFrame DEF queueVars, callbackVars, vars
<1>3. CASE Play
  BY <1>1, <1>3, DropShrinks DEF Play, CallbackStart, CallbackEnd, queueVars
<1> QED BY <1>2, <1>3, NextCases, UiShrinks

\* What was told of the playback is what played, and poll() reads what was told.
LEMMA ToldMoves ==
  ASSUME TypeOK, UiConsistent, UiKnows, [Next]_vars
  PROVE  published' \in {published, playing} /\ snapshot' \in {snapshot, published, Silence}
<1>1. CASE UiStep
  BY <1>1, UiFrame, UiMoving DEF UiMoves
<1>2. CASE Arrive \/ ApplyCommand \/ Step \/ UNCHANGED vars
  BY <1>2, ArriveFrame, ApplyFrame, StepFrame DEF uiVars, callbackVars, vars
<1>3. CASE Play
  BY <1>3, PlayFrame DEF Play, CallbackStart, DropOlder, Refuse, PlayBlock, CallbackEnd,
     callbackVars, uiVars
<1> QED BY <1>1, <1>2, <1>3, NextCases

-----------------------------------------------------------------------------
(* What the decoder holds after each of its steps, field by field *)

Starts0(c) ==
  /\ decGeneration' = c.gen /\ decCurrent'.stream = c.stream
  /\ ~ decCurrent'.opened /\ ~ decCurrent'.atEnd /\ Position(decCurrent)' = c.frame
  /\ chainedFrom'.stream = 0 /\ decQueued' = 0 /\ marker'.stream = 0

LEMMA StartEffect == ASSUME TypeOK, ApplyStart PROVE Starts0(commands[1])
<1>1. commands[1].frame \in Nat /\ Head(commands) = commands[1]
  BY CommandTaken, CommandTypes DEF ApplyCommand
<1>2. /\ decGeneration' = commands[1].gen
      /\ decCurrent' = [stream |-> commands[1].stream, opened |-> FALSE, interrupted |-> FALSE,
                        seekTo |-> IF commands[1].frame > 0 THEN commands[1].frame ELSE NoFrame,
                        nextFrame |-> commands[1].frame, atEnd |-> FALSE]
      /\ chainedFrom' = NoSource /\ decQueued' = 0 /\ marker' = NoMarker
  BY <1>1 DEF ApplyStart, NewSource, NoSource
<1>3. Position(decCurrent)' = commands[1].frame
  BY <1>1, <1>2 DEF Position, NoFrame
<1> QED BY <1>2, <1>3 DEF Starts0, NoSource, NoMarker

\* The track sought in: the one decoded, or the one a chained stream followed.
Seeks(c, source) ==
  /\ decGeneration' = c.gen /\ source.stream = c.stream /\ decCurrent'.stream = c.stream
  /\ decCurrent.stream # 0
  /\ decCurrent'.opened = source.opened /\ decCurrent'.interrupted = source.interrupted
  /\ ~ decCurrent'.atEnd /\ Position(decCurrent)' = c.frame
  /\ chainedFrom'.stream = 0 /\ marker'.stream = 0

LEMMA SeekEffect ==
  ASSUME TypeOK, ApplySeek
  PROVE  \/ UNCHANGED <<decGeneration, decCurrent, chainedFrom, decQueued, marker, decEnded>>
         \/ Seeks(commands[1], decCurrent) /\ UNCHANGED decQueued
         \/ Seeks(commands[1], chainedFrom) /\ chainedFrom.stream # 0
              /\ decQueued' = decCurrent.stream
<1>1. commands[1].frame \in Nat /\ Head(commands) = commands[1]
  BY CommandTaken, CommandTypes DEF ApplyCommand
<1>2. decCurrent \in Source /\ chainedFrom \in Source
  BY DEF TypeOK, DecoderType
<1> DEFINE undo == chainedFrom.stream # 0 /\ chainedFrom.stream = commands[1].stream
           Sought(source) ==
             /\ decGeneration' = commands[1].gen /\ decCurrent.stream # 0
             /\ source.stream = commands[1].stream
             /\ decCurrent' = [source EXCEPT !.seekTo = commands[1].frame, !.atEnd = FALSE]
             /\ chainedFrom' = NoSource /\ marker' = NoMarker
<1>3. \/ UNCHANGED <<decGeneration, decCurrent, chainedFrom, decQueued, marker, decEnded>>
      \/ undo /\ Sought(chainedFrom) /\ decQueued' = decCurrent.stream
      \/ ~ undo /\ Sought(decCurrent) /\ decQueued' = decQueued
  BY <1>1 DEF ApplySeek, decVars
<1>4. ASSUME NEW source \in Source, Sought(source) PROVE Seeks(commands[1], source)
  <2>1. decCurrent' = [stream |-> source.stream, opened |-> source.opened,
                       interrupted |-> source.interrupted, seekTo |-> commands[1].frame,
                       nextFrame |-> source.nextFrame, atEnd |-> FALSE]
    BY <1>4 DEF Source
  <2>2. Position(decCurrent)' = commands[1].frame
    BY <1>1, <2>1 DEF Position, NoFrame
  <2> QED BY <1>4, <2>1, <2>2 DEF Seeks, NoSource, NoMarker
<1> QED BY <1>2, <1>3, <1>4

LEMMA OpenEffect ==
  ASSUME TypeOK, Open
  PROVE  /\ UNCHANGED <<blocks, chainedFrom, decQueued, marker, decEnded>>
         /\ marker.stream = 0 /\ ~ decCurrent.opened
         /\ \/ /\ decCurrent'.stream = decCurrent.stream /\ UNCHANGED events
               /\ ~ decCurrent'.opened /\ decCurrent'.atEnd = decCurrent.atEnd
               /\ Position(decCurrent)' = Position(decCurrent)
            \/ /\ ~ Urgent /\ decCurrent'.stream = decCurrent.stream
               /\ decCurrent'.opened /\ OpenSucceeds(decCurrent.stream)
               /\ decCurrent'.atEnd = decCurrent.atEnd
               /\ Position(decCurrent)' = Position(decCurrent)
               /\ events' = Append(events, [kind |-> "Opened", stream |-> decCurrent.stream])
            \/ /\ ~ Urgent /\ decCurrent' = NoSource /\ OpenFails(decCurrent.stream)
               /\ events' = Append(events, [kind |-> "OpenFailed", stream |-> decCurrent.stream])
<1>1. decCurrent \in Source
  BY DEF TypeOK, DecoderType
<1>2. ASSUME NEW o \in BOOLEAN, NEW x \in BOOLEAN,
             decCurrent' = [decCurrent EXCEPT !.opened = o, !.interrupted = x]
      PROVE  /\ decCurrent'.stream = decCurrent.stream /\ decCurrent'.opened = o
             /\ decCurrent'.atEnd = decCurrent.atEnd
             /\ Position(decCurrent)' = Position(decCurrent)
  BY <1>1, <1>2 DEF Source, Position
<1>3. ASSUME decCurrent' = [decCurrent EXCEPT !.interrupted = TRUE]
      PROVE  /\ decCurrent'.stream = decCurrent.stream /\ decCurrent'.opened = decCurrent.opened
             /\ decCurrent'.atEnd = decCurrent.atEnd
             /\ Position(decCurrent)' = Position(decCurrent)
  BY <1>1, <1>3 DEF Source, Position
<1>4. UNCHANGED <<blocks, chainedFrom, decQueued, marker, decEnded>>
      /\ marker.stream = 0 /\ ~ decCurrent.opened
  BY DEF Open, Working
<1> QED BY <1>2, <1>3, <1>4 DEF Open

LEMMA RecoverEffect ==
  ASSUME TypeOK, Recover
  PROVE  /\ UNCHANGED <<blocks, events, chainedFrom, decQueued, marker, decEnded>>
         /\ marker.stream = 0 /\ decCurrent.interrupted
         /\ decCurrent'.stream = decCurrent.stream /\ ~ decCurrent'.opened
         /\ decCurrent'.atEnd = decCurrent.atEnd
         /\ Position(decCurrent)' = Position(decCurrent)
<1>1. decCurrent \in Source
  BY DEF TypeOK, DecoderType
<1>2. decCurrent' = [stream |-> decCurrent.stream, opened |-> FALSE,
                     interrupted |-> decCurrent.interrupted, seekTo |-> Position(decCurrent),
                     nextFrame |-> decCurrent.nextFrame, atEnd |-> decCurrent.atEnd]
  BY <1>1 DEF Recover, Position, Source
<1>3. Position(decCurrent)' = Position(decCurrent)
  BY <1>1, <1>2 DEF Source, Position
<1> QED BY <1>2, <1>3 DEF Recover, Working

\* Interrupted() of a seek or a read: only that is remembered.
LEMMA InterruptEffect ==
  ASSUME TypeOK, Interrupted
  PROVE  /\ decCurrent'.stream = decCurrent.stream /\ decCurrent'.opened = decCurrent.opened
         /\ decCurrent'.interrupted /\ decCurrent'.atEnd = decCurrent.atEnd
         /\ Position(decCurrent)' = Position(decCurrent) /\ UNCHANGED blocks
BY DEF TypeOK, DecoderType, Interrupted, Source, Position

LEMMA SeekSourceEffect ==
  ASSUME TypeOK, SeekSource
  PROVE  /\ UNCHANGED <<blocks, events, chainedFrom, decQueued, marker, decEnded>>
         /\ marker.stream = 0 /\ decCurrent.opened /\ decCurrent.seekTo # NoFrame
         /\ decCurrent'.stream = decCurrent.stream /\ decCurrent'.opened
         /\ Position(decCurrent)' = Position(decCurrent)
         /\ \/ decCurrent'.atEnd = decCurrent.atEnd
            \/ decCurrent'.atEnd =>
                 /\ ~ decCurrent'.interrupted /\ decCurrent'.seekTo = NoFrame
                 /\ SoundOver(decCurrent.stream, decCurrent'.nextFrame)
<1>1. decCurrent \in Source /\ decCurrent.opened \in BOOLEAN
  BY DEF TypeOK, DecoderType, Source
<1>2. /\ UNCHANGED <<events, chainedFrom, decQueued, marker, decEnded>>
      /\ marker.stream = 0 /\ decCurrent.opened /\ ~ decCurrent.interrupted
      /\ decCurrent.seekTo # NoFrame /\ decCurrent.stream # 0
  BY DEF SeekSource, Ready, Working, Stepping
<1>3. CASE Interrupted
  BY <1>1, <1>2, <1>3, InterruptEffect
<1>4. CASE ~ Interrupted
  <2>1. PICK failed \in BOOLEAN :
          /\ \/ ReadReturns(decCurrent.seekTo)
                /\ failed = (decCurrent.seekTo > available[decCurrent.stream])
             \/ <<decCurrent.stream, decCurrent.seekTo>> \in Faults /\ failed
          /\ decCurrent' = [decCurrent EXCEPT !.seekTo = NoFrame,
                              !.nextFrame = decCurrent.seekTo, !.atEnd = failed]
          /\ UNCHANGED blocks
    BY <1>4 DEF SeekSource
  <2>2. decCurrent.seekTo \in Nat /\ available[decCurrent.stream] \in Nat
    BY <1>1, <1>2, EngineAssumption DEF Source, Frame, TypeOK, ByteType, Stream, StreamId
  <2>3. failed => SoundOver(decCurrent.stream, decCurrent.seekTo)
    <3>1. CASE <<decCurrent.stream, decCurrent.seekTo>> \in Faults
      BY <3>1 DEF SoundOver
    <3>2. CASE /\ ReadReturns(decCurrent.seekTo)
               /\ failed = (decCurrent.seekTo > available[decCurrent.stream])
      <4>1. SUFFICES ASSUME failed PROVE SoundOver(decCurrent.stream, decCurrent.seekTo)
        OBVIOUS
      <4>2. decCurrent.seekTo > available[decCurrent.stream]
        BY <3>2, <4>1
      <4>3. ~ (available[decCurrent.stream] >= decCurrent.seekTo)
        BY <2>2, <4>2
      <4> QED BY <2>2, <3>2, <4>2, <4>3 DEF ReadReturns, SoundOver
    <3> QED BY <2>1, <3>1, <3>2
  <2>4. /\ decCurrent'.stream = decCurrent.stream /\ decCurrent'.opened = decCurrent.opened
        /\ decCurrent'.interrupted = decCurrent.interrupted /\ decCurrent'.seekTo = NoFrame
        /\ decCurrent'.nextFrame = decCurrent.seekTo /\ decCurrent'.atEnd = failed
    BY <1>1, <2>1 DEF Source
  <2>5. Position(decCurrent)' = Position(decCurrent)
    BY <1>2, <2>4 DEF Position
  <2> QED BY <1>2, <2>1, <2>3, <2>4, <2>5
<1> QED BY <1>3, <1>4

LEMMA AppendIsNew == ASSUME NEW S, NEW s \in Seq(S), NEW e PROVE Append(s, e) # s
<1>1. s \in Seq(S \cup {e}) /\ e \in S \cup {e} /\ Len(s) \in Nat
  BY SeqMonotonic, LenProperties
<1>2. Len(Append(s, e)) = Len(s) + 1
  BY <1>1, AppendProperties
<1> QED BY <1>1, <1>2

\* A block of sound, none yet, or the end of what has arrived.
Reads ==
  /\ UNCHANGED <<events, chainedFrom, decQueued, marker, decEnded>>
  /\ marker.stream = 0 /\ decCurrent.opened /\ ~ decCurrent.interrupted /\ ~ decCurrent.atEnd
  /\ decCurrent'.stream = decCurrent.stream /\ decCurrent'.opened
  /\ decCurrent'.atEnd = decCurrent.atEnd \/
       (decCurrent'.atEnd =>
          /\ ~ decCurrent'.interrupted /\ decCurrent'.seekTo = NoFrame
          /\ SoundOver(decCurrent.stream, decCurrent'.nextFrame))

LEMMA DecodeEffect ==
  ASSUME TypeOK, DecodeBlock
  PROVE  /\ Reads /\ Position(decCurrent) = decCurrent.nextFrame
         /\ \/ UNCHANGED blocks /\ Position(decCurrent)' = Position(decCurrent)
            \/ \E b \in Block : Sounding(b) /\ Position(decCurrent)' = b.frame + b.count
<1>1. decCurrent \in Source /\ decCurrent.opened \in BOOLEAN
  BY DEF TypeOK, DecoderType, Source
<1>2. /\ UNCHANGED <<events, chainedFrom, decQueued, marker, decEnded>>
      /\ marker.stream = 0 /\ decCurrent.opened /\ ~ decCurrent.interrupted
      /\ decCurrent.seekTo = NoFrame /\ decCurrent.stream # 0 /\ ~ decCurrent.atEnd
  BY DEF DecodeBlock, Ready, Working, Stepping
<1>3. Position(decCurrent) = decCurrent.nextFrame
  BY <1>2 DEF Position
<1>4. CASE Interrupted
  BY <1>1, <1>2, <1>3, <1>4, InterruptEffect DEF Reads
<1>5. CASE UNCHANGED blocks /\ ~ Interrupted
  <2>1. /\ Gives(decCurrent.stream, decCurrent.nextFrame, 0)
        /\ decCurrent' = [decCurrent EXCEPT !.nextFrame = @ + 0, !.atEnd = TRUE]
    <3> DEFINE block(n) == [gen |-> decGeneration, stream |-> decCurrent.stream,
                            frame |-> decCurrent.nextFrame, count |-> n, end |-> FALSE]
    <3>1. \A n : ~ Push(block(n))
      BY <1>5, LineTypes, AppendIsNew DEF Push, LineTyped
    <3>2. PICK n \in 0..BlockFrames, last \in BOOLEAN :
            /\ Gives(decCurrent.stream, decCurrent.nextFrame, n)
            /\ n = 0 => last
            /\ IF n = 0 THEN UNCHANGED blocks ELSE Push(block(n))
            /\ decCurrent' = [decCurrent EXCEPT !.nextFrame = @ + n, !.atEnd = last]
      BY <1>5 DEF DecodeBlock
    <3> HIDE DEF block
    <3> QED BY <3>1, <3>2
  <2>2. decCurrent.nextFrame \in Nat /\ decCurrent.nextFrame + 0 = decCurrent.nextFrame
    BY <1>1 DEF Source, Frame
  <2>3. SoundOver(decCurrent.stream, decCurrent.nextFrame)
    <3>1. 0 \in 0..BlockFrames /\ 0 < BlockFrames
      BY EngineAssumption
    <3> QED BY <1>2, <2>1, <2>2, <3>1, GivenOver
  <2>4. /\ decCurrent'.stream = decCurrent.stream /\ decCurrent'.opened = decCurrent.opened
        /\ decCurrent'.interrupted = decCurrent.interrupted
        /\ decCurrent'.seekTo = decCurrent.seekTo
        /\ decCurrent'.nextFrame = decCurrent.nextFrame /\ decCurrent'.atEnd = TRUE
    BY <1>1, <2>1, <2>2 DEF Source
  <2>5. Position(decCurrent)' = Position(decCurrent)
    BY <2>4 DEF Position
  <2> QED BY <1>2, <1>3, <1>5, <2>3, <2>4, <2>5 DEF Reads
<1>6. CASE ~ UNCHANGED blocks
  <2>1. PICK b \in Block : Writing(b) \/ Sounding(b)
    BY <1>6, StepWrites DEF Step
  <2>2. Sounding(b)
    BY <1>2, <2>1 DEF Writing
  <2>3. PICK last \in BOOLEAN :
          /\ decCurrent' = [decCurrent EXCEPT !.nextFrame = b.frame + b.count, !.atEnd = last]
          /\ last => /\ SoundOver(decCurrent.stream, b.frame + b.count)
                     /\ ~ decCurrent.interrupted
    BY <2>2 DEF Sounding
  <2>4. /\ decCurrent'.stream = decCurrent.stream /\ decCurrent'.opened = decCurrent.opened
        /\ decCurrent'.interrupted = decCurrent.interrupted
        /\ decCurrent'.seekTo = decCurrent.seekTo
        /\ decCurrent'.nextFrame = b.frame + b.count /\ decCurrent'.atEnd = last
    BY <1>1, <2>3 DEF Source
  <2>5. Position(decCurrent)' = b.frame + b.count
    BY <1>2, <2>4 DEF Position
  <2>6. b.frame + b.count \in Nat
    BY DEF Block, Frame
  <2>7. last => SoundOver(decCurrent.stream, decCurrent'.nextFrame)
    BY <2>3, <2>4, <2>6
  <2> QED BY <1>2, <1>3, <2>2, <2>3, <2>4, <2>5, <2>7 DEF Reads
<1> QED BY <1>4, <1>5, <1>6

Chains ==
  /\ OpenSucceeds(decQueued) /\ chainedFrom' = decCurrent
  /\ decCurrent'.stream = decQueued /\ decCurrent'.opened /\ ~ decCurrent'.atEnd
  /\ Position(decCurrent)' = 0
  /\ events' = Append(events, [kind |-> "Opened", stream |-> decQueued])

LEMMA ChainEffect ==
  ASSUME TypeOK, Chain
  PROVE  /\ UNCHANGED <<blocks, marker, decEnded>> /\ decQueued' = 0
         /\ marker.stream = 0 /\ decCurrent.opened /\ decCurrent.atEnd /\ ~ Urgent
         /\ chainedFrom.stream = 0 /\ decQueued # 0 /\ complete[decQueued]
         /\ \/ Chains
            \/ /\ UNCHANGED <<chainedFrom, decCurrent>> /\ OpenFails(decQueued)
               /\ events' = Append(events, [kind |-> "OpenFailed", stream |-> decQueued])
<1>1. /\ UNCHANGED <<blocks, marker, decEnded>> /\ decQueued' = 0
      /\ marker.stream = 0 /\ decCurrent.opened /\ decCurrent.atEnd /\ ~ Urgent
      /\ chainedFrom.stream = 0 /\ decQueued # 0 /\ complete[decQueued]
  BY DEF Chain, AtEnd, Ready, Working, MayChain
<1>2. ASSUME decCurrent' = [NewSource(decQueued, 0) EXCEPT !.opened = TRUE]
      PROVE  /\ decCurrent'.stream = decQueued /\ decCurrent'.opened /\ ~ decCurrent'.atEnd
             /\ Position(decCurrent)' = 0
  <2>1. decCurrent' = [stream |-> decQueued, opened |-> TRUE, interrupted |-> FALSE,
                       seekTo |-> NoFrame, nextFrame |-> 0, atEnd |-> FALSE]
    <3> DEFINE new == NewSource(decQueued, 0)
    <3>1. /\ new \in Source /\ new.stream = decQueued /\ ~ new.interrupted
          /\ new.interrupted = FALSE /\ new.seekTo = NoFrame /\ new.nextFrame = 0
          /\ new.atEnd = FALSE
      <4>1. decQueued \in StreamId
        BY DEF TypeOK, DecoderType
      <4>2. ~ (0 > 0)
        OBVIOUS
      <4> QED BY <4>1, <4>2, NewSourceType DEF NewSource, NoSource, Frame
    <3> HIDE DEF new
    <3>2. decCurrent' = [new EXCEPT !.opened = TRUE]
      BY <1>2 DEF new
    <3> QED BY ONLY <3>1, <3>2 DEF Source
  <2> QED BY <2>1 DEF Position
<1> QED BY <1>1, <1>2 DEF Chain, Chains

-----------------------------------------------------------------------------
(* Where the items of the line come from *)

\* What the decoder may write: the end marker, or sound of what it has opened.
Written(item) ==
  /\ Step /\ ~ UNCHANGED blocks /\ item.gen = decGeneration
  /\ \/ marker.stream # 0 /\ item.stream = marker.stream
     \/ marker.stream = 0 /\ decCurrent.opened /\ item.stream = decCurrent.stream

LEMMA LineComes ==
  ASSUME TypeOK, UiConsistent, UiKnows, Items, [Next]_vars
  PROVE  \A i \in Line' :
           \/ \E k \in Line : Item(i)'.gen = Item(k).gen /\ Item(i)'.stream = Item(k).stream
           \/ Written(Item(i)')
<1>1. TypeOK' /\ LineTyped' /\ LineTyped
  BY TypeKept, LineTypes, LineTypesNext
<1> DEFINE Old(i) == \E k \in Line : Item(i)'.gen = Item(k).gen /\ Item(i)'.stream = Item(k).stream
<1> SUFFICES ASSUME NEW i \in Line' PROVE Old(i) \/ Written(Item(i)')
  OBVIOUS
<1>2. CASE Shrinks
  <2>1. PICK n \in 0..Len(blocks) : Shifted(n)
    BY <1>2 DEF Shrinks
  <2>2. \E k \in Line : Item(i)' = Item(k)
    BY <1>1, <2>1 DEF Shifted, Line, LineTyped
  <2> QED BY <2>2
<1>3. CASE Step /\ ~ UNCHANGED blocks
  <2>1. PICK b \in Block : Writing(b) \/ Sounding(b)
    BY <1>3, StepWrites
  <2>2. UNCHANGED <<playing, frontSeen, frontOffset>> /\ (frontSeen => blocks # <<>>) /\ Push(b)
    BY <1>3, <2>1, StepFrame DEF callbackVars, Items, Writing, Sounding
  <2>3. /\ i \in Line => Item(i)' = Item(i)
        /\ i \in Line \/ Item(i)' = Last'
        /\ Last' = [gen |-> b.gen, stream |-> b.stream, from |-> b.frame,
                    to |-> b.frame + b.count, end |-> b.end]
    BY <2>2, PushEffect
  <2>4. CASE i \in Line
    BY <2>3, <2>4
  <2>5. CASE Item(i)' = Last'
    <3>1. Item(i)'.gen = b.gen /\ Item(i)'.stream = b.stream
      BY <2>3, <2>5
    <3> QED BY <1>3, <2>1, <3>1 DEF Written, Writing, Sounding
  <2> QED BY <2>3, <2>4, <2>5
<1>4. CASE Refuse
  <2>1. Refuses /\ Len(blocks') = Len(blocks)
    BY <1>4, RefuseEffect DEF Refuses
  <2>2. i \in Line /\ Item(i)'.stream = Item(i).stream /\ Item(i)'.gen = Item(i).gen
    BY <1>1, <2>1 DEF Refuses, Line, LineTyped, Item
  <2> QED BY <2>2
<1>5. CASE PlayBlock
  <2>1. GoesOn /\ \E to \in Nat : Plays(to)
    BY <1>5, PlayEffect
  <2>2. PICK to \in Nat : Plays(to)
    BY <2>1
  <2>3. 1 \in Line /\ (i = 0 \/ i = 1 \/ i \in 2..Len(blocks'))
        /\ i \in 0..Len(blocks') /\ Len(blocks) \in Nat /\ Len(blocks') \in Nat
    BY <1>1, <2>1 DEF GoesOn, Line, LineTyped
  <2>4. CASE i = 0
    BY <2>2, <2>3, <2>4 DEF Plays
  <2>5. CASE i # 0 /\ to = Item(1).to
    <3>1. i + 1 \in 1..Len(blocks) /\ Item(i)' = Item(i + 1)
      BY <2>2, <2>3, <2>5 DEF Plays
    <3> QED BY <3>1 DEF Line
  <2>6. CASE i # 0 /\ to # Item(1).to
    <3>1. \/ i = 1 /\ Item(i)' = [Item(1) EXCEPT !.from = to]
          \/ i \in 2..Len(blocks) /\ Item(i)' = Item(i)
      BY <2>2, <2>3, <2>6 DEF Plays
    <3>2. CASE i = 1
      BY <2>3, <3>1, <3>2 DEF Item
    <3>3. CASE i # 1
      BY <3>1, <3>3 DEF Line
    <3> QED BY <3>2, <3>3
  <2> QED BY <2>4, <2>5, <2>6
<1> QED BY <1>2, <1>3, <1>4, <1>5, LineMoves

-----------------------------------------------------------------------------
(* The threads know each other's ids and requests *)

LEMMA UiKnowsKept ==
  ASSUME TypeOK, UiConsistent, GenerationsInOrder, UiKnows, [Next]_vars
  PROVE  UiKnows'
<1>0. /\ (queuedId # 0 => queuedId = lastId) /\ (~ device => callback = "idle")
      /\ callbackGen <= generation /\ snapshot.gen <= published.gen
      /\ (currentId # 0 => generation > 0) /\ (queuedId # 0 => currentId # 0)
      /\ generation \in Nat /\ callbackGen \in Nat /\ snapshot.gen \in Nat
      /\ published.gen \in Nat /\ playing.gen \in Nat /\ published.gen <= playing.gen
      /\ (state \in {"Playing", "Buffering"} => device)
  BY DEF TypeOK, UiType, CallbackType, Playback, UiConsistent, UiKnows, GenerationsInOrder
<1>1. CASE UiStep
  <2>1. /\ UNCHANGED <<callback, callbackGen, published>>
        /\ callbackGen' <= generation' /\ snapshot'.gen <= published'.gen
    <3>1. UNCHANGED <<callback, callbackGen, published>>
      BY <1>1, UiFrame
    <3>2. generation' \in {generation, generation + 1} /\ snapshot' \in {snapshot, published, Silence}
      BY <1>1, UiMoving DEF UiMoves
    <3> QED BY <1>0, <3>1, <3>2 DEF Silence
  <2>2. (queuedId' # 0 => queuedId' = lastId') /\ (currentId' # 0 => generation' > 0)
    <3> USE <1>0
    <3>1. CASE \E f \in Targets : BeginStream(f)
      BY <3>1 DEF BeginStream, NewGeneration
    <3>2. CASE \E n \in 0..MaxFrames : AttachSource(n)
      BY <3>2 DEF AttachSource, uiVars
    <3>3. CASE QueueStream \/ ClearQueued \/ PositionSeconds \/ Pause \/ Resume \/ PollRead
      BY <3>3 DEF QueueStream, ClearQueued, PositionSeconds, Pause, Resume, PollRead
    <3>4. CASE PlayQueuedNow \/ Stop \/ PollUndecodable \/ \E f \in Targets : Seek(f)
      BY <3>4 DEF PlayQueuedNow, Stop, PollUndecodable, StopEngine, Seek, NewGeneration
    <3>5. CASE PollNothingPlayed \/ PollCurrent \/ PollAdvanced \/ PollCleared
      BY <3>5 DEF PollNothingPlayed, PollCurrent, PollAdvanced, PollCleared, EventsHandled,
         EventsTaken, QueuedKept, QueuedAfterEvents
    <3> QED BY <1>1, <3>1, <3>2, <3>3, <3>4, <3>5 DEF UiStep, Call, Poll
  <2>3. ~ device' => callback = "idle"
    <3> USE <1>0
    <3>1. CASE Pause \/ Stop \/ PollUndecodable
      BY <3>1 DEF Pause, Stop, PollUndecodable, StopEngine, DeviceCanStop
    <3>2. CASE device' \/ UNCHANGED device
      BY <3>2
    <3>3. ASSUME UiStep, ~ (Pause \/ Stop \/ PollUndecodable) PROVE device' \/ UNCHANGED device
      BY <3>3 DEF UiStep, Call, Poll, BeginStream, AttachSource, QueueStream, ClearQueued,
         PlayQueuedNow, StartDevice, Resume, PositionSeconds, Seek, PollRead, PollNothingPlayed,
         PollCurrent, PollAdvanced, PollCleared, EventsHandled, uiVars
    <3> QED BY <1>1, <3>1, <3>2, <3>3
  <2> QED BY <2>1, <2>2, <2>3 DEF UiKnows
<1>2. CASE Arrive \/ ApplyCommand \/ Step \/ UNCHANGED vars
  BY <1>0, <1>2, ArriveFrame, ApplyFrame, StepFrame DEF uiVars, callbackVars, vars, UiKnows
<1>3. CASE Play
  <2>1. UNCHANGED <<queuedId, lastId, device, generation, snapshot, currentId>>
    BY <1>3, PlayFrame DEF uiVars
  <2>2. /\ UNCHANGED published \/ published' = playing
        /\ callbackGen' \in {callbackGen, generation}
        /\ callback' = "idle" \/ device
    BY <1>0, <1>3 DEF Play, CallbackStart, DropOlder, Refuse, PlayBlock, CallbackEnd, callbackVars
  <2> QED BY <1>0, <2>1, <2>2 DEF UiKnows
<1> QED BY <1>1, <1>2, <1>3, NextCases

\* What the decoder goes on to was named by a command or is what it held.
LEMMA IdsGivenKept == ASSUME LineInv, [Next]_vars PROVE IdsGiven'
<1>0. /\ TypeOK /\ UiConsistent /\ UiKnows /\ IdsGiven /\ IdsTyped /\ LineTyped
  BY LineTypes, IdsAreTyped DEF LineInv, Known, Wiring
<1>1. TypeOK' /\ LineTyped' /\ IdsTyped'
  BY <1>0, TypeKept, LineTypesNext, IdsAreTypedNext
<1>g. /\ lastId \in Nat /\ lastId' \in Nat
      /\ \A i \in 1..Len(commands) : commands[i].stream <= lastId /\ commands[i].stream \in Nat
      /\ \A i \in Line : Item(i).stream <= lastId /\ Item(i).stream \in Nat
  <2>1. \A i \in Line : Item(i).stream \in Nat
    BY <1>0, EngineAssumption DEF LineTyped, StreamId
  <2> QED BY <1>0, <1>1, <2>1, CommandTypes DEF IdsGiven, IdsTyped
<1>2. lastId <= lastId' /\ (~ UiStep => UNCHANGED lastId)
  BY <1>0, UiMoving, NextCases, ArriveFrame, ApplyFrame, StepFrame, PlayFrame
     DEF UiMoves, uiVars, vars, IdsTyped
<1>3. \A i \in 1..Len(commands') : commands'[i].stream <= lastId'
  <2>1. CASE UiStep
    <3> SUFFICES ASSUME NEW i \in 1..Len(commands') PROVE commands'[i].stream <= lastId'
      OBVIOUS
    <3>0. UiSends /\ Len(commands) \in Nat
      BY <1>0, <2>1, UiSending, CommandTypes
    <3>1. CASE i <= Len(commands)
      <4>1. i \in 1..Len(commands) /\ commands'[i] = commands[i]
        BY <3>0, <3>1 DEF UiSends
      <4> QED BY <1>g, <1>2, <4>1
    <3>2. CASE ~ (i <= Len(commands))
      BY <3>0, <3>2 DEF UiSends
    <3> QED BY <3>1, <3>2
  <2>2. CASE ApplyCommand
    BY <1>0, <1>g, <2>2, CommandTaken, ApplyFrame DEF uiVars
  <2>3. CASE UNCHANGED commands
    BY <1>g, <1>2, <2>3
  <2> QED BY <2>1, <2>2, <2>3, CommandsStay
<1>4. decCurrent'.stream <= lastId' /\ chainedFrom'.stream <= lastId'
      /\ decQueued' <= lastId' /\ marker'.stream <= lastId'
  <2>0. /\ decCurrent.stream <= lastId /\ chainedFrom.stream <= lastId
        /\ decQueued <= lastId /\ marker.stream <= lastId
        /\ decCurrent.stream \in Nat /\ chainedFrom.stream \in Nat
        /\ decQueued \in Nat /\ marker.stream \in Nat
    BY <1>0 DEF IdsGiven, IdsTyped
  <2>1. CASE UNCHANGED <<decCurrent, chainedFrom, decQueued, marker>>
    BY <1>g, <1>2, <2>0, <2>1
  <2>2. CASE UiStep \/ Arrive \/ Play \/ UNCHANGED vars
    BY <2>1, <2>2, UiFrame, ArriveFrame, PlayFrame DEF decVars, vars
  <2>3. CASE ApplyCommand
    <3> DEFINE ids == {0, decCurrent.stream, chainedFrom.stream, decQueued, marker.stream,
                       Head(commands).stream}
    <3>1. Head(commands).stream <= lastId /\ UNCHANGED lastId
      BY <1>0, <2>3, CommandTaken, ApplyFrame, CommandTypes DEF IdsGiven, uiVars
    <3>2. /\ decCurrent'.stream \in ids /\ chainedFrom'.stream \in ids
          /\ decQueued' \in ids /\ marker'.stream \in ids
      <4>1. Head(commands) = commands[1]
        BY <1>0, <2>3, CommandTaken
      <4>2. CASE ApplyStart
        BY <1>0, <4>1, <4>2, StartEffect DEF Starts0
      <4>3. CASE ApplyQueue \/ ApplyAdvanced \/ ApplyStop
        BY <4>3 DEF ApplyQueue, ApplyAdvanced, ApplyStop, NoSource, NoMarker
      <4>4. CASE ApplyClearQueued
        BY <4>4 DEF ApplyClearQueued, NoSource
      <4>5. CASE ApplySeek
        BY <1>0, <4>1, <4>5, SeekEffect DEF Seeks
      <4> QED BY <2>3, <4>2, <4>3, <4>4, <4>5 DEF ApplyCommand
    <3> QED BY <1>0, <3>1, <3>2 DEF IdsGiven, IdsTyped
  <2>4. CASE Step
    <3>1. UNCHANGED lastId
      BY <2>4, StepFrame DEF uiVars
    <3> DEFINE ids == {0, decCurrent.stream, chainedFrom.stream, decQueued, marker.stream}
    <3>2. /\ decCurrent'.stream \in ids /\ chainedFrom'.stream \in ids
          /\ decQueued' \in ids /\ marker'.stream \in ids
      <4>2. CASE WriteMarker \/ EndStream
        BY <4>2 DEF WriteMarker, EndStream, NoMarker
      <4>3. CASE Open \/ Recover \/ SeekSource \/ DecodeBlock
        BY <1>0, <4>3, OpenEffect, RecoverEffect, SeekSourceEffect, DecodeEffect
           DEF Reads, NoSource
      <4>4. CASE Chain
        BY <1>0, <4>4, ChainEffect DEF Chains
      <4> QED BY <2>4, <4>2, <4>3, <4>4 DEF Step
    <3> QED BY <1>0, <3>1, <3>2 DEF IdsGiven, IdsTyped
  <2> QED BY <2>2, <2>3, <2>4, NextCases
<1>5. \A i \in Line' : Item(i)'.stream <= lastId'
  <2> SUFFICES ASSUME NEW i \in Line' PROVE Item(i)'.stream <= lastId'
    OBVIOUS
  <2>1. CASE \E k \in Line : Item(i)'.stream = Item(k).stream
    BY <1>g, <1>2, <2>1
  <2>2. CASE Written(Item(i)')
    <3>1. Item(i)'.stream \in {marker.stream, decCurrent.stream}
      BY <2>2 DEF Written
    <3>2. marker.stream \in Nat /\ decCurrent.stream \in Nat
          /\ marker.stream <= lastId /\ decCurrent.stream <= lastId
      BY <1>0 DEF IdsTyped, IdsGiven
    <3> QED BY <1>g, <1>2, <3>1, <3>2
  <2> QED BY <1>0, <2>1, <2>2, LineComes DEF LineInv, Contiguous
<1>6. published'.stream <= lastId' /\ snapshot'.stream <= lastId'
  <2>1. /\ published.stream \in Nat /\ snapshot.stream \in Nat /\ playing.stream \in Nat
        /\ playing.stream <= lastId
    BY <1>0, EngineAssumption DEF TypeOK, UiType, CallbackType, Playback, StreamId, IdsGiven, Item,
       Line, LineTyped
  <2>2. published' \in {published, playing} /\ snapshot' \in {snapshot, published, Silence}
    BY <1>0, ToldMoves
  <2>3. published.stream <= lastId /\ snapshot.stream <= lastId
    BY <1>0 DEF IdsGiven
  <2>4. published'.stream <= lastId /\ snapshot'.stream <= lastId
        /\ published'.stream \in Nat /\ snapshot'.stream \in Nat
    BY <1>g, <2>1, <2>2, <2>3 DEF Silence
  <2> QED BY <1>g, <1>2, <2>4
<1> QED BY <1>3, <1>4, <1>5, <1>6 DEF IdsGiven

-----------------------------------------------------------------------------
(* What the decoder holds *)

LEMMA ClearEffect ==
  ASSUME TypeOK, ApplyClearQueued
  PROVE  /\ commands[1].kind = "ClearQueued" /\ UNCHANGED <<decGeneration, decEnded>>
         /\ \/ UNCHANGED <<decCurrent, chainedFrom, marker>> /\ decQueued' \in {0, decQueued}
            \/ /\ chainedFrom.stream # 0 /\ decCurrent.stream = commands[1].stream
               /\ marker'.stream = commands[1].stream /\ marker'.frame = 0
               /\ decCurrent' = chainedFrom /\ chainedFrom'.stream = 0 /\ UNCHANGED decQueued
<1>1. Head(commands) = commands[1]
  BY CommandTaken DEF ApplyCommand
<1> QED BY <1>1 DEF ApplyClearQueued, Apply, NoSource

LEMMA OtherEffect ==
  ASSUME TypeOK, ApplyQueue \/ ApplyAdvanced \/ ApplyStop
  PROVE  /\ UNCHANGED decGeneration
         /\ \/ /\ commands[1].kind = "Queue" /\ decQueued' = commands[1].stream
               /\ UNCHANGED <<decCurrent, chainedFrom, marker, decEnded>>
            \/ /\ commands[1].kind = "Advanced" /\ UNCHANGED <<decCurrent, decQueued, marker, decEnded>>
               /\ chainedFrom'.stream = 0 \/ UNCHANGED chainedFrom
            \/ /\ commands[1].kind = "Stop" /\ decCurrent'.stream = 0 /\ ~ decCurrent'.opened
               /\ ~ decCurrent'.atEnd
               /\ chainedFrom'.stream = 0 /\ decQueued' = 0 /\ marker'.stream = 0
<1>1. Head(commands) = commands[1]
  BY CommandTaken DEF ApplyCommand
<1> QED BY <1>1 DEF ApplyQueue, ApplyAdvanced, ApplyStop, Apply, NoSource, NoMarker

\* What every command does to the decoder.
Applies ==
  \/ commands[1].kind = "Start" /\ Starts0(commands[1])
  \/ commands[1].kind = "Seek" /\
       \/ UNCHANGED <<decGeneration, decCurrent, chainedFrom, decQueued, marker, decEnded>>
       \/ Seeks(commands[1], decCurrent) /\ UNCHANGED decQueued
       \/ Seeks(commands[1], chainedFrom) /\ chainedFrom.stream # 0
            /\ decQueued' = decCurrent.stream
  \/ /\ commands[1].kind = "ClearQueued" /\ UNCHANGED <<decGeneration, decEnded>>
     /\ \/ UNCHANGED <<decCurrent, chainedFrom, marker>> /\ decQueued' \in {0, decQueued}
        \/ /\ chainedFrom.stream # 0 /\ decCurrent.stream = commands[1].stream
           /\ marker'.stream = commands[1].stream /\ marker'.frame = 0
           /\ decCurrent' = chainedFrom /\ chainedFrom'.stream = 0 /\ UNCHANGED decQueued
  \/ /\ commands[1].kind = "Queue" /\ decQueued' = commands[1].stream
     /\ UNCHANGED <<decGeneration, decCurrent, chainedFrom, marker, decEnded>>
  \/ /\ commands[1].kind = "Advanced"
     /\ UNCHANGED <<decGeneration, decCurrent, decQueued, marker, decEnded>>
     /\ chainedFrom'.stream = 0 \/ UNCHANGED chainedFrom
  \/ /\ commands[1].kind = "Stop" /\ UNCHANGED decGeneration
     /\ decCurrent'.stream = 0 /\ ~ decCurrent'.opened /\ ~ decCurrent'.atEnd
     /\ chainedFrom'.stream = 0 /\ decQueued' = 0 /\ marker'.stream = 0

LEMMA ApplyEffect == ASSUME TypeOK, ApplyCommand PROVE Applies
<1>1. Head(commands) = commands[1]
  BY CommandTaken
<1>2. CASE ApplyStart
  BY <1>1, <1>2, StartEffect DEF ApplyStart, Apply, Applies
<1>3. CASE ApplySeek
  BY <1>1, <1>3, SeekEffect DEF ApplySeek, Apply, Applies
<1>4. CASE ApplyClearQueued
  BY <1>4, ClearEffect DEF Applies
<1>5. CASE ApplyQueue \/ ApplyAdvanced \/ ApplyStop
  BY <1>5, OtherEffect DEF Applies
<1> QED BY <1>2, <1>3, <1>4, <1>5 DEF ApplyCommand

BytesStay ==
  \A s \in StreamId : s # 0 =>
    /\ available[s] \in Nat /\ available'[s] \in Nat
    /\ available[s] <= available'[s]
    /\ complete[s] => complete'[s] /\ available'[s] = available[s]
    /\ MayBeOver(s) => complete'[s] \/ s \in Faulty
    /\ \A f : SoundOver(s, f)
          => (complete'[s] /\ available'[s] <= f) \/ <<s, f>> \in Faults

LEMMA BytesStaying == ASSUME TypeOK, [Next]_vars PROVE BytesStay
<1> SUFFICES ASSUME NEW s \in StreamId, s # 0
             PROVE  /\ available[s] \in Nat /\ available'[s] \in Nat
                    /\ available[s] <= available'[s]
                    /\ complete[s] => complete'[s] /\ available'[s] = available[s]
  BY DEF BytesStay, MayBeOver, SoundOver
<1>1. s \in Stream
  BY EngineAssumption DEF StreamId, Stream
<1>2. TypeOK'
  BY TypeKept
<1> QED BY <1>1, <1>2, BytesGrow DEF TypeOK, ByteType

\* Only what was opened is at an end, is chained or marked, so it has sound.
LEMMA SourcesKept ==
  ASSUME TypeOK, UiConsistent, RequestsNow, Sources, [Next]_vars
  PROVE  Sources'
<1>0. IdsTyped /\ BytesStay /\ IdsTyped' /\ decGeneration \in Nat
  BY IdsAreTyped, TypeKept, IdsAreTypedNext, BytesStaying DEF IdsTyped
<1>1. CASE UNCHANGED <<decGeneration, decCurrent, chainedFrom, marker>>
  <2>1. decCurrent.opened => Openable(decCurrent.stream)'
    BY <1>0, <1>1 DEF Sources, MayBeOver, Openable, BytesStay, IdsTyped
  <2>2. decCurrent.atEnd => AtItsEnd(decCurrent)'
    BY <1>0, <1>1 DEF Sources, AtItsEnd, SoundOver, MayBeOver, BytesStay, IdsTyped
  <2>3. chainedFrom.stream # 0 =>
          /\ AtItsEnd(chainedFrom)' /\ Openable(chainedFrom.stream)'
          /\ complete'[decCurrent.stream] /\ Openable(decCurrent.stream)'
    BY <1>0, <1>1 DEF Sources, AtItsEnd, SoundOver, MayBeOver, Openable, BytesStay, IdsTyped
  <2>4. marker.stream # 0 => /\ complete'[marker.stream] \/ marker.stream \in Faulty
                             /\ Openable(marker.stream)'
    BY <1>0, <1>1 DEF Sources, MayBeOver, Openable, BytesStay, IdsTyped
  <2> QED BY <1>1, <2>1, <2>2, <2>3, <2>4 DEF Sources, MayBeOver
<1>2. CASE UiStep \/ Arrive \/ Play \/ UNCHANGED vars
  BY <1>1, <1>2, UiFrame, ArriveFrame, PlayFrame DEF decVars, vars
<1>3. CASE ApplyCommand
  <2>1. UNCHANGED <<available, complete>>
    BY <1>3, ApplyFrame DEF byteVars
  <2>2. Applies /\ 1 \in 1..Len(commands)
    BY <1>3, ApplyEffect, CommandTaken, CommandTypes
  <2>3. CASE commands[1].kind = "Start" /\ Starts0(commands[1])
    BY <1>0, <2>1, <2>2, <2>3 DEF Sources, MayBeOver, Starts0, RequestsNow, IsRequest
  <2>4. CASE commands[1].kind = "Seek" /\ Seeks(commands[1], decCurrent)
    BY <1>0, <2>1, <2>2, <2>4 DEF Sources, MayBeOver, Seeks, RequestsNow, IsRequest, Openable
  <2>5. CASE commands[1].kind = "Seek" /\ Seeks(commands[1], chainedFrom) /\ chainedFrom.stream # 0
    BY <1>0, <2>1, <2>2, <2>5 DEF Sources, MayBeOver, Seeks, RequestsNow, IsRequest, Openable
  <2>6. CASE /\ chainedFrom.stream # 0 /\ decCurrent.stream = commands[1].stream
             /\ marker'.stream = commands[1].stream /\ UNCHANGED decGeneration
             /\ decCurrent' = chainedFrom /\ chainedFrom'.stream = 0
    BY <1>0, <2>1, <2>6 DEF Sources, Openable, AtItsEnd, SoundOver, MayBeOver
  <2>7. CASE /\ UNCHANGED <<decGeneration, decCurrent, marker>>
             /\ chainedFrom'.stream = 0
    BY <1>0, <2>1, <2>7 DEF Sources, Openable, AtItsEnd, SoundOver, MayBeOver
  <2>8. CASE decCurrent'.stream = 0 /\ ~ decCurrent'.opened /\ ~ decCurrent'.atEnd
             /\ chainedFrom'.stream = 0 /\ marker'.stream = 0
    BY <2>8 DEF Sources, MayBeOver
  <2> QED BY <1>1, <2>2, <2>3, <2>4, <2>5, <2>6, <2>7, <2>8 DEF Applies
<1>4. CASE Step
  <2>1. UNCHANGED <<available, complete, decGeneration>> /\ decCurrent.stream # 0
        /\ decGeneration > 0
    BY <1>4, StepFrame DEF byteVars, Writes, Sources, MayBeOver
  <2>2. CASE WriteMarker
    BY <2>1, <2>2 DEF WriteMarker, NoMarker, Sources, Openable, AtItsEnd, SoundOver, MayBeOver
  <2>3. CASE Open
    <3>1. ~ decCurrent.atEnd /\ UNCHANGED <<chainedFrom, marker>> /\ marker.stream = 0
      BY <2>3, OpenEffect DEF Sources, AtItsEnd, SoundOver, MayBeOver
    <3>2. OpenFails(decCurrent.stream) => chainedFrom.stream = 0
      BY <1>0, <2>1 DEF Sources, MayBeOver, OpenFails, Openable, BytesStay, IdsTyped
    <3> QED BY <1>0, <2>1, <2>3, <3>1, <3>2, OpenEffect
            DEF Sources, AtItsEnd, SoundOver, MayBeOver, Openable, OpenSucceeds, NoSource
  <2>4. CASE Recover
    <3>1. ~ decCurrent.atEnd
      BY <2>4, RecoverEffect DEF Sources, AtItsEnd, SoundOver, MayBeOver
    <3> QED BY <2>1, <2>4, <3>1, RecoverEffect DEF Sources, AtItsEnd, SoundOver, MayBeOver, Openable
  <2>5. CASE SeekSource
    <3>1. ~ decCurrent.atEnd
      BY <2>5, SeekSourceEffect DEF Sources, AtItsEnd, SoundOver, MayBeOver
    <3> QED BY <2>1, <2>5, <3>1, SeekSourceEffect DEF Sources, AtItsEnd, SoundOver, MayBeOver, Openable
  <2>6. CASE DecodeBlock
    BY <2>1, <2>6, DecodeEffect DEF Reads, Sources, AtItsEnd, SoundOver, MayBeOver, Openable
  <2>7. CASE Chain
    <3>1. AtItsEnd(decCurrent) /\ Openable(decCurrent.stream)
      BY <2>7, ChainEffect DEF Sources, MayBeOver
    <3> QED BY <1>0, <2>1, <2>7, <3>1, ChainEffect
            DEF Chains, Sources, AtItsEnd, SoundOver, MayBeOver, Openable, OpenSucceeds
  <2>8. CASE EndStream
    <3>1. /\ AtItsEnd(decCurrent) /\ Openable(decCurrent.stream)
          /\ UNCHANGED <<decCurrent, chainedFrom>> /\ marker'.stream = decCurrent.stream
      BY <2>8 DEF EndStream, AtEnd, Ready, Sources, MayBeOver
    <3>2. MayBeOver(decCurrent.stream)
      BY <3>1, OverMayBe DEF AtItsEnd
    <3> QED BY <2>1, <3>1, <3>2 DEF Sources, AtItsEnd, SoundOver, MayBeOver, Openable
  <2> QED BY <1>4, <2>2, <2>3, <2>4, <2>5, <2>6, <2>7, <2>8 DEF Step
<1> QED BY <1>2, <1>3, <1>4, NextCases

-----------------------------------------------------------------------------
(* The commands still to come *)

LEMMA IdsGrowKept ==
  ASSUME TypeOK, UiConsistent, UiKnows, IdsGiven, IdsGrow, Sources, [Next]_vars
  PROVE  IdsGrow'
<1>0. /\ IdsTyped /\ IdsTyped' /\ Len(commands) \in Nat
      /\ \A i \in 1..Len(commands) : commands[i].stream \in Nat
  BY IdsAreTyped, TypeKept, IdsAreTypedNext, CommandTypes
<1> DEFINE Chained == chainedFrom.stream # 0 => chainedFrom.stream < decCurrent.stream
           Waiting == decQueued # 0 => decCurrent.stream < decQueued
           Coming1 == \A i \in 1..Len(commands) : commands[i].kind = "Queue" =>
                       /\ decCurrent.stream < commands[i].stream
                       /\ decQueued < commands[i].stream
                       /\ \A j \in 1..(i - 1) : commands[j].stream < commands[i].stream
<1>d. Chained /\ Waiting /\ Coming1
  BY DEF IdsGrow
<1>g. /\ lastId \in Nat /\ decCurrent.stream \in Nat /\ chainedFrom.stream \in Nat
      /\ decQueued \in Nat /\ Len(commands) \in Nat
      /\ decCurrent.stream <= lastId /\ decQueued <= lastId
      /\ \A i \in 1..Len(commands) : commands[i].stream \in Nat /\ commands[i].stream <= lastId
  BY <1>0 DEF IdsTyped, IdsGiven
<1>c. /\ chainedFrom.stream # 0 => chainedFrom.stream < decCurrent.stream
      /\ decQueued # 0 => decCurrent.stream < decQueued
      /\ \A i \in 1..Len(commands) : commands[i].kind = "Queue" =>
           decCurrent.stream < commands[i].stream /\ decQueued < commands[i].stream
  BY <1>d
<1>e. Chained' /\ Waiting' /\ Coming1' => IdsGrow'
  BY DEF IdsGrow
<1>1. CASE UiStep
  <2>1. UNCHANGED <<decCurrent, chainedFrom, decQueued>>
    BY <1>1, UiFrame
  <2>2. UiSends
    BY <1>1, UiSending
  <2>3. ASSUME NEW i \in 1..Len(commands'), commands'[i].kind = "Queue"
        PROVE  /\ decCurrent'.stream < commands'[i].stream
               /\ decQueued' < commands'[i].stream
               /\ \A j \in 1..(i - 1) : commands'[j].stream < commands'[i].stream
    <3>1. CASE i <= Len(commands)
      <4>1. i \in 1..Len(commands) /\ \A j \in 1..i : commands'[j] = commands[j]
        BY <1>0, <2>2, <3>1 DEF UiSends
      <4>2. commands[i].kind = "Queue" /\ commands'[i] = commands[i]
        BY <2>3, <4>1
      <4>3. \A j \in 1..(i - 1) : commands[j].stream < commands[i].stream
        BY <1>d, <4>1, <4>2
      <4>4. \A j \in 1..(i - 1) : commands'[j] = commands[j]
        BY <4>1
      <4> QED BY <1>c, <2>1, <4>1, <4>2, <4>3, <4>4
    <3>2. CASE i > Len(commands)
      <4>1. /\ commands'[i].stream = lastId + 1
            /\ \A j \in (Len(commands) + 1)..(i - 1) : commands'[j].stream <= lastId
        BY <2>2, <2>3, <3>2 DEF UiSends
      <4>2. ASSUME NEW j \in 1..(i - 1) PROVE commands'[j].stream < commands'[i].stream
        <5>1. CASE j <= Len(commands)
          <6>1. j \in 1..Len(commands) /\ commands'[j] = commands[j]
            BY <1>0, <2>2, <5>1 DEF UiSends
          <6> QED BY <1>g, <4>1, <6>1
        <5>2. CASE ~ (j <= Len(commands))
          <6>1. j \in 1..Len(commands') /\ j \in (Len(commands) + 1)..(i - 1)
            BY <1>0, <5>2
          <6>2. commands'[j].stream <= lastId
            BY <4>1, <6>1
          <6>3. commands'[j].stream \in Nat
            <7>1. TypeOK'
              BY TypeKept
            <7>2. commands' \in Seq(Command)
              BY <7>1 DEF TypeOK, ChannelType
            <7>3. commands'[j] \in Command
              BY <6>1, <7>2, ElementOfSeq
            <7> QED BY <7>3 DEF Command, StreamId
          <6> QED BY <1>g, <4>1, <6>2, <6>3
        <5> QED BY <5>1, <5>2
      <4>3. decCurrent'.stream < lastId + 1 /\ decQueued' < lastId + 1
        BY <1>g, <2>1
      <4> QED BY <4>1, <4>2, <4>3
    <3> QED BY <1>0, <3>1, <3>2
  <2> QED BY <1>d, <1>e, <2>1, <2>3
<1>2. CASE ApplyCommand
  <2>1. /\ Applies /\ 1 \in 1..Len(commands)
        /\ \A i \in 1..Len(commands') :
             commands'[i] = commands[i + 1] /\ i + 1 \in 1..Len(commands)
    BY <1>2, ApplyEffect, CommandTaken, CommandTypes
  <2>2. Chained' /\ Waiting'
    <3>1. commands[1].kind = "Queue" => decCurrent.stream < commands[1].stream
      BY <1>c, <2>1
    <3>2. CASE chainedFrom'.stream = 0
      <4>1. decQueued' # 0 => decCurrent'.stream < decQueued'
        BY <1>g, <1>c, <2>1, <3>1, <3>2 DEF Applies, Starts0, Seeks
      <4> QED BY <3>2, <4>1
    <3>3. CASE chainedFrom'.stream # 0
      <4>1. UNCHANGED <<decCurrent, chainedFrom>> /\ decQueued' \in {0, decQueued, commands[1].stream}
              /\ (decQueued' = commands[1].stream => decQueued' \in {0, decQueued} \/ commands[1].kind = "Queue")
        BY <2>1, <3>3 DEF Applies, Starts0, Seeks
      <4> QED BY <1>c, <3>1, <4>1
    <3> QED BY <3>2, <3>3
  <2>3. ASSUME NEW i \in 1..Len(commands'), commands'[i].kind = "Queue"
        PROVE  /\ decCurrent'.stream < commands'[i].stream
               /\ decQueued' < commands'[i].stream
               /\ \A j \in 1..(i - 1) : commands'[j].stream < commands'[i].stream
    <3>1. /\ decCurrent.stream < commands[i + 1].stream /\ decQueued < commands[i + 1].stream
          /\ \A j \in 1..i : commands[j].stream < commands[i + 1].stream
          /\ commands[1].stream < commands[i + 1].stream /\ commands'[i] = commands[i + 1]
          /\ commands[i + 1].stream \in Nat /\ commands[1].stream \in Nat
      <4>1. i + 1 \in 1..Len(commands) /\ (i + 1) - 1 = i /\ 1 \in 1..i
        BY <2>1
      <4> QED BY <1>0, <1>d, <2>1, <2>3, <4>1
    <3>2. \A j \in 1..(i - 1) : commands'[j] = commands[j + 1] /\ j + 1 \in 1..i
      <4> SUFFICES ASSUME NEW j \in 1..(i - 1)
                   PROVE  commands'[j] = commands[j + 1] /\ j + 1 \in 1..i
        OBVIOUS
      <4>1. j \in 1..Len(commands')
        BY <1>0
      <4> QED BY <2>1, <4>1
    <3>3. decCurrent'.stream < commands[i + 1].stream /\ decQueued' < commands[i + 1].stream
      <4>1. decCurrent'.stream \in {0, decCurrent.stream, chainedFrom.stream, commands[1].stream}
            /\ (decCurrent'.stream = chainedFrom.stream =>
                  chainedFrom.stream # 0 \/ decCurrent'.stream = 0)
            /\ decQueued' \in {0, decCurrent.stream, decQueued, commands[1].stream}
        BY <2>1 DEF Applies, Starts0, Seeks
      <4>2. chainedFrom.stream < commands[i + 1].stream /\ 0 < commands[i + 1].stream
        BY <1>g, <1>c, <3>1
      <4> QED BY <3>1, <4>1, <4>2
    <3> QED BY <3>1, <3>2, <3>3
  <2> QED BY <1>e, <2>2, <2>3
<1>3. CASE Step
  <2>1. UNCHANGED commands /\ decCurrent.stream # 0
    BY <1>3, StepFrame DEF Writes
  <2>2. \/ UNCHANGED <<chainedFrom, decQueued>> /\ decCurrent'.stream = decCurrent.stream
        \/ chainedFrom.stream = 0 /\ decCurrent'.stream = 0 /\ UNCHANGED <<chainedFrom, decQueued>>
        \/ decQueued' = 0 /\ UNCHANGED <<chainedFrom, decCurrent>>
        \/ decQueued' = 0 /\ chainedFrom' = decCurrent /\ decCurrent'.stream = decQueued
             /\ decQueued # 0
    <3>1. CASE WriteMarker \/ EndStream
      BY <3>1 DEF WriteMarker, EndStream
    <3>2. CASE Open
      <4>1. OpenFails(decCurrent.stream) => chainedFrom.stream = 0
        BY <1>0, <2>1 DEF Sources, OpenFails, Openable
      <4> QED BY <3>2, <4>1, OpenEffect DEF NoSource
    <3>3. CASE Recover \/ SeekSource \/ DecodeBlock
      BY <3>3, RecoverEffect, SeekSourceEffect, DecodeEffect DEF Reads
    <3>4. CASE Chain
      BY <3>4, ChainEffect DEF Chains
    <3> QED BY <1>3, <3>1, <3>2, <3>3, <3>4 DEF Step
  <2>3. Chained' /\ Waiting'
    <3>1. \/ UNCHANGED <<chainedFrom, decQueued>> /\ decCurrent'.stream = decCurrent.stream
          \/ /\ UNCHANGED <<chainedFrom, decQueued>> /\ decCurrent'.stream = 0
             /\ chainedFrom.stream = 0
          \/ decQueued' = 0 /\ UNCHANGED <<chainedFrom, decCurrent>>
          \/ decQueued' = 0 /\ chainedFrom'.stream = decCurrent.stream
               /\ decCurrent'.stream = decQueued /\ decQueued # 0
      BY <2>2
    <3> QED BY <1>g, <1>c, <3>1
  <2>4. \A i \in 1..Len(commands) : commands[i].kind = "Queue" =>
          /\ decCurrent'.stream < commands[i].stream
          /\ decQueued' < commands[i].stream
    <3> SUFFICES ASSUME NEW i \in 1..Len(commands), commands[i].kind = "Queue"
                 PROVE  decCurrent'.stream < commands[i].stream /\ decQueued' < commands[i].stream
      OBVIOUS
    <3>1. /\ decCurrent.stream < commands[i].stream /\ decQueued < commands[i].stream
          /\ 0 < commands[i].stream
      BY <1>g, <1>c
    <3>2. decCurrent'.stream \in {0, decCurrent.stream, decQueued} /\ decQueued' \in {0, decQueued}
      BY <2>2
    <3> QED BY <3>1, <3>2
  <2> QED BY <1>d, <1>e, <2>1, <2>3, <2>4
<1>4. CASE Arrive \/ Play \/ UNCHANGED vars
  <2>1. UNCHANGED <<commands, decCurrent, chainedFrom, decQueued>>
    BY <1>4, ArriveFrame, PlayFrame DEF decVars, vars
  <2> QED BY <1>d, <1>e, <2>1
<1> QED BY <1>1, <1>2, <1>3, <1>4, NextCases

LEMMA ClearedAreGoneKept ==
  ASSUME TypeOK, UiConsistent, UiKnows, ClearedAreGone, [Next]_vars
  PROVE  ClearedAreGone'
<1> SUFFICES ASSUME NEW i \in 1..Len(commands'), commands'[i].kind = "ClearQueued"
             PROVE  /\ commands'[i].stream # 0 /\ commands'[i].stream <= lastId'
                    /\ commands'[i].stream # currentId' /\ commands'[i].stream # queuedId'
  BY DEF ClearedAreGone, Gone
<1>0. Len(commands) \in Nat /\ \A j \in 1..Len(commands) : commands[j].stream \in Nat
  BY CommandTypes
<1>1. CASE UiStep
  <2>1. UiSends /\ UiMoves
    BY <1>1, UiSending, UiMoving
  <2>2. CASE i <= Len(commands)
    <3>1. i \in 1..Len(commands) /\ commands'[i] = commands[i]
      BY <1>0, <2>1, <2>2 DEF UiSends
    <3>2. commands[i].stream \in Nat /\ commands[i].stream # 0 /\ Gone(commands[i].stream)
      BY <1>0, <3>1 DEF ClearedAreGone
    <3>3. PICK s \in Nat : s = commands[i].stream
      BY <3>2
    <3>4. Gone(s)'
      BY <2>1, <3>2, <3>3 DEF UiMoves
    <3> QED BY <3>1, <3>2, <3>3, <3>4 DEF Gone
  <2>3. CASE ~ (i <= Len(commands))
    BY <1>0, <2>1, <2>3 DEF UiSends
  <2> QED BY <2>2, <2>3
<1>2. CASE ~ UiStep
  <2>1. UNCHANGED <<lastId, currentId, queuedId>>
    BY <1>2, NextCases, ArriveFrame, ApplyFrame, StepFrame, PlayFrame DEF uiVars, vars
  <2>2. \E j \in 1..Len(commands) : commands'[i] = commands[j]
    BY <1>2, CommandsStay, CommandTaken
  <2> QED BY <2>1, <2>2 DEF ClearedAreGone, Gone
<1> QED BY <1>1, <1>2

\* Once a block of this generation was played, no request of it is waiting.
LEMMA NothingAsked ==
  ASSUME TypeOK, GenerationsInOrder, NothingYet, Played, snapshot.gen <= published.gen
  PROVE  /\ playing.gen = generation /\ decGeneration = generation
         /\ \A i \in 1..Len(commands) : IsRequest(commands[i]) => commands[i].gen # generation
<1>1. LineGrown /\ LineTyped /\ generation \in Nat /\ decGeneration \in Nat
      /\ published.gen \in Nat /\ snapshot.gen \in Nat /\ playing.gen \in Nat
  BY LineGrows, LineTypes, OrderTypes DEF TypeOK, UiType, Playback
<1>2. Item(0).gen = playing.gen /\ 0 \in Line
  BY <1>1 DEF Item, Line, LineTyped
<1>3. playing.gen = generation /\ decGeneration = generation
  BY <1>1, <1>2 DEF Played, LineGrown
<1>4. ASSUME NEW i \in 1..Len(commands), IsRequest(commands[i]), commands[i].gen = generation
      PROVE  FALSE
  <2>1. Barren(i)
    BY <1>3, <1>4 DEF NothingYet, Again
  <2> QED BY <1>1, <1>2, <1>3, <1>4, <2>1 DEF Barren
<1> QED BY <1>3, <1>4

LEMMA RequestsNowKept ==
  ASSUME TypeOK, UiConsistent, UiKnows, GenerationsInOrder, RequestsNow, NothingYet, [Next]_vars
  PROVE  RequestsNow'
<1>0. /\ Len(commands) \in Nat /\ \A j \in 1..Len(commands) : commands[j].gen \in Nat
      /\ generation \in Nat
      /\ \A j \in 1..Len(commands) : IsRequest(commands[j]) => commands[j].gen <= generation
  BY OrderTypes, OrderParts DEF RequestsInOrder
<1> SUFFICES ASSUME NEW i \in 1..Len(commands'), IsRequest(commands'[i])
             PROVE  /\ commands'[i].gen > 0 /\ commands'[i].stream # 0
                    /\ commands'[i].gen = generation' =>
                         commands'[i].stream = currentId' /\ commands'[i].frame = shownFrame'
  BY DEF RequestsNow, IsRequest
<1>1. CASE UiStep
  <2>1. UiSends /\ UiMoves
    BY <1>1, UiSending, UiMoving
  <2>2. CASE i <= Len(commands)
    <3>1. i \in 1..Len(commands) /\ commands'[i] = commands[i]
      BY <1>0, <2>1, <2>2 DEF UiSends
    <3>2. IsRequest(commands[i]) /\ commands[i].gen <= generation
      BY <1>0, <3>1
    <3>3. CASE UNCHANGED <<currentId, shownFrame, generation>> \/ generation' = generation + 1
      BY <1>0, <3>1, <3>2, <3>3 DEF RequestsNow
    <3>4. CASE generation' = generation /\ Played
      <4>1. commands[i].gen # generation
        BY <3>1, <3>2, <3>4, NothingAsked DEF UiKnows
      <4> QED BY <3>1, <3>2, <3>4, <4>1 DEF RequestsNow
    <3>5. CASE generation' = generation /\ snapshot.gen = generation
      BY <3>4, <3>5 DEF Played
    <3> QED BY <2>1, <3>3, <3>4, <3>5 DEF UiMoves
  <2>3. CASE ~ (i <= Len(commands))
    BY <1>0, <2>1, <2>3 DEF UiSends
  <2> QED BY <2>2, <2>3
<1>2. CASE ~ UiStep
  <2>1. UNCHANGED <<generation, currentId, shownFrame>>
    BY <1>2, NextCases, ArriveFrame, ApplyFrame, StepFrame, PlayFrame DEF uiVars, vars
  <2>2. \E j \in 1..Len(commands) : commands'[i] = commands[j]
    BY <1>2, CommandsStay, CommandTaken
  <2> QED BY <2>1, <2>2 DEF RequestsNow
<1> QED BY <1>1, <1>2

\* While a request waits, the decoder opens nothing and ends nothing it has not opened.
LEMMA UrgentStep ==
  ASSUME TypeOK, Step, Urgent
  PROVE  /\ UNCHANGED <<chainedFrom, commands, decGeneration>>
         /\ decCurrent'.stream = decCurrent.stream
         /\ decCurrent'.opened => decCurrent.opened
         /\ marker'.stream = 0 \/ marker' = marker \/ decCurrent.opened
<1>1. UNCHANGED <<commands, decGeneration>>
  BY StepFrame
<1>2. CASE WriteMarker \/ EndStream
  BY <1>1, <1>2 DEF WriteMarker, EndStream, AtEnd, Ready, NoMarker
<1>3. CASE Open
  BY <1>1, <1>3, OpenEffect
<1>4. CASE Recover
  BY <1>1, <1>4, RecoverEffect
<1>5. CASE SeekSource
  BY <1>1, <1>5, SeekSourceEffect
<1>6. CASE DecodeBlock
  BY <1>1, <1>6, DecodeEffect DEF Reads
<1>7. CASE Chain
  BY <1>7, ChainEffect
<1> QED BY <1>2, <1>3, <1>4, <1>5, <1>6, <1>7 DEF Step

LEMMA NothingYetKept == ASSUME LineInv, [Next]_vars PROVE NothingYet'
<1>0. /\ TypeOK /\ UiConsistent /\ GenerationsInOrder /\ UiKnows /\ RequestsNow /\ NothingYet
      /\ Sources /\ InGeneration /\ Items /\ LineTyped /\ LineGrown /\ LineTyped'
  BY LineTypes, LineGrows, TypeKept, LineTypesNext DEF LineInv, Known, Wiring, Streams, Contiguous
<1>t. /\ Len(commands) \in Nat /\ generation \in Nat /\ decGeneration \in Nat
      /\ currentId \in StreamId /\ decGeneration <= generation
      /\ \A j \in 1..Len(commands) : commands[j].gen \in Nat
      /\ \A j \in 1..Len(commands) : IsRequest(commands[j]) =>
           decGeneration <= commands[j].gen /\ commands[j].gen <= generation
      /\ \A k \in Line : Item(k).gen \in Nat /\ Item(k).gen <= decGeneration
  BY <1>0, OrderTypes, OrderParts DEF RequestsInOrder, TypeOK, UiType, LineTyped, LineGrown
<1> SUFFICES ASSUME NEW j \in 1..Len(commands'), IsRequest(commands'[j]),
                    commands'[j].gen = decGeneration' \/ Twin(j)'
             PROVE  Barren(j)'
  BY DEF NothingYet, Again
<1>1. CASE UiStep /\ ~ Step
  <2>1. UNCHANGED <<decGeneration, decCurrent, chainedFrom, marker>>
    BY <1>1, UiFrame
  <2>2. UiSends /\ UiMoves
    BY <1>0, <1>1, UiSending, UiMoving
  <2>3. \A i \in Line' : \E k \in Line : Item(i)'.gen = Item(k).gen
    BY <1>0, <1>1, LineComes DEF Written
  <2>4. CASE j <= Len(commands)
    <3>1. j \in 1..Len(commands) /\ \A i \in 1..j : commands'[i] = commands[i]
      BY <1>t, <2>2, <2>4 DEF UiSends
    <3>2. Again(j)
      BY <2>1, <3>1 DEF Again, Twin
    <3>3. Barren(j)
      BY <1>0, <3>1, <3>2 DEF NothingYet
    <3>4. \A i \in Line' : Item(i)'.gen < commands[j].gen
      BY <2>3, <3>3 DEF Barren
    <3> QED BY <2>1, <3>1, <3>3, <3>4 DEF Barren
  <2>5. CASE ~ (j <= Len(commands))
    <3>1. /\ j = Len(commands) + 1 /\ commands'[j].gen = generation'
          /\ commands'[j].stream = currentId' /\ currentId' # 0
          /\ generation' = generation =>
               /\ commands'[j].kind = "Start" /\ UNCHANGED <<uiVars, queueVars>>
               /\ available[currentId] = 0 /\ ~ complete[currentId]
          /\ \A i \in 1..(j - 1) : i \in 1..Len(commands) /\ commands'[i] = commands[i]
      BY <1>t, <2>2, <2>5 DEF UiSends
    <3>2. generation' = generation
      <4>1. CASE commands'[j].gen = decGeneration'
        BY <1>t, <2>1, <2>2, <3>1, <4>1 DEF UiMoves
      <4>2. CASE Twin(j)'
        <5>1. PICK i \in 1..(j - 1) : IsRequest(commands'[i]) /\ commands'[i].gen = commands'[j].gen
          BY <4>2 DEF Twin
        <5> QED BY <1>t, <2>2, <3>1, <5>1 DEF UiMoves
      <4> QED BY <4>1, <4>2
    <3>3. /\ commands'[j].kind = "Start" /\ commands'[j].stream = currentId
          /\ commands'[j].gen = generation /\ currentId # 0 /\ generation > 0
          /\ ~ Openable(currentId)
      BY <1>0, <1>t, <3>1, <3>2 DEF uiVars, UiKnows, Openable
    <3>4. \A i \in 1..(j - 1) : IsRequest(commands'[i]) /\ commands'[i].gen = commands'[j].gen
                                  => commands'[i].stream = commands'[j].stream
      BY <1>0, <3>1, <3>3 DEF RequestsNow
    <3>5. decCurrent.stream = currentId => ~ decCurrent.opened
      BY <1>0, <3>3 DEF Sources
    <3>6. chainedFrom.stream # currentId
      BY <1>0, <3>3 DEF Sources
    <3>7. \A i \in Line' : Item(i)'.gen < generation
      <4>1. \A k \in Line : Item(k).gen # generation
        BY <1>0, <3>3 DEF InGeneration, Reached
      <4>2. \A k \in Line : Item(k).gen < generation
        BY <1>t, <4>1
      <4> QED BY <2>3, <4>2
    <3>8. generation = decGeneration =>
            decCurrent.stream \in {0, currentId} /\ chainedFrom.stream = 0 /\ marker.stream = 0
      BY <1>0, <3>3 DEF InGeneration, CurrentOver
    <3> QED BY <2>1, <3>3, <3>4, <3>5, <3>6, <3>7, <3>8 DEF Barren
  <2> QED BY <2>4, <2>5
<1>2. CASE ApplyCommand
  <2>1. /\ Applies /\ 1 \in 1..Len(commands)
        /\ \A i \in 1..Len(commands') :
             commands'[i] = commands[i + 1] /\ i + 1 \in 1..Len(commands)
    <3>1. Applies
      BY <1>0, <1>2, ApplyEffect
    <3>2. Len(commands) > 0 /\ Len(commands) \in Nat
      BY <1>0, <1>2, CommandTaken, CommandTypes
    <3>3. 1 \in 1..Len(commands)
      BY <3>2
    <3> QED BY <1>0, <1>2, <3>1, <3>3, CommandTaken
  <2>2. PICK g : g = commands[j + 1]
    OBVIOUS
  <2>3. /\ commands'[j] = g /\ j + 1 \in 1..Len(commands) /\ IsRequest(g)
        /\ \A i \in 1..(j - 1) : commands'[i] = commands[i + 1] /\ i + 1 \in 1..j
    <3>1. \A i \in 1..(j - 1) : i \in 1..Len(commands') /\ i + 1 \in 1..j
      OBVIOUS
    <3> QED BY <2>1, <2>2, <3>1
  <2>4. decGeneration' = decGeneration \/ (IsRequest(commands[1]) /\ decGeneration' = commands[1].gen)
    BY <2>1 DEF Applies, Starts0, Seeks, IsRequest
  <2>5. Again(j + 1)
    <3>1. (j + 1) - 1 = j /\ 1 \in 1..j
      OBVIOUS
    <3>2. CASE g.gen = decGeneration'
      BY <2>2, <2>3, <2>4, <3>1, <3>2 DEF Again, Twin
    <3>3. CASE Twin(j)'
      <4>1. PICK i \in 1..(j - 1) : IsRequest(commands'[i]) /\ commands'[i].gen = commands'[j].gen
        BY <3>3 DEF Twin
      <4>2. i + 1 \in 1..((j + 1) - 1) /\ IsRequest(commands[i + 1]) /\ commands[i + 1].gen = commands[j + 1].gen
        BY <2>2, <2>3, <3>1, <4>1
      <4> QED BY <2>2, <2>3, <4>2 DEF Again, Twin
    <3> QED BY <2>3, <3>2, <3>3
  <2>6. /\ g.kind = "Start" /\ g.stream # 0
        /\ \A i \in 1..j : IsRequest(commands[i]) /\ commands[i].gen = g.gen
                             => commands[i].stream = g.stream
        /\ decCurrent.stream = g.stream => ~ decCurrent.opened
        /\ chainedFrom.stream # g.stream
        /\ \A i \in Line : Item(i).gen < g.gen
        /\ g.gen = decGeneration =>
             decCurrent.stream \in {0, g.stream} /\ chainedFrom.stream = 0 /\ marker.stream = 0
    <3>1. Barren(j + 1) /\ (j + 1) - 1 = j
      BY <1>0, <2>3, <2>5 DEF NothingYet
    <3> QED BY <1>0, <2>2, <2>3, <3>1 DEF Barren, RequestsNow
  <2>7. \A i \in 1..(j - 1) : IsRequest(commands'[i]) /\ commands'[i].gen = g.gen
                                => commands'[i].stream = g.stream
    BY <2>3, <2>6
  <2>8. (decCurrent'.stream = g.stream => ~ decCurrent'.opened) /\ chainedFrom'.stream # g.stream
    BY <2>1, <2>6 DEF Applies, Starts0, Seeks
  <2>9. \A i \in Line' : Item(i)'.gen < g.gen
    <3>1. Line' = Line /\ \A i : Item(i)' = Item(i)
      BY <1>2, ApplyFrame, SameLine DEF queueVars, callbackVars
    <3> QED BY <2>6, <3>1
  <2>10. g.gen = decGeneration' =>
           decCurrent'.stream \in {0, g.stream} /\ chainedFrom'.stream = 0 /\ marker'.stream = 0
    <3>1. IsRequest(commands[1]) /\ commands[1].gen = g.gen => commands[1].stream = g.stream
      BY <2>6
    <3> QED BY <2>1, <2>6, <3>1 DEF Applies, Starts0, Seeks, IsRequest
  <2> QED BY <2>3, <2>6, <2>7, <2>8, <2>9, <2>10 DEF Barren
<1>3. CASE Step
  <2>1. UNCHANGED commands /\ UNCHANGED decGeneration /\ decCurrent.stream # 0
    BY <1>3, StepFrame DEF Writes
  <2>2. Barren(j) /\ commands[j] = commands'[j]
    BY <1>0, <2>1 DEF NothingYet, Again, Twin
  <2>3. Urgent
    BY <2>1 DEF Urgent, IsRequest
  <2>4. /\ UNCHANGED chainedFrom /\ decCurrent'.stream = decCurrent.stream
        /\ decCurrent'.opened => decCurrent.opened
        /\ marker'.stream = 0 \/ marker' = marker \/ decCurrent.opened
    BY <1>0, <1>3, <2>3, UrgentStep
  <2>5. \A i \in Line' : Item(i)'.gen < commands[j].gen
    <3> SUFFICES ASSUME NEW i \in Line' PROVE Item(i)'.gen < commands[j].gen
      OBVIOUS
    <3>1. CASE \E k \in Line : Item(i)'.gen = Item(k).gen
      BY <2>2, <3>1 DEF Barren
    <3>2. CASE Written(Item(i)')
      <4>1. decGeneration # commands[j].gen
        BY <2>1, <2>2, <3>2 DEF Barren, Written
      <4>2. decGeneration < commands[j].gen
        BY <1>t, <2>1, <4>1
      <4> QED BY <3>2, <4>2 DEF Written
    <3> QED BY <1>0, <3>1, <3>2, LineComes
  <2>6. commands[j].gen = decGeneration =>
          marker'.stream = 0 /\ decCurrent'.stream \in {0, commands[j].stream}
    BY <2>1, <2>2, <2>4 DEF Barren
  <2> QED BY <2>1, <2>2, <2>4, <2>5, <2>6 DEF Barren
<1>4. CASE (Arrive \/ Play \/ UNCHANGED vars) /\ ~ Step
  <2>1. UNCHANGED <<commands, decGeneration, decCurrent, chainedFrom, marker>>
    BY <1>4, ArriveFrame, PlayFrame DEF decVars, vars
  <2>2. Barren(j) /\ commands[j] = commands'[j]
    BY <1>0, <2>1 DEF NothingYet, Again, Twin
  <2>3. \A i \in Line' : Item(i)'.gen < commands[j].gen
    <3>1. \A i \in Line' : \E k \in Line : Item(i)'.gen = Item(k).gen
      BY <1>0, <1>4, LineComes DEF Written
    <3> QED BY <2>2, <3>1 DEF Barren
  <2> QED BY <2>1, <2>2, <2>3 DEF Barren
<1> QED BY <1>1, <1>2, <1>3, <1>4, NextCases

-----------------------------------------------------------------------------
(* What is heard in this generation *)

\* What a step of the decoder changes of the ids it holds.
StepHolds ==
  \/ /\ UNCHANGED chainedFrom /\ decCurrent'.stream \in {0, decCurrent.stream}
     /\ marker'.stream \in {0, marker.stream}
  \/ /\ decCurrent.opened /\ decCurrent.atEnd /\ chainedFrom' = decCurrent
     /\ decCurrent'.stream = decQueued /\ complete[decQueued] /\ UNCHANGED marker
  \/ /\ decCurrent.opened /\ decCurrent.atEnd /\ UNCHANGED <<decCurrent, chainedFrom>>
     /\ marker'.stream = decCurrent.stream

LEMMA StepHolding == ASSUME TypeOK, Step PROVE StepHolds
<1>1. CASE WriteMarker \/ EndStream
  BY <1>1 DEF WriteMarker, EndStream, AtEnd, Ready, NoMarker, StepHolds
<1>2. CASE Open
  BY <1>2, OpenEffect DEF StepHolds, NoSource
<1>3. CASE Recover \/ SeekSource \/ DecodeBlock
  BY <1>3, RecoverEffect, SeekSourceEffect, DecodeEffect DEF Reads, StepHolds
<1>4. CASE Chain
  BY <1>4, ChainEffect DEF Chains, StepHolds
<1> QED BY <1>1, <1>2, <1>3, <1>4 DEF Step

\* That the current stream may be over, and what was reached from it, stays true:
\* poll() goes on only to a stream that was reached, and younger ones follow.
LEMMA ReachedStays ==
  ASSUME TypeOK, UiConsistent, UiKnows, InGeneration, [Next]_vars,
         generation > 0, generation' = generation
  PROVE  /\ \A s \in StreamId : Reached(s) => Reached(s)'
         /\ \A s \in StreamId : FollowsWhole(s) => (currentId' < s => complete'[s])
         /\ CurrentOver => CurrentOver'
         /\ currentId' = currentId \/ (CurrentOver /\ CurrentOver')
<1>0. currentId \in StreamId /\ queuedId \in StreamId /\ currentId' \in StreamId
  BY TypeKept DEF TypeOK, UiType
<1>n. \A s \in StreamId : s \in Nat
  BY EngineAssumption DEF StreamId
<1> DEFINE Open1(s) == s \notin Undecodable /\ available'[s] > 0
           Over1(s) == complete'[s] \/ s \in Faulty
           Follow1(s) == currentId' < s => complete'[s]
<1>1. \A s \in StreamId : s # 0 =>
        /\ Openable(s) => Open1(s)
        /\ MayBeOver(s) => Over1(s)
        /\ complete[s] => complete'[s]
  <2> SUFFICES ASSUME NEW s \in StreamId, s # 0
               PROVE  /\ Openable(s) => Open1(s)
                      /\ MayBeOver(s) => Over1(s)
                      /\ complete[s] => complete'[s]
    OBVIOUS
  <2> QED BY OpenableStays DEF Openable, MayBeOver
<1>p. /\ CurrentOver' <=> currentId' # 0 /\ Over1(currentId') /\ Open1(currentId')
      /\ \A s \in StreamId : Reached(s)' <=>
           /\ currentId' # 0 /\ Open1(currentId') /\ Follow1(s)
           /\ s # currentId' => s # 0 /\ Over1(currentId') /\ Open1(s)
  BY DEF CurrentOver, Reached, Openable, MayBeOver, FollowsWhole
<1> DEFINE Stay == \A s \in StreamId : Reached(s) => Reached(s)'
           Follow == \A s \in StreamId : FollowsWhole(s) => Follow1(s)
<1> SUFFICES /\ Stay /\ Follow /\ (CurrentOver => CurrentOver')
             /\ currentId' = currentId \/ (CurrentOver /\ CurrentOver')
  OBVIOUS
<1>f. ASSUME currentId <= currentId' PROVE Follow
  <2> SUFFICES ASSUME NEW s \in StreamId, FollowsWhole(s), currentId' < s PROVE complete'[s]
    OBVIOUS
  <2>1. currentId < s /\ s # 0
    BY <1>0, <1>n, <1>f
  <2> QED BY <1>1, <2>1 DEF FollowsWhole
<1> HIDE DEF Open1, Over1, Follow1
<1>2. CASE currentId' = currentId
  <2>1. CurrentOver => CurrentOver'
    BY <1>0, <1>1, <1>p, <1>2 DEF CurrentOver
  <2>2. Follow
    BY <1>0, <1>n, <1>2, <1>f
  <2>3. Stay
    BY <1>0, <1>1, <1>p, <1>2, <2>2 DEF Reached
  <2> HIDE DEF Stay, Follow
  <2> QED BY <1>2, <2>1, <2>2, <2>3
<1>3. CASE /\ snapshot.gen = generation /\ snapshot.stream = queuedId
           /\ queuedId # 0 /\ currentId' = queuedId
  <2>0. currentId < queuedId
    BY <1>3 DEF UiConsistent
  <2>1. Reached(queuedId) /\ queuedId # currentId
    <3>1. Reached(snapshot.stream)
      BY <1>3 DEF InGeneration
    <3> QED BY <1>0, <1>n, <1>3, <2>0, <3>1
  <2>2. CurrentOver /\ complete[queuedId] /\ Openable(queuedId) /\ CurrentOver'
    <3>1. CurrentOver /\ complete[queuedId] /\ Openable(queuedId)
      BY <2>0, <2>1 DEF Reached, CurrentOver, FollowsWhole
    <3>2. MayBeOver(queuedId)
      BY <3>1 DEF MayBeOver
    <3> QED BY <1>0, <1>1, <1>3, <1>p, <3>1, <3>2
  <2>3. Follow
    BY <1>0, <1>n, <1>3, <1>f, <2>0
  <2>4. Stay
    <3> SUFFICES ASSUME NEW s \in StreamId, Reached(s) PROVE Reached(s)'
      OBVIOUS
    <3>1. s # 0 /\ Open1(s)
      <4>1. s # 0 /\ Openable(s)
        BY DEF Reached
      <4> QED BY <1>1, <4>1
    <3>2. Open1(currentId') /\ Over1(currentId') /\ currentId' # 0
      BY <1>p, <2>2
    <3>3. Follow1(s)
      BY <2>3 DEF Reached
    <3> QED BY <1>p, <3>1, <3>2, <3>3
  <2> HIDE DEF Stay, Follow
  <2> QED BY <2>2, <2>3, <2>4
<1>4. CASE UiStep
  <2>1. generation \in Nat /\ generation # generation + 1
    BY DEF TypeOK, UiType
  <2> QED BY <1>2, <1>3, <1>4, <2>1, UiMoving DEF UiMoves
<1>5. CASE ~ UiStep
  BY <1>2, <1>5, NextCases, ArriveFrame, ApplyFrame, StepFrame, PlayFrame DEF uiVars, vars
<1> QED BY <1>4, <1>5

LEMMA InGenerationKept == ASSUME LineInv, [Next]_vars PROVE InGeneration'
<1>0. /\ TypeOK /\ UiConsistent /\ GenerationsInOrder /\ UiKnows /\ RequestsNow
      /\ Sources /\ InGeneration /\ Items /\ LineTyped /\ LineGrown /\ LineTyped'
      /\ IdsTyped /\ snapshot.gen <= published.gen
  BY LineTypes, LineGrows, TypeKept, LineTypesNext, IdsAreTyped
     DEF LineInv, Known, Wiring, Streams, Contiguous, UiKnows
<1>t. /\ generation \in Nat /\ decGeneration \in Nat /\ decGeneration <= generation
      /\ published.gen \in Nat /\ snapshot.gen \in Nat /\ playing.gen \in Nat
      /\ published.stream \in StreamId /\ snapshot.stream \in StreamId
      /\ \A k \in Line : /\ Item(k).gen \in Nat /\ Item(k).gen <= decGeneration
                         /\ Item(k).stream \in StreamId
      /\ playing.gen = Item(0).gen /\ playing.stream = Item(0).stream /\ 0 \in Line
      /\ published.gen <= playing.gen
  <2>1. playing.gen = Item(0).gen /\ playing.stream = Item(0).stream /\ 0 \in Line
    BY <1>0 DEF Item, Line, LineTyped
  <2> QED BY <1>0, <2>1 DEF TypeOK, UiType, CallbackType, DecoderType, Playback, LineTyped, LineGrown
<1> SUFFICES ASSUME generation' > 0
    PROVE /\ \A i \in Line' : Item(i)'.gen = generation' => Reached(Item(i).stream)'
          /\ published'.gen = generation' => Reached(published.stream)'
          /\ snapshot'.gen = generation' => Reached(snapshot.stream)'
          /\ decGeneration' = generation' =>
               /\ decCurrent'.stream \notin {0, currentId'} \/ chainedFrom'.stream # 0
                     \/ marker'.stream # 0 => CurrentOver'
               /\ currentId' < decCurrent'.stream => complete'[decCurrent'.stream]
               /\ currentId' < chainedFrom'.stream => complete'[chainedFrom'.stream]
               /\ currentId' < marker'.stream => complete'[marker'.stream]
  BY DEF InGeneration, FollowsWhole
<1>m. published' \in {published, playing} /\ snapshot' \in {snapshot, published, Silence}
  BY <1>0, ToldMoves
<1>1. CASE generation' # generation
  <2>1. UiStep /\ generation' = generation + 1
    BY <1>0, <1>1, NextCases, UiMoving, ArriveFrame, ApplyFrame, StepFrame, PlayFrame
       DEF uiVars, vars, UiMoves
  <2>2. UNCHANGED <<decGeneration, playing, published>>
    BY <2>1, UiFrame
  <2>3. \A i \in Line' : Item(i)'.gen # generation'
    <3> SUFFICES ASSUME NEW i \in Line' PROVE Item(i)'.gen # generation'
      OBVIOUS
    <3>1. Item(i)'.gen <= decGeneration /\ Item(i)'.gen \in Nat
      BY <1>0, <1>t, LineComes DEF Written
    <3> QED BY <1>t, <2>1, <3>1
  <2>4. published'.gen # generation' /\ snapshot'.gen # generation' /\ decGeneration' # generation'
    BY <1>0, <1>t, <1>m, <2>1, <2>2 DEF Silence
  <2> QED BY <2>3, <2>4
<1>2. CASE generation' = generation
  <2>0. generation > 0
    BY <1>2
  <2>1. /\ \A s \in StreamId : Reached(s) => Reached(s)'
        /\ \A s \in StreamId : FollowsWhole(s) => (currentId' < s => complete'[s])
        /\ CurrentOver => CurrentOver'
        /\ currentId' = currentId \/ (CurrentOver /\ CurrentOver')
    BY <1>0, <1>2, <2>0, ReachedStays
  <2>2. decGeneration = generation =>
          /\ decCurrent.stream \notin {0, currentId} \/ chainedFrom.stream # 0 \/ marker.stream # 0
               => CurrentOver
          /\ FollowsWhole(decCurrent.stream) /\ FollowsWhole(chainedFrom.stream)
          /\ FollowsWhole(marker.stream)
    BY <1>0, <2>0 DEF InGeneration
  <2>3. \A i \in Line' : Item(i)'.gen = generation' => Reached(Item(i).stream)'
    <3> SUFFICES ASSUME NEW i \in Line', Item(i)'.gen = generation
                 PROVE  Reached(Item(i).stream)'
      BY <1>2
    <3>1. PICK s : s = Item(i)'.stream
      OBVIOUS
    <3>2. s \in StreamId /\ Reached(s)
      <4>1. CASE \E k \in Line : Item(i)'.gen = Item(k).gen /\ Item(i)'.stream = Item(k).stream
        BY <1>0, <1>t, <2>0, <3>1, <4>1 DEF InGeneration
      <4>2. CASE Written(Item(i)')
        <5>1. decGeneration = generation
          BY <4>2 DEF Written
        <5>2. CASE marker.stream # 0 /\ s = marker.stream
          <6>1. CurrentOver /\ FollowsWhole(s)
            BY <2>2, <5>1, <5>2
          <6>2. Openable(s) /\ s # 0 /\ s \in StreamId
            BY <1>0, <5>2 DEF Sources, IdsTyped
          <6> QED BY <6>1, <6>2 DEF CurrentOver, Reached
        <5>3. CASE decCurrent.opened /\ s = decCurrent.stream
          <6>1. Openable(s) /\ s # 0 /\ s \in StreamId
            BY <1>0, <5>3 DEF Sources, IdsTyped
          <6>2. FollowsWhole(s) /\ (s # currentId => CurrentOver)
            BY <2>2, <5>1, <5>3, <6>1
          <6> QED BY <6>1, <6>2 DEF CurrentOver, Reached
        <5> QED BY <3>1, <4>2, <5>2, <5>3 DEF Written
      <4> QED BY <1>0, <4>1, <4>2, LineComes
    <3>3. Reached(s)'
      BY <2>1, <3>2
    <3> QED BY <3>1, <3>3 DEF Reached, Openable, FollowsWhole, MayBeOver
  <2>4. published'.gen = generation' => Reached(published.stream)'
    <3>1. published.gen = generation => Reached(published.stream)
      BY <1>0, <2>0 DEF InGeneration
    <3>2. playing.gen = generation => Reached(playing.stream)
      BY <1>0, <1>t, <2>0 DEF InGeneration
    <3>3. playing.stream \in StreamId
      BY <1>t
    <3>4. PICK s : s = published'.stream
      OBVIOUS
    <3>5. published'.gen = generation => s \in StreamId /\ Reached(s)
      BY <1>t, <1>m, <3>1, <3>2, <3>3, <3>4
    <3>6. published'.gen = generation => Reached(s)'
      BY <2>1, <3>5
    <3> QED BY <1>2, <3>4, <3>6 DEF Reached, Openable, FollowsWhole, MayBeOver
  <2>5. snapshot'.gen = generation' => Reached(snapshot.stream)'
    <3>1. published.gen = generation => Reached(published.stream)
      BY <1>0, <2>0 DEF InGeneration
    <3>2. snapshot.gen = generation => Reached(snapshot.stream)
      BY <1>0, <2>0 DEF InGeneration
    <3>4. PICK s : s = snapshot'.stream
      OBVIOUS
    <3>5. snapshot'.gen = generation => s \in StreamId /\ Reached(s)
      BY <1>t, <1>m, <2>0, <3>1, <3>2, <3>4 DEF Silence
    <3>6. snapshot'.gen = generation => Reached(s)'
      BY <2>1, <3>5
    <3> QED BY <1>2, <3>4, <3>6 DEF Reached, Openable, FollowsWhole, MayBeOver
  <2>6. ASSUME decGeneration' = generation
        PROVE  /\ decCurrent'.stream \notin {0, currentId'} \/ chainedFrom'.stream # 0
                     \/ marker'.stream # 0 => CurrentOver'
               /\ currentId' < decCurrent'.stream => complete'[decCurrent'.stream]
               /\ currentId' < chainedFrom'.stream => complete'[chainedFrom'.stream]
               /\ currentId' < marker'.stream => complete'[marker'.stream]
    <3>0. /\ decCurrent'.stream \in StreamId /\ chainedFrom'.stream \in StreamId
          /\ marker'.stream \in StreamId
      BY <1>0, TypeKept, IdsAreTypedNext DEF IdsTyped
    <3>1. SUFFICES /\ decCurrent'.stream \notin {0, currentId} \/ chainedFrom'.stream # 0
                          \/ marker'.stream # 0 => CurrentOver
                   /\ FollowsWhole(decCurrent'.stream) /\ FollowsWhole(chainedFrom'.stream)
                   /\ FollowsWhole(marker'.stream)
      BY <2>1, <3>0
    <3>f. FollowsWhole(0) /\ (chainedFrom.stream # 0 => FollowsWhole(decCurrent.stream))
      BY <1>0 DEF FollowsWhole, IdsTyped, Sources
    <3>2. CASE ApplyCommand
      <4>1. Applies /\ 1 \in 1..Len(commands)
        BY <1>0, <3>2, ApplyEffect, CommandTaken, CommandTypes
      <4>2. /\ \/ UNCHANGED decGeneration /\ decCurrent'.stream \in {0, decCurrent.stream}
                   /\ (chainedFrom'.stream = 0 \/ UNCHANGED chainedFrom)
                   /\ (marker'.stream = 0 \/ UNCHANGED marker)
               \/ /\ IsRequest(commands[1]) /\ commands[1].gen = generation
                  /\ decCurrent'.stream = commands[1].stream
                  /\ chainedFrom'.stream = 0 /\ marker'.stream = 0
               \/ /\ UNCHANGED decGeneration /\ chainedFrom.stream # 0 /\ decCurrent' = chainedFrom
                  /\ chainedFrom'.stream = 0 /\ marker'.stream = decCurrent.stream
        BY <2>6, <4>1 DEF Applies, Starts0, Seeks, IsRequest
      <4>3. IsRequest(commands[1]) /\ commands[1].gen = generation => commands[1].stream = currentId
        BY <1>0, <4>1 DEF RequestsNow
      <4>4. FollowsWhole(currentId)
        BY <1>0 DEF FollowsWhole, IdsTyped
      <4> QED BY <2>2, <2>6, <3>f, <4>2, <4>3, <4>4
    <3>3. CASE Step
      <4>1. StepHolds /\ UNCHANGED decGeneration /\ decCurrent.stream # 0
        BY <1>0, <3>3, StepHolding, StepFrame DEF Writes
      <4>2. decCurrent.opened /\ decCurrent.atEnd =>
              MayBeOver(decCurrent.stream) /\ Openable(decCurrent.stream)
        BY <1>0, OverMayBe DEF Sources, AtItsEnd
      <4>3. decCurrent.opened /\ decCurrent.atEnd => CurrentOver
        BY <2>2, <2>6, <4>1, <4>2 DEF CurrentOver
      <4>4. complete[decQueued] => FollowsWhole(decQueued)
        BY DEF FollowsWhole
      <4> QED BY <2>2, <2>6, <3>f, <4>1, <4>3, <4>4 DEF StepHolds
    <3>4. CASE UiStep \/ Arrive \/ Play \/ UNCHANGED vars
      <4>1. UNCHANGED <<decCurrent, chainedFrom, marker, decGeneration>>
        BY <3>4, UiFrame, ArriveFrame, PlayFrame DEF decVars, vars
      <4> QED BY <2>2, <2>6, <4>1
    <3> QED BY <3>2, <3>3, <3>4, NextCases
  <2> QED BY <1>2, <2>3, <2>4, <2>5, <2>6
<1> QED BY <1>1, <1>2

-----------------------------------------------------------------------------
(* The line stays contiguous *)

\* Item 0 is what plays, the others are the blocks.
LineReads ==
  /\ Item(0).gen = playing.gen /\ Item(0).stream = playing.stream
  /\ Item(0).to = playing.frame /\ Item(0).end = playing.ended
  /\ \A i \in 1..Len(blocks) : Item(i).gen = blocks[i].gen
  /\ blocks # <<>> <=> Len(blocks) > 0

LEMMA LineIsRead == TypeOK => LineReads
<1> SUFFICES ASSUME TypeOK PROVE LineReads
  OBVIOUS
<1>1. blocks # <<>> <=> Len(blocks) > 0
  BY LineTypes, EmptySeq DEF LineTyped
<1> QED BY <1>1 DEF LineReads, Item

LEMMA LineIsReadNext == TypeOK' => LineReads'
BY LineIsRead, PTL

\* The frames of an item: an end marker has none, sound has some.
Filled(item) == IF item.end THEN item.from = item.to ELSE item.from < item.to
Arrived(item, bytes) == item.stream # 0 /\ ~ item.end => item.to <= bytes[item.stream]

LEMMA ItemsKept == ASSUME LineInv, [Next]_vars PROVE Items'
<1>0. /\ TypeOK /\ UiConsistent /\ UiKnows /\ Sources /\ Items /\ LineTyped /\ LineTyped'
      /\ LineReads /\ LineReads' /\ TypeOK'
  BY LineTypes, TypeKept, LineTypesNext, LineIsRead, LineIsReadNext
     DEF LineInv, Known, Wiring, Streams, Contiguous
<1>1. /\ \A i \in 1..Len(blocks) : Item(i).gen > 0 /\ Filled(Item(i))
      /\ Item(0).stream = 0 => Item(0).gen = 0
      /\ \A i \in Line : Arrived(Item(i), available)
      /\ frontSeen => Len(blocks) > 0
      /\ Offset > 0 => Len(blocks) > 0 /\ Item(0).gen = Item(1).gen
  <2>1. Offset > 0 => frontSeen /\ 1 \in 1..Len(blocks)
    BY <1>0 DEF Offset, Items, LineReads, LineTyped
  <2> QED BY <1>0, <2>1 DEF Items, LineReads, Filled, Arrived
<1>2. SUFFICES /\ \A i \in 1..Len(blocks') : Item(i)'.gen > 0 /\ Filled(Item(i)')
               /\ Item(0)'.stream = 0 => Item(0)'.gen = 0
               /\ \A i \in Line' : Arrived(Item(i)', available')
               /\ frontSeen' => Len(blocks') > 0
               /\ Offset' > 0 => Len(blocks') > 0 /\ Item(0)'.gen = Item(1)'.gen
  <2>1. Offset' > 0 /\ Len(blocks') > 0 => 1 \in 1..Len(blocks')
    BY <1>0 DEF LineTyped
  <2> QED BY <1>0, <1>2, <2>1 DEF Items, LineReads, Filled, Arrived
<1>b. /\ \A k \in Line : Arrived(Item(k), available')
      /\ \A k \in Line : Item(k).to \in Nat
  <2> SUFFICES ASSUME NEW k \in Line, Item(k).stream # 0, ~ Item(k).end
               PROVE  Item(k).to <= available'[Item(k).stream]
    BY <1>0 DEF Arrived, LineTyped
  <2>1. Item(k).stream \in StreamId /\ Item(k).to \in Nat
    BY <1>0 DEF LineTyped
  <2>2. /\ available[Item(k).stream] \in Nat /\ available'[Item(k).stream] \in Nat
        /\ available[Item(k).stream] <= available'[Item(k).stream]
    BY <1>0, <2>1, BytesStaying DEF BytesStay
  <2>3. Item(k).to <= available[Item(k).stream]
    BY <1>1 DEF Arrived
  <2> QED BY <2>1, <2>2, <2>3
<1>3. CASE Shrinks
  <2>1. PICK n \in 0..Len(blocks) :
          /\ Shifted(n) /\ Offset' = (IF n = 0 THEN Offset ELSE 0)
          /\ (frontSeen' => frontSeen /\ n = 0) /\ (n = 0 => UNCHANGED blocks)
    BY <1>3 DEF Shrinks
  <2>2. /\ Len(blocks') = Len(blocks) - n /\ Item(0)' = Item(0)
        /\ \A i \in 1..Len(blocks') : i + n \in 1..Len(blocks) /\ Item(i)' = Item(i + n)
    BY <2>1 DEF Shifted
  <2>3. \A i \in Line' : \E k \in Line : Item(i)' = Item(k)
    BY <1>0, <2>2 DEF Line, LineTyped
  <2>4. Offset' > 0 => n = 0 /\ Offset > 0
    BY <2>1
  <2>5. Offset' > 0 => Len(blocks') > 0 /\ Item(1)' = Item(1)
    <3>1. n = 0 /\ Len(blocks) > 0 => 1 \in 1..Len(blocks') /\ 1 + n = 1
      BY <1>0, <2>2 DEF LineTyped
    <3> QED BY <1>1, <2>1, <2>2, <2>4, <3>1
  <2>6. \A i \in 1..Len(blocks') : Item(i)'.gen > 0 /\ Filled(Item(i)')
    BY <1>1, <2>2
  <2>7. \A i \in Line' : Arrived(Item(i)', available')
    BY <1>b, <2>3
  <2> QED BY <1>1, <2>1, <2>2, <2>4, <2>5, <2>6, <2>7
<1>4. CASE Step /\ ~ UNCHANGED blocks
  <2>1. PICK b \in Block : Writing(b) \/ Sounding(b)
    BY <1>0, <1>4, StepWrites
  <2>2. /\ UNCHANGED <<playing, frontSeen, frontOffset, available>> /\ (frontSeen => blocks # <<>>)
        /\ Push(b) /\ decGeneration > 0
    BY <1>0, <1>4, <2>1, StepFrame
       DEF callbackVars, byteVars, Items, Writing, Sounding, Sources, Writes
  <2>3. /\ Len(blocks') = Len(blocks) + 1 /\ Offset' = Offset
        /\ \A i \in Line : Item(i)' = Item(i)
        /\ \A i \in Line' : i \in Line \/ (i = Len(blocks') /\ Item(i)' = Last')
        /\ Last' = [gen |-> b.gen, stream |-> b.stream, from |-> b.frame,
                    to |-> b.frame + b.count, end |-> b.end]
    BY <1>0, <2>2, PushEffect
  <2>4. Last'.gen > 0 /\ Filled(Last') /\ Arrived(Last', available')
    <3>1. b.frame \in Nat /\ b.count \in Nat /\ b.frame + 0 = b.frame
      BY DEF Block, Frame
    <3>2. Filled([gen |-> b.gen, stream |-> b.stream, from |-> b.frame,
                  to |-> b.frame + b.count, end |-> b.end])
      <4>1. CASE Writing(b)
        <5>1. b.end /\ b.count = 0
          BY <4>1 DEF Writing
        <5> QED BY <3>1, <5>1 DEF Filled
      <4>2. CASE Sounding(b)
        <5>1. ~ b.end /\ b.count > 0
          BY <4>2 DEF Sounding
        <5> QED BY <3>1, <5>1 DEF Filled
      <4> QED BY <2>1, <4>1, <4>2
    <3>3. Arrived([gen |-> b.gen, stream |-> b.stream, from |-> b.frame,
                  to |-> b.frame + b.count, end |-> b.end], available')
      BY <2>1, <2>2, <3>1 DEF Arrived, Writing, Sounding
    <3>4. b.gen = decGeneration
      BY <2>1 DEF Writing, Sounding
    <3> QED BY <2>2, <2>3, <3>2, <3>3, <3>4
  <2>5. 0 \in Line /\ (Len(blocks) > 0 => 1 \in Line) /\ Len(blocks) \in Nat
        /\ \A i \in 1..Len(blocks') : i \in Line' /\ (i \in Line => i \in 1..Len(blocks))
    BY <1>0, <2>3 DEF Line, LineTyped
  <2>6. \A i \in 1..Len(blocks') : Item(i)'.gen > 0 /\ Filled(Item(i)')
    BY <1>1, <2>3, <2>4, <2>5
  <2>7. \A i \in Line' : Arrived(Item(i)', available')
    BY <1>b, <2>3, <2>4
  <2> QED BY <1>1, <2>2, <2>3, <2>5, <2>6, <2>7
<1>5. CASE Refuse
  <2>1. Refuses
    BY <1>0, <1>5, RefuseEffect
  <2>2. /\ Len(blocks') = Len(blocks) /\ Len(blocks) > 0 /\ Offset' = Offset
        /\ Item(0)'.gen = Item(0).gen /\ Item(0)'.stream = Item(0).stream /\ Item(0)'.end
        /\ \A i \in 1..Len(blocks) : Item(i)' = Item(i)
    BY <2>1 DEF Refuses, Item
  <2>3. 1 \in 1..Len(blocks) /\ \A i \in Line' : i = 0 \/ i \in 1..Len(blocks)
    BY <1>0, <2>2 DEF Line, LineTyped
  <2>4. \A i \in Line' : Arrived(Item(i)', available')
    <3>1. \A i \in 1..Len(blocks) : i \in Line
      BY DEF Line
    <3> QED BY <1>b, <2>2, <2>3, <3>1 DEF Arrived
  <2> QED BY <1>1, <2>2, <2>3, <2>4
<1>6. CASE PlayBlock
  <2>1. GoesOn /\ \E to \in Nat : Plays(to)
    BY <1>0, <1>6, PlayEffect
  <2>2. PICK to \in Nat : Plays(to)
    BY <2>1
  <2>3. /\ 1 \in 1..Len(blocks) /\ 1 \in Line /\ Len(blocks) \in Nat /\ Len(blocks) > 0
        /\ Item(1).gen > 0 /\ Filled(Item(1)) /\ Item(1).stream # 0
        /\ Item(1).to \in Nat /\ Item(1).from \in Nat /\ Arrived(Item(1), available')
    <3>1. 1 \in 1..Len(blocks) /\ 1 \in Line /\ Len(blocks) \in Nat /\ Len(blocks) > 0
      BY <1>0, <2>1 DEF GoesOn, Line, LineTyped
    <3> QED BY <1>0, <1>1, <1>b, <3>1 DEF LineTyped
  <2>4. /\ Item(0)'.gen = Item(1).gen /\ Item(0)'.stream = Item(1).stream /\ Item(0)'.to = to
        /\ Item(0)'.end = (to = Item(1).to /\ Item(1).end)
        /\ to <= Item(1).to /\ Item(1).from <= to
    BY <2>2 DEF Plays
  <2>5. Arrived(Item(0)', available')
    <3>1. Item(1).end => Item(0)'.end
      <4>1. Item(1).end => to = Item(1).to
        BY <2>3, <2>4 DEF Filled
      <4> QED BY <2>4, <4>1
    <3>2. SUFFICES ASSUME ~ Item(0)'.end PROVE to <= available'[Item(1).stream]
      BY <2>4 DEF Arrived
    <3>3. Item(1).to <= available'[Item(1).stream]
      BY <2>3, <3>1, <3>2 DEF Arrived
    <3>4. available'[Item(1).stream] \in Nat
      BY <1>0, <2>3, BytesStaying DEF BytesStay, LineTyped
    <3> QED BY <2>3, <2>4, <3>3, <3>4
  <2>6. CASE to = Item(1).to
    <3>1. /\ Len(blocks') = Len(blocks) - 1 /\ ~ frontSeen' /\ Offset' = 0
          /\ \A i \in 1..Len(blocks') : i + 1 \in 1..Len(blocks) /\ Item(i)' = Item(i + 1)
      BY <2>2, <2>6 DEF Plays
    <3>2. \A i \in Line' : i = 0 \/ i \in 1..Len(blocks')
      BY <1>0 DEF Line, LineTyped
    <3>3. \A i \in Line' : Arrived(Item(i)', available')
      <4>1. \A i \in 1..Len(blocks) : i \in Line
        BY DEF Line
      <4> QED BY <1>b, <2>5, <3>1, <3>2, <4>1
    <3>4. \A i \in 1..Len(blocks') : Item(i)'.gen > 0 /\ Filled(Item(i)')
      BY <1>1, <3>1
    <3> QED BY <2>3, <2>4, <3>1, <3>3, <3>4
  <2>7. CASE to # Item(1).to
    <3>1. /\ UNCHANGED blocks
          /\ Item(1)'.gen = Item(1).gen /\ Item(1)'.stream = Item(1).stream
          /\ Item(1)'.from = to /\ Item(1)'.to = Item(1).to /\ Item(1)'.end = Item(1).end
          /\ \A i \in 2..Len(blocks) : Item(i)' = Item(i)
      <4>1. Item(1)' = [Item(1) EXCEPT !.from = to]
        BY <2>2, <2>7 DEF Plays
      <4> QED BY <2>2, <2>7, <4>1 DEF Plays, Item
    <3>2. Filled(Item(1)') /\ Arrived(Item(1)', available')
      BY <2>3, <2>4, <2>7, <3>1 DEF Filled, Arrived
    <3>3. \A i \in 1..Len(blocks') : i = 1 \/ (i \in 2..Len(blocks) /\ i \in 1..Len(blocks))
      BY <2>3, <3>1
    <3>4. \A i \in Line' : i = 0 \/ i = 1 \/ (i \in 2..Len(blocks) /\ i \in Line)
      BY <2>3, <3>1 DEF Line
    <3>5. \A i \in 1..Len(blocks') : Item(i)'.gen > 0 /\ Filled(Item(i)')
      BY <1>1, <2>3, <3>1, <3>2, <3>3
    <3>6. \A i \in Line' : Arrived(Item(i)', available')
      BY <1>b, <2>5, <3>1, <3>2, <3>4
    <3> QED BY <2>3, <2>4, <3>1, <3>5, <3>6
  <2> QED BY <2>6, <2>7
<1> QED BY <1>0, <1>3, <1>4, <1>5, <1>6, LineMoves

\* The block the decoder pushes is item Last', and what it writes next follows it.
LEMMA PushedLine ==
  ASSUME TypeOK, Items, Step, ~ UNCHANGED blocks
  PROVE  \E b \in Block :
           /\ Writing(b) \/ (/\ Sounding(b) /\ Position(decCurrent)' = b.frame + b.count
                             /\ Position(decCurrent) = b.frame
                             /\ decCurrent'.stream = decCurrent.stream)
           /\ Len(blocks') = Len(blocks) + 1
           /\ \A i \in Line : Item(i)' = Item(i)
           /\ \A i \in Line' : i \in Line \/ (i = Len(blocks') /\ Item(i)' = Last')
           /\ Last'.gen = b.gen /\ Last'.stream = b.stream /\ Last'.from = b.frame
           /\ Last'.to = b.frame + b.count /\ Last'.end = b.end
<1> DEFINE Effect(b) ==
             /\ Len(blocks') = Len(blocks) + 1
             /\ \A i \in Line : Item(i)' = Item(i)
             /\ \A i \in Line' : i \in Line \/ (i = Len(blocks') /\ Item(i)' = Last')
             /\ Last'.gen = b.gen /\ Last'.stream = b.stream /\ Last'.from = b.frame
             /\ Last'.to = b.frame + b.count /\ Last'.end = b.end
<1>1. UNCHANGED <<playing, frontSeen, frontOffset>> /\ (frontSeen => blocks # <<>>)
  BY StepFrame DEF callbackVars, Items
<1>2. ASSUME NEW b \in Block, Push(b) PROVE Effect(b)
  BY <1>1, <1>2, PushEffect
<1> HIDE DEF Effect
<1>3. SUFFICES \E b \in Block :
         /\ Writing(b) \/ (/\ Sounding(b) /\ Position(decCurrent)' = b.frame + b.count
                           /\ Position(decCurrent) = b.frame
                           /\ decCurrent'.stream = decCurrent.stream)
         /\ Effect(b)
  BY <1>3 DEF Effect
<1>4. CASE DecodeBlock
  <2>1. PICK b \in Block : Sounding(b) /\ Position(decCurrent)' = b.frame + b.count
    BY <1>4, DecodeEffect
  <2>2. Push(b) /\ b.frame = decCurrent.nextFrame
    BY <2>1 DEF Sounding
  <2>3. decCurrent'.stream = decCurrent.stream /\ Position(decCurrent) = b.frame
    BY <1>4, <2>2, DecodeEffect DEF Reads
  <2> QED BY <1>2, <2>1, <2>2, <2>3
<1>5. CASE ~ DecodeBlock
  <2>1. PICK b \in Block : Writing(b) \/ Sounding(b)
    BY StepWrites
  <2>2. WriteMarker
    BY <1>5, OpenEffect, RecoverEffect, SeekSourceEffect, ChainEffect DEF Step, EndStream
  <2>3. marker.stream # 0
    BY <2>2 DEF WriteMarker
  <2>4. Writing(b) /\ Push(b)
    BY <2>1, <2>3 DEF Sounding, Writing
  <2> QED BY <1>2, <2>4
<1> QED BY <1>4, <1>5

\* A step of the decoder that writes nothing leaves what comes next, or goes on to it.
StepComes ==
  \/ UNCHANGED marker /\ decCurrent'.stream = decCurrent.stream
       /\ Position(decCurrent)' = Position(decCurrent)
  \/ decCurrent'.stream = 0
  \/ /\ marker.stream = 0 /\ UNCHANGED marker /\ decCurrent.atEnd /\ decCurrent.opened
     /\ Chains /\ decQueued # 0
  \/ /\ marker.stream = 0 /\ decCurrent.atEnd /\ UNCHANGED decCurrent
     /\ marker'.stream = decCurrent.stream /\ marker'.frame = Position(decCurrent)

LEMMA StepComing == ASSUME TypeOK, Step, UNCHANGED blocks PROVE StepComes
<1>1. CASE WriteMarker
  <2>1. PICK b : Push(b)
    BY <1>1 DEF WriteMarker
  <2> QED BY <2>1, AppendIsNew DEF Push, TypeOK, QueueType
<1>2. CASE EndStream
  BY <1>2 DEF EndStream, AtEnd, Ready, Working, Position, StepComes
<1>3. CASE Open
  BY <1>3, OpenEffect DEF StepComes, NoSource
<1>4. CASE Recover
  BY <1>4, RecoverEffect DEF StepComes
<1>5. CASE SeekSource
  BY <1>5, SeekSourceEffect DEF StepComes
<1>6. CASE DecodeBlock
  <2>1. \A b : ~ Push(b)
    BY AppendIsNew DEF Push, TypeOK, QueueType
  <2>2. decCurrent'.stream = decCurrent.stream /\ UNCHANGED marker
    BY <1>6, DecodeEffect DEF Reads
  <2>3. Position(decCurrent)' = Position(decCurrent)
    BY <1>6, <2>1, DecodeEffect DEF Sounding
  <2> QED BY <2>2, <2>3 DEF StepComes
<1>7. CASE Chain
  <2>1. CASE Chains
    BY <1>7, <2>1, ChainEffect DEF StepComes
  <2>2. CASE UNCHANGED decCurrent
    <3>1. Position(decCurrent)' = Position(decCurrent)
      BY <2>2 DEF Position
    <3> QED BY <1>7, <2>2, <3>1, ChainEffect DEF StepComes
  <2> QED BY <1>7, <2>1, <2>2, ChainEffect
<1> QED BY <1>1, <1>2, <1>3, <1>4, <1>5, <1>6, <1>7 DEF Step

\* The callback plays all of item 1, which item 0 then stands for, or a part.
PlayedWhole ==
  /\ Len(blocks') = Len(blocks) - 1
  /\ Item(0)'.to = Item(1).to /\ (Item(0)'.end <=> Item(1).end)
  /\ \A i \in 1..Len(blocks') : i + 1 \in 1..Len(blocks) /\ Item(i)' = Item(i + 1)
PlayedPart ==
  /\ Len(blocks') = Len(blocks) /\ ~ Item(0)'.end /\ ~ Item(1).end
  /\ Item(1)'.gen = Item(1).gen /\ Item(1)'.stream = Item(1).stream
  /\ Item(1)'.from = Item(0)'.to /\ Item(1)'.to = Item(1).to /\ ~ Item(1)'.end
  /\ \A i \in 2..Len(blocks) : Item(i)' = Item(i)
PlayedOn ==
  /\ 1 \in 1..Len(blocks) /\ Len(blocks) \in Nat
  /\ Item(0)'.gen = Item(1).gen /\ Item(0)'.stream = Item(1).stream
  /\ PlayedWhole \/ PlayedPart

LEMMA PlayedLine ==
  ASSUME TypeOK, Items, PlayBlock
  PROVE  PlayedOn
<1>0. LineTyped /\ LineTyped'
  BY LineTypes, TypeKept, LineTypesNext DEF Next, Play
<1>1. GoesOn /\ \E to \in Nat : Plays(to)
  BY PlayEffect
<1>2. PICK to \in Nat : Plays(to)
  BY <1>1
<1>3. 1 \in 1..Len(blocks) /\ 1 \in Line /\ Len(blocks) \in Nat /\ 0 \in Line'
  BY <1>0, <1>1 DEF GoesOn, Line, LineTyped
<1>4. /\ Item(1).to \in Nat /\ Item(1).from \in Nat /\ Item(1).end \in BOOLEAN
      /\ IF Item(1).end THEN Item(1).from = Item(1).to ELSE Item(1).from < Item(1).to
  BY <1>0, <1>3 DEF Items, LineTyped
<1>5. /\ Item(0)'.gen = Item(1).gen /\ Item(0)'.stream = Item(1).stream /\ Item(0)'.to = to
      /\ Item(0)'.end = (to = Item(1).to /\ Item(1).end)
      /\ to <= Item(1).to /\ Item(1).from <= to
  BY <1>2 DEF Plays
<1>6. CASE to = Item(1).to
  BY <1>2, <1>3, <1>4, <1>5, <1>6 DEF Plays, PlayedWhole, PlayedOn
<1>7. CASE to # Item(1).to
  <2>1. ~ Item(1).end
    BY <1>4, <1>5, <1>7
  <2>2. Item(1)' = [Item(1) EXCEPT !.from = to] /\ UNCHANGED blocks
        /\ \A i \in 2..Len(blocks) : Item(i)' = Item(i)
    BY <1>2, <1>7 DEF Plays
  <2>3. /\ Item(1)'.gen = Item(1).gen /\ Item(1)'.stream = Item(1).stream
        /\ Item(1)'.from = to /\ Item(1)'.to = Item(1).to /\ Item(1)'.end = Item(1).end
    BY <2>2 DEF Item
  <2> QED BY <1>3, <1>5, <1>7, <2>1, <2>2, <2>3 DEF PlayedPart, PlayedOn
<1> QED BY <1>6, <1>7

\* An id that is neither current nor queued stays so, and what continues an item
\* continues it from then on.
LEMMA GoneStays ==
  ASSUME TypeOK, UiConsistent, UiKnows, [Next]_vars, NEW s \in Nat, s # 0, Gone(s)
  PROVE  s <= lastId' /\ s # currentId' /\ s # queuedId'
<1>1. CASE UiStep
  <2>1. Gone(s)'
    BY <1>1, UiMoving DEF UiMoves
  <2> QED BY <2>1 DEF Gone
<1>2. CASE ~ UiStep
  BY <1>2, NextCases, ArriveFrame, ApplyFrame, StepFrame, PlayFrame DEF uiVars, vars, Gone
<1> QED BY <1>1, <1>2

ContinuedNext(a, b) ==
  \/ b.stream = a.stream
       /\ (b.from = a.to \/ (b.end /\ b.stream <= lastId' /\ b.stream # currentId' /\ b.stream # queuedId'))
  \/ /\ a.stream < b.stream /\ b.from = 0
     /\ (complete'[a.stream] /\ available'[a.stream] <= a.to) \/ <<a.stream, a.to>> \in Faults

LEMMA ContinuedStays ==
  ASSUME TypeOK, UiConsistent, UiKnows, [Next]_vars,
         NEW a, NEW b, a.stream \in StreamId, a.stream # 0, b.stream \in StreamId, b.stream # 0,
         Continued(a, b)
  PROVE  ContinuedNext(a, b)
<1>1. b.stream \in Nat
  BY EngineAssumption DEF StreamId
<1>2. Gone(b.stream) => b.stream <= lastId' /\ b.stream # currentId' /\ b.stream # queuedId'
  BY <1>1, GoneStays
<1>3. SoundOver(a.stream, a.to)
        => (complete'[a.stream] /\ available'[a.stream] <= a.to) \/ <<a.stream, a.to>> \in Faults
  BY BytesStaying DEF BytesStay
<1> QED BY <1>2, <1>3 DEF Continued, ContinuedNext

LEMMA FollowsNext ==
  ASSUME \A i \in 1..Len(blocks') :
           Horizon' <= Item(i)'.gen /\ Item(i - 1)'.gen = Item(i)'.gen /\ ~ Item(i - 1)'.end
             => ContinuedNext(Item(i - 1)', Item(i)')
  PROVE  Follows'
BY DEF Follows, Live, Continued, ContinuedNext, Gone, SoundOver

LEMMA FollowsKept == ASSUME LineInv, [Next]_vars PROVE Follows'
<1>0. /\ TypeOK /\ UiConsistent /\ UiKnows /\ Items /\ LineTyped /\ LineTyped' /\ LineGrown
      /\ Follows /\ WillFollow /\ LineReads
  BY LineTypes, LineGrows, TypeKept, LineTypesNext, LineIsRead
     DEF LineInv, Known, Wiring, Contiguous
<1>h. Horizon \in Nat /\ Horizon' \in Nat /\ Horizon <= Horizon'
  BY <1>0, HorizonMoves
<1>t. /\ Len(blocks) \in Nat /\ Len(blocks') \in Nat
      /\ \A i \in 1..Len(blocks) : /\ Item(i).gen \in Nat /\ Item(i - 1).gen \in Nat
                                   /\ Item(i).stream \in StreamId /\ Item(i).stream # 0
                                   /\ Item(i - 1).stream \in StreamId
                                   /\ i \in Line /\ i - 1 \in Line
  <2>1. \A i \in 1..Len(blocks) : i \in Line /\ i - 1 \in Line
    BY <1>0 DEF LineTyped, Line
  <2> QED BY <1>0, <2>1, EngineAssumption DEF LineTyped
\* What followed still follows.
<1>c. ASSUME NEW i \in 1..Len(blocks), Horizon' <= Item(i).gen,
             Item(i - 1).gen = Item(i).gen, ~ Item(i - 1).end
      PROVE  ContinuedNext(Item(i - 1), Item(i))
  <2>1. Live(Item(i).gen)
    BY <1>h, <1>t, <1>c DEF Live
  <2>2. Continued(Item(i - 1), Item(i))
    BY <1>0, <1>c, <2>1 DEF Follows
  <2>3. Item(i - 1).stream # 0
    <3>1. Item(i).gen > 0
      BY <1>0 DEF Items
    <3>2. CASE i - 1 = 0
      <4>1. playing.stream # 0
        BY <1>0, <1>c, <1>t, <3>1, <3>2 DEF Items, LineReads
      <4> QED BY <1>0, <3>2, <4>1 DEF LineReads
    <3>3. CASE i - 1 # 0
      BY <1>t, <3>3
    <3> QED BY <3>2, <3>3
  <2> QED BY <1>0, <1>t, <2>2, <2>3, ContinuedStays
<1> SUFFICES ASSUME NEW i \in 1..Len(blocks'), Horizon' <= Item(i)'.gen,
                    Item(i - 1)'.gen = Item(i)'.gen, ~ Item(i - 1)'.end
             PROVE  ContinuedNext(Item(i - 1)', Item(i)')
  BY FollowsNext
<1>1. CASE Shrinks
  <2>1. PICK n \in 0..Len(blocks) : Shifted(n) /\ \A k \in 1..n : Item(k).gen < Horizon'
    BY <1>1 DEF Shrinks
  <2>2. /\ Item(0)' = Item(0) /\ Len(blocks') = Len(blocks) - n
        /\ \A k \in 1..Len(blocks') : k + n \in 1..Len(blocks) /\ Item(k)' = Item(k + n)
    BY <2>1 DEF Shifted
  <2>3. i + n \in 1..Len(blocks) /\ Item(i)' = Item(i + n)
    BY <2>2
  <2>4. CASE i = 1 /\ n > 0
    <3>1. n \in 1..Len(blocks) /\ n \in Line /\ 0 \in Line
      BY <1>t, <2>4 DEF Line
    <3>2. Item(0).gen <= Item(n).gen /\ Item(n).gen < Horizon'
      BY <1>0, <2>1, <3>1 DEF LineGrown
    <3>3. Item(i - 1)' = Item(0)
      BY <2>2, <2>4
    <3> QED BY <1>h, <1>0, <3>1, <3>2, <3>3 DEF LineTyped
  <2>5. CASE i > 1 \/ n = 0
    <3>1. Item(i - 1)' = Item((i + n) - 1)
      <4>1. CASE i = 1
        BY <2>2, <2>5, <4>1
      <4>2. CASE i > 1
        <5>1. i - 1 \in 1..Len(blocks') /\ (i - 1) + n = (i + n) - 1
          BY <1>t, <4>2
        <5> QED BY <2>2, <5>1
      <4> QED BY <4>1, <4>2
    <3> QED BY <1>c, <2>3, <3>1
  <2> QED BY <2>4, <2>5
<1>2. CASE Step /\ ~ UNCHANGED blocks
  <2>1. PICK b \in Block :
          /\ Writing(b) \/ (/\ Sounding(b) /\ Position(decCurrent) = b.frame)
          /\ Len(blocks') = Len(blocks) + 1
          /\ \A k \in Line : Item(k)' = Item(k)
          /\ Last'.gen = b.gen /\ Last'.stream = b.stream /\ Last'.from = b.frame
          /\ Last'.end = b.end
    BY <1>0, <1>2, PushedLine
  <2>2. CASE i \in 1..Len(blocks)
    <3>1. Item(i)' = Item(i) /\ Item(i - 1)' = Item(i - 1)
      BY <1>t, <2>1, <2>2
    <3> QED BY <1>c, <2>2, <3>1
  <2>3. CASE i = Len(blocks) + 1
    <3>1. Item(i - 1)' = Last /\ Len(blocks) \in Line /\ Item(i)' = Last'
      <4>1. i - 1 = Len(blocks) /\ Len(blocks) \in Line /\ i = Len(blocks')
        BY <1>t, <2>1, <2>3 DEF Line
      <4> QED BY <2>1, <4>1 DEF Last
    <3>2. Writes
      BY <1>2, StepFrame
    <3>3. b.gen = decGeneration /\ Last.gen = decGeneration /\ ~ Last.end
      <4>1. b.gen = decGeneration
        BY <2>1 DEF Writing, Sounding
      <4> QED BY <2>1, <3>1, <4>1
    <3>4. Live(decGeneration)
      BY <1>h, <2>1, <3>1, <3>3, OrderTypes, <1>0 DEF Live, TypeOK, DecoderType
    <3>5. Continued(Last, Coming)
      BY <1>0, <3>2, <3>3, <3>4 DEF WillFollow
    <3>6. Coming.stream = b.stream /\ Coming.from = b.frame /\ (Coming.end <=> b.end)
      BY <2>1 DEF Coming, NextMarker, NextSound, Writing, Sounding
    <3>7. Continued(Last, Last')
      BY <2>1, <3>5, <3>6 DEF Continued
    <3>8. /\ Last.stream \in StreamId /\ Last.stream # 0
          /\ Last'.stream \in StreamId /\ Last'.stream # 0
      <4>1. b.stream \in StreamId /\ b.stream # 0
        BY EngineAssumption DEF Block, Stream, StreamId
      <4>2. Last.stream \in StreamId
        BY <1>0, <3>1 DEF Last, LineTyped
      <4>3. decGeneration > 0
        BY <3>2 DEF LineInv, Streams, Sources, Writes
      <4>4. CASE Len(blocks) = 0
        BY <1>0, <3>3, <4>1, <4>2, <4>3, <4>4, <2>1 DEF Last, Items, LineReads
      <4>5. CASE Len(blocks) > 0
        BY <1>t, <4>1, <4>2, <4>5, <2>1 DEF Last
      <4> QED BY <1>t, <4>4, <4>5
    <3>9. PICK a, c : a = Last /\ c = Last'
      OBVIOUS
    <3>10. ContinuedNext(a, c)
      <4>1. Continued(a, c)
        BY <3>7, <3>9
      <4> QED BY <1>0, <3>8, <3>9, <4>1, ContinuedStays
    <3> QED BY <3>1, <3>9, <3>10
  <2> QED BY <1>t, <2>1, <2>2, <2>3
<1>3. CASE Refuse
  <2>1. Refuses /\ Len(blocks') = Len(blocks) /\ Item(0)'.end
    BY <1>0, <1>3, RefuseEffect DEF Refuses, Item
  <2>2. i \in 2..Len(blocks) /\ i \in 1..Len(blocks) /\ i - 1 \in 1..Len(blocks)
    BY <1>t, <2>1
  <2>3. Item(i)' = Item(i) /\ Item(i - 1)' = Item(i - 1)
    BY <2>1, <2>2 DEF Refuses
  <2> QED BY <1>c, <2>2, <2>3
<1>4. CASE PlayBlock
  <2>1. PlayedOn
    BY <1>0, <1>4, PlayedLine
  <2>2. CASE PlayedWhole
    <3>1. i + 1 \in 1..Len(blocks) /\ Item(i)' = Item(i + 1) /\ (i + 1) - 1 = i
      BY <2>2 DEF PlayedWhole
    <3>2. CASE i = 1
      <4>1. /\ Item(0)'.gen = Item(1).gen /\ Item(0)'.stream = Item(1).stream
            /\ Item(0)'.to = Item(1).to /\ ~ Item(1).end /\ i - 1 = 0
        BY <2>1, <2>2, <3>2 DEF PlayedOn, PlayedWhole
      <4>2. ContinuedNext(Item(1), Item(2))
        BY <1>c, <3>1, <3>2, <4>1
      <4> QED BY <3>1, <3>2, <4>1, <4>2 DEF ContinuedNext
    <3>3. CASE i # 1
      <4>1. i - 1 \in 1..Len(blocks') /\ (i - 1) + 1 = i
        BY <1>t, <3>3
      <4>2. Item(i - 1)' = Item(i)
        BY <2>2, <4>1 DEF PlayedWhole
      <4> QED BY <1>c, <3>1, <4>2
    <3> QED BY <3>2, <3>3
  <2>3. CASE PlayedPart
    <3>0. i \in 1..Len(blocks) /\ i \in Nat
      BY <2>3 DEF PlayedPart
    <3>1. CASE i = 1
      <4>1. Item(1)'.stream = Item(0)'.stream /\ Item(1)'.from = Item(0)'.to /\ i - 1 = 0
        BY <2>1, <2>3, <3>1 DEF PlayedOn, PlayedPart
      <4> QED BY <3>1, <4>1 DEF ContinuedNext
    <3>2. CASE i = 2
      <4>1. /\ Item(1)'.gen = Item(1).gen /\ Item(1)'.stream = Item(1).stream
            /\ Item(1)'.to = Item(1).to /\ ~ Item(1).end /\ i - 1 = 1 /\ Item(2)' = Item(2)
        BY <2>3, <3>0, <3>2 DEF PlayedPart
      <4>2. ContinuedNext(Item(1), Item(2))
        BY <1>c, <3>0, <3>2, <4>1
      <4> QED BY <3>2, <4>1, <4>2 DEF ContinuedNext
    <3>3. CASE i # 1 /\ i # 2
      <4>1. i \in 2..Len(blocks) /\ i - 1 \in 2..Len(blocks)
        BY <1>t, <3>0, <3>3
      <4>2. Item(i)' = Item(i) /\ Item(i - 1)' = Item(i - 1)
        BY <2>3, <4>1 DEF PlayedPart
      <4> QED BY <1>c, <3>0, <4>2
    <3> QED BY <3>1, <3>2, <3>3
  <2> QED BY <2>1, <2>2, <2>3 DEF PlayedOn
<1> QED BY <1>0, <1>1, <1>2, <1>3, <1>4, LineMoves

\* The end of the line stays, unless all of it was dropped.
LastSame ==
  /\ Last'.gen = Last.gen /\ Last'.stream = Last.stream /\ Last'.to = Last.to
  /\ Last'.end <=> Last.end
LastMoves == LastSame \/ (Last'.gen < Horizon' /\ Last.gen < Horizon')

LEMMA LastMoving ==
  ASSUME TypeOK, GenerationsInOrder, Items, [Next]_vars, Shrinks \/ Refuse \/ PlayBlock
  PROVE  LastMoves
<1>0. LineTyped /\ LineGrown /\ LineTyped' /\ Len(blocks) \in Nat /\ Len(blocks') \in Nat
  BY LineTypes, LineGrows, TypeKept, LineTypesNext DEF LineTyped
<1>1. CASE Shrinks
  <2>1. PICK n \in 0..Len(blocks) : Shifted(n) /\ \A k \in 1..n : Item(k).gen < Horizon'
    BY <1>1 DEF Shrinks
  <2>2. /\ Item(0)' = Item(0) /\ Len(blocks') = Len(blocks) - n
        /\ \A k \in 1..Len(blocks') : k + n \in 1..Len(blocks) /\ Item(k)' = Item(k + n)
    BY <2>1 DEF Shifted
  <2>3. CASE Len(blocks') > 0
    <3>1. Len(blocks') \in 1..Len(blocks') /\ Len(blocks') + n = Len(blocks)
      BY <1>0, <2>2, <2>3
    <3>2. PICK k : k = Len(blocks')
      OBVIOUS
    <3>3. Item(k)' = Item(Len(blocks))
      BY <2>2, <3>1, <3>2
    <3>4. Last' = Item(k)'
      BY <3>2 DEF Last, Item
    <3> QED BY <3>3, <3>4 DEF LastMoves, LastSame, Last
  <2>4. CASE Len(blocks') = 0 /\ n = 0
    <3>1. Len(blocks) = 0 /\ Last' = Item(0)'
      BY <1>0, <2>2, <2>4 DEF Last, Item
    <3> QED BY <2>2, <3>1 DEF LastMoves, LastSame, Last
  <2>5. CASE Len(blocks') = 0 /\ n > 0
    <3>1. n = Len(blocks) /\ n \in 1..n /\ n \in Line /\ 0 \in Line /\ 0 <= n
      BY <1>0, <2>2, <2>5 DEF Line
    <3>2. Last' = Item(0)'
      BY <2>5 DEF Last, Item
    <3>3. Last = Item(n) /\ Last' = Item(0)
      BY <2>2, <3>1, <3>2 DEF Last
    <3>4. Item(0).gen <= Item(n).gen /\ Item(n).gen < Horizon'
      BY <1>0, <2>1, <3>1 DEF LineGrown
    <3>5. Item(0).gen \in Nat /\ Item(n).gen \in Nat /\ Horizon' \in Nat
      <4>1. TypeOK'
        BY TypeKept
      <4> QED BY <1>0, <3>1, <4>1 DEF LineTyped, Horizon, TypeOK, UiType, CallbackType
    <3>6. Item(0).gen < Horizon'
      BY <3>4, <3>5
    <3> QED BY <3>3, <3>4, <3>6 DEF LastMoves
  <2> QED BY <1>0, <2>3, <2>4, <2>5
<1>2. CASE Refuse
  <2>1. Refuses /\ Len(blocks') = Len(blocks)
    BY <1>2, RefuseEffect DEF Refuses
  <2>2. PICK k : k = Len(blocks')
    OBVIOUS
  <2>3. k \in 1..Len(blocks)
    BY <1>0, <2>1, <2>2 DEF Refuses
  <2>4. Item(k)' = Item(k) /\ Last' = Item(k)' /\ Last = Item(k)
    <3>1. Last' = Item(k)'
      BY <2>2 DEF Last, Item
    <3> QED BY <2>1, <2>2, <2>3, <3>1 DEF Last, Refuses
  <2> QED BY <2>4 DEF LastMoves, LastSame
<1>3. CASE PlayBlock
  <2>1. PlayedOn
    BY <1>3, PlayedLine
  <2>2. PICK k : k = Len(blocks')
    OBVIOUS
  <2>3. Last' = Item(k)' /\ k \in Nat
    BY <1>0, <2>2 DEF Last, Item
  <2>4. CASE PlayedWhole
    <3>1. CASE k = 0
      <4>1. Len(blocks) = 1
        BY <1>0, <2>2, <2>4, <3>1 DEF PlayedWhole
      <4> QED BY <2>1, <2>3, <2>4, <3>1, <4>1 DEF PlayedOn, PlayedWhole, Last, LastMoves, LastSame
    <3>2. CASE k # 0
      <4>1. k \in 1..Len(blocks') /\ k + 1 = Len(blocks)
        BY <1>0, <2>2, <2>3, <2>4, <3>2 DEF PlayedWhole
      <4>2. Item(k)' = Item(k + 1)
        BY <2>4, <4>1 DEF PlayedWhole
      <4> QED BY <2>3, <4>1, <4>2 DEF Last, LastMoves, LastSame
    <3> QED BY <3>1, <3>2
  <2>5. CASE PlayedPart
    <3>1. k = Len(blocks) /\ k >= 1
      BY <1>0, <2>1, <2>2, <2>5 DEF PlayedOn, PlayedPart
    <3>2. CASE k = 1
      BY <2>3, <2>5, <3>1, <3>2 DEF PlayedPart, Last, LastMoves, LastSame
    <3>3. CASE k # 1
      <4>1. k \in 2..Len(blocks)
        BY <2>3, <3>1, <3>3
      <4> QED BY <2>3, <2>5, <3>1, <4>1 DEF PlayedPart, Last, LastMoves, LastSame
    <3> QED BY <3>2, <3>3
  <2> QED BY <2>1, <2>4, <2>5 DEF PlayedOn
<1> QED BY <1>1, <1>2, <1>3

\* What comes next: the marker or sound.
ComingReads ==
  /\ marker.stream # 0 =>
       Coming.stream = marker.stream /\ Coming.from = marker.frame /\ Coming.end
  /\ marker.stream = 0 =>
       Coming.stream = decCurrent.stream /\ Coming.from = Position(decCurrent) /\ ~ Coming.end

LEMMA ComingIs == TRUE => ComingReads
BY DEF ComingReads, Coming, NextMarker, NextSound

LEMMA ComingIsNext == ComingReads'
BY ComingIs, PTL

LEMMA WillFollowNext ==
  ASSUME Horizon' <= decGeneration' /\ Last'.gen = decGeneration' /\ ~ Last'.end
           /\ decCurrent'.stream # 0 /\ ~ decEnded' =>
         /\ ContinuedNext(Last', Coming')
         /\ marker'.stream = 0 /\ Last'.stream # decCurrent'.stream =>
              decCurrent'.stream \notin Undecodable /\ available'[decCurrent'.stream] > 0
  PROVE  WillFollow'
BY DEF WillFollow, Live, Writes, Continued, ContinuedNext, Gone, Openable, SoundOver

LEMMA WillFollowKept == ASSUME LineInv, [Next]_vars PROVE WillFollow'
<1>0. /\ TypeOK /\ UiConsistent /\ UiKnows /\ GenerationsInOrder /\ Items /\ LineTyped
      /\ LineGrown /\ WillFollow /\ LineReads /\ Sources /\ IdsTyped /\ NothingYet
      /\ ClearedAreGone /\ IdsGrow /\ TypeOK' /\ LineTyped' /\ IdsTyped'
      /\ ComingReads /\ ComingReads' /\ GenerationsInOrder'
  BY LineTypes, LineGrows, LineIsRead, IdsAreTyped, TypeKept, LineTypesNext, IdsAreTypedNext,
     ComingIs, ComingIsNext, OrderKept DEF LineInv, Known, Wiring, Streams, Contiguous
<1>h. /\ Horizon \in Nat /\ Horizon' \in Nat /\ Horizon <= Horizon'
      /\ decGeneration \in Nat /\ decGeneration' \in Nat
      /\ Len(blocks) \in Nat /\ Len(blocks) \in Line
      /\ Last.gen \in Nat /\ Last.gen <= decGeneration
  <2>1. Len(blocks) \in Nat /\ Len(blocks) \in Line
    BY <1>0 DEF LineTyped, Line
  <2> QED BY <1>0, <2>1, HorizonMoves DEF IdsTyped, LineTyped, LineGrown, Last
<1> DEFINE Op == decCurrent'.stream \notin Undecodable /\ available'[decCurrent'.stream] > 0
           Before == /\ Horizon' <= decGeneration /\ Last.gen = decGeneration /\ ~ Last.end
                     /\ Writes
<1> SUFFICES ASSUME Horizon' <= decGeneration', Last'.gen = decGeneration', ~ Last'.end,
                    decCurrent'.stream # 0, ~ decEnded'
             PROVE  /\ ContinuedNext(Last', Coming')
                    /\ marker'.stream = 0 /\ Last'.stream # decCurrent'.stream => Op
  BY WillFollowNext
<1>w. Before =>
        /\ Continued(Last, Coming)
        /\ marker.stream = 0 /\ Last.stream # decCurrent.stream => Openable(decCurrent.stream)
        /\ Last.stream \in StreamId /\ Last.stream # 0
        /\ Coming.stream \in StreamId /\ Coming.stream # 0
        /\ Last.to <= available[Last.stream]
  <2> SUFFICES ASSUME Before
               PROVE  /\ Continued(Last, Coming)
                      /\ marker.stream = 0 /\ Last.stream # decCurrent.stream
                           => Openable(decCurrent.stream)
                      /\ Last.stream \in StreamId /\ Last.stream # 0
                      /\ Coming.stream \in StreamId /\ Coming.stream # 0
                      /\ Last.to <= available[Last.stream]
    OBVIOUS
  <2>1. Live(decGeneration) /\ decGeneration > 0
    BY <1>0, <1>h DEF Live, Sources, Writes
  <2>2. /\ Continued(Last, Coming)
        /\ marker.stream = 0 /\ Last.stream # decCurrent.stream => Openable(decCurrent.stream)
    BY <1>0, <2>1 DEF WillFollow
  <2>3. Last.stream # 0
    <3>1. CASE Len(blocks) = 0
      BY <1>0, <2>1, <3>1 DEF Last, LineReads, Items
    <3>2. CASE Len(blocks) > 0
      <4>1. Len(blocks) \in 1..Len(blocks)
        BY <1>h, <3>2
      <4> QED BY <1>0, <4>1 DEF Last, LineTyped
    <3> QED BY <1>h, <3>1, <3>2
  <2>4. Last.to <= available[Last.stream] /\ Last.stream \in StreamId
    BY <1>0, <1>h, <2>3 DEF Items, Last, LineTyped
  <2>5. Coming.stream \in StreamId /\ Coming.stream # 0
    BY <1>0 DEF ComingReads, IdsTyped, Writes
  <2> QED BY <2>2, <2>3, <2>4, <2>5
<1>o. \A s \in StreamId : s # 0 /\ Openable(s) => s \notin Undecodable /\ available'[s] > 0
  <2> SUFFICES ASSUME NEW s \in StreamId, s # 0, Openable(s)
               PROVE  s \notin Undecodable /\ available'[s] > 0
    OBVIOUS
  <2> QED BY <1>0, OpenableStays DEF Openable
<1> HIDE DEF Before
\* Neither the end of the line nor what comes next changes.
<1>s. ASSUME Before, LastSame, Coming'.stream = Coming.stream, Coming'.from = Coming.from,
             Coming'.end <=> Coming.end,
             marker'.stream = 0 => marker.stream = 0 /\ decCurrent'.stream = decCurrent.stream
      PROVE  /\ ContinuedNext(Last', Coming')
             /\ marker'.stream = 0 /\ Last'.stream # decCurrent'.stream => Op
  <2>1. PICK a, b : a = Last /\ b = Coming
    OBVIOUS
  <2>2. Continued(a, b) /\ a.stream \in StreamId /\ a.stream # 0 /\ b.stream \in StreamId
        /\ b.stream # 0
    BY <1>w, <1>s, <2>1
  <2>3. ContinuedNext(a, b)
    BY <1>0, <2>2, ContinuedStays
  <2>4. ContinuedNext(Last', Coming')
    BY <1>s, <2>1, <2>3 DEF ContinuedNext, LastSame
  <2>5. marker'.stream = 0 /\ Last'.stream # decCurrent'.stream => Op
    <3>1. decCurrent.stream \in StreamId
      BY <1>0 DEF IdsTyped
    <3> QED BY <1>w, <1>s, <1>o, <3>1 DEF LastSame
  <2> QED BY <2>4, <2>5
<1>1. CASE (UiStep \/ Arrive \/ Play \/ UNCHANGED vars) /\ ~ Step
  <2>1. UNCHANGED <<decGeneration, decCurrent, chainedFrom, marker, decEnded>>
    BY <1>1, UiFrame, ArriveFrame, PlayFrame DEF decVars, vars
  <2>2. LastMoves
    BY <1>0, <1>1, LineMoves, LastMoving
  <2>3. LastSame
    BY <1>0, <1>h, <2>2 DEF LastMoves
  <2>4. Before
    BY <2>1, <2>3 DEF Before, LastSame, Writes
  <2>5. Position(decCurrent)' = Position(decCurrent)
    BY <2>1 DEF Position
  <2>6. Coming'.stream = Coming.stream /\ Coming'.from = Coming.from /\ (Coming'.end <=> Coming.end)
    BY <1>0, <2>1, <2>5 DEF ComingReads
  <2> QED BY <1>s, <2>1, <2>3, <2>4, <2>6
<1>2. CASE ApplyCommand
  <2>1. /\ Applies /\ 1 \in 1..Len(commands)
        /\ \A i : Item(i)' = Item(i)
    BY <1>0, <1>2, ApplyEffect, CommandTaken, CommandTypes, ApplyFrame, SameLine
       DEF queueVars, callbackVars
  <2>2. Last' = Last
    BY <1>2, ApplyFrame, SameLine DEF queueVars, callbackVars
  <2>3. LastSame
    BY <2>2 DEF LastSame
  <2>4. ASSUME IsRequest(commands[1]), decGeneration' = commands[1].gen PROVE FALSE
    <3>1. Last.gen = commands[1].gen /\ decGeneration <= commands[1].gen /\ commands[1].gen \in Nat
      BY <1>0, <2>1, <2>2, <2>4, OrderParts, OrderTypes DEF RequestsInOrder
    <3>2. commands[1].gen = decGeneration
      BY <1>h, <3>1
    <3>3. Barren(1)
      BY <1>0, <2>1, <2>4, <3>2 DEF NothingYet, Again
    <3> QED BY <1>h, <3>1, <3>3 DEF Barren, Last
  <2>5. CASE UNCHANGED <<decGeneration, decCurrent, marker, decEnded>>
    <3>1. Before
      BY <2>2, <2>5 DEF Before, Writes
    <3>2. Position(decCurrent)' = Position(decCurrent)
      BY <2>5 DEF Position
    <3>3. Coming'.stream = Coming.stream /\ Coming'.from = Coming.from
          /\ (Coming'.end <=> Coming.end)
      BY <1>0, <2>5, <3>2 DEF ComingReads
    <3> QED BY <1>s, <2>3, <2>5, <3>1, <3>3
  <2>6. CASE /\ commands[1].kind = "ClearQueued" /\ UNCHANGED <<decGeneration, decEnded>>
             /\ chainedFrom.stream # 0 /\ decCurrent.stream = commands[1].stream
             /\ marker'.stream = commands[1].stream /\ marker'.frame = 0
    <3>1. commands[1].stream # 0 /\ Gone(commands[1].stream)
      BY <1>0, <2>1, <2>6 DEF ClearedAreGone
    <3>2. Before
      BY <2>2, <2>6, <3>1 DEF Before, Writes
    <3>3. Coming.stream = commands[1].stream
      <4>1. marker.stream \in {0, decCurrent.stream}
        BY <1>0, <2>6 DEF Sources
      <4> QED BY <1>0, <2>6, <4>1 DEF ComingReads
    <3>4. Coming'.stream = commands[1].stream /\ Coming'.from = 0 /\ Coming'.end
      BY <1>0, <2>6, <3>1 DEF ComingReads
    <3>5. UNCHANGED <<lastId, currentId, queuedId, available, complete>>
      BY <1>2, ApplyFrame DEF uiVars, byteVars
    <3>6. ContinuedNext(Last', Coming')
      BY <1>w, <2>2, <3>1, <3>2, <3>3, <3>4, <3>5
         DEF Continued, ContinuedNext, Gone, SoundOver
    <3> QED BY <2>6, <3>1, <3>6
  <2> QED BY <2>1, <2>4, <2>5, <2>6 DEF Applies, Starts0, Seeks, IsRequest
<1>3. CASE Step /\ ~ UNCHANGED blocks
  <2>1. PICK b \in Block :
          /\ Writing(b) \/ (/\ Sounding(b) /\ Position(decCurrent)' = b.frame + b.count
                            /\ decCurrent'.stream = decCurrent.stream)
          /\ Last'.stream = b.stream /\ Last'.to = b.frame + b.count
    BY <1>0, <1>3, PushedLine
  <2>2. Sounding(b) /\ Position(decCurrent)' = b.frame + b.count
        /\ decCurrent'.stream = decCurrent.stream
    BY <2>1 DEF Writing
  <2>3. marker'.stream = 0 /\ b.stream = decCurrent.stream
    BY <2>2 DEF Sounding
  <2>4. Coming'.stream = b.stream /\ Coming'.from = b.frame + b.count
    BY <1>0, <2>2, <2>3 DEF ComingReads
  <2> QED BY <2>1, <2>2, <2>3, <2>4 DEF ContinuedNext
<1>4. CASE Step /\ UNCHANGED blocks
  <2>1. /\ StepComes /\ Writes /\ UNCHANGED <<decGeneration, available, complete>>
        /\ UNCHANGED <<lastId, currentId, queuedId>> /\ Last' = Last
    BY <1>0, <1>4, StepComing, StepFrame, SameLine DEF uiVars, byteVars, callbackVars
  <2>2. Before /\ LastSame
    BY <2>1 DEF Before, LastSame
  <2>3. CASE UNCHANGED marker /\ decCurrent'.stream = decCurrent.stream
               /\ Position(decCurrent)' = Position(decCurrent)
    <3>1. Coming'.stream = Coming.stream /\ Coming'.from = Coming.from
          /\ (Coming'.end <=> Coming.end)
      BY <1>0, <2>3 DEF ComingReads
    <3> QED BY <1>s, <2>2, <2>3, <3>1
  <2>4. CASE /\ marker.stream = 0 /\ UNCHANGED marker /\ decCurrent.atEnd /\ decCurrent.opened
             /\ Chains /\ decQueued # 0
    <3>1. SoundOver(decCurrent.stream, Position(decCurrent))
      BY <1>0, <2>4 DEF Sources, AtItsEnd, Position
    <3>2. Coming.stream = decCurrent.stream /\ Coming.from = Position(decCurrent) /\ ~ Coming.end
      BY <1>0, <2>4 DEF ComingReads
    <3>3. /\ Last.stream = decCurrent.stream \/ Last.stream < decCurrent.stream
          /\ SoundOver(Last.stream, Last.to)
      <4>1. Continued(Last, Coming)
        BY <1>w, <2>2
      <4> QED BY <3>1, <3>2, <4>1 DEF Continued
    <3>4. Last.stream \in Nat /\ decCurrent.stream \in Nat /\ decQueued \in Nat
      BY <1>0, <1>h, <1>w, <2>2, EngineAssumption DEF IdsTyped, StreamId
    <3>5. Coming'.stream = decQueued /\ Coming'.from = 0 /\ decCurrent'.stream = decQueued
          /\ OpenSucceeds(decQueued)
      BY <1>0, <2>4 DEF ComingReads, Chains
    <3>6. decCurrent.stream < decQueued
      BY <1>0, <2>4 DEF IdsGrow
    <3>7. ContinuedNext(Last', Coming')
      <4>1. Last.stream < decQueued
        BY <3>3, <3>4, <3>6
      <4> QED BY <2>1, <3>3, <3>5, <4>1 DEF ContinuedNext, SoundOver
    <3> QED BY <2>1, <3>5, <3>7 DEF OpenSucceeds
  <2>5. CASE /\ marker.stream = 0 /\ decCurrent.atEnd /\ UNCHANGED decCurrent
             /\ marker'.stream = decCurrent.stream /\ marker'.frame = Position(decCurrent)
    <3>1. Coming.stream = decCurrent.stream /\ Coming.from = Position(decCurrent) /\ ~ Coming.end
      BY <1>0, <2>5 DEF ComingReads
    <3>2. marker'.stream # 0 /\ Coming'.stream = decCurrent.stream
          /\ Coming'.from = Position(decCurrent)
      BY <1>0, <2>1, <2>5 DEF ComingReads, Writes
    <3>3. ContinuedNext(Last', Coming')
      BY <1>w, <2>1, <2>2, <3>1, <3>2 DEF Continued, ContinuedNext, SoundOver
    <3> QED BY <3>2, <3>3
  <2> QED BY <2>1, <2>3, <2>4, <2>5 DEF StepComes
<1> QED BY <1>1, <1>2, <1>3, <1>4, NextCases

StartsNext(item) == item.from = (IF item.stream = currentId' THEN shownFrame' ELSE 0)

LEMMA FirstNext ==
  ASSUME \A i \in 1..Len(blocks') :
           Item(i)'.gen = generation' /\ Item(i - 1)'.gen < generation' => StartsNext(Item(i)'),
         decGeneration' = generation' /\ Last'.gen < generation' /\ decCurrent'.stream # 0
             /\ ~ decEnded' =>
           StartsNext(Coming') /\ (marker'.stream = 0 => currentId' <= decCurrent'.stream)
  PROVE  First'
BY DEF First, Starts, StartsNext, Writes

\* The first item of a generation, along the line.
LEMMA FirstItemKept ==
  ASSUME LineInv, [Next]_vars, generation' = generation, currentId' = currentId,
         shownFrame' = shownFrame, NEW i \in 1..Len(blocks'),
         Item(i)'.gen = generation, Item(i - 1)'.gen < generation
  PROVE  Starts(Item(i)')
<1>0. /\ TypeOK /\ UiConsistent /\ UiKnows /\ Items /\ LineTyped /\ LineTyped'
      /\ First /\ ComingReads /\ LineGrown
  BY LineTypes, TypeKept, LineTypesNext, ComingIs, LineGrows
     DEF LineInv, Known, Wiring, Contiguous
<1>t. Len(blocks) \in Nat /\ Len(blocks') \in Nat /\ generation \in Nat
      /\ \A k \in Line : Item(k).gen \in Nat
  BY <1>0 DEF LineTyped, TypeOK, UiType
<1>f. \A k \in 1..Len(blocks) :
        Item(k).gen = generation /\ Item(k - 1).gen < generation => Starts(Item(k))
  BY <1>0 DEF First
<1>1. CASE Shrinks
  <2>1. PICK n \in 0..Len(blocks) : Shifted(n) /\ \A k \in 1..n : Item(k).gen < Horizon'
    BY <1>1 DEF Shrinks
  <2>2. /\ Item(0)' = Item(0) /\ Len(blocks') = Len(blocks) - n
        /\ \A k \in 1..Len(blocks') : k + n \in 1..Len(blocks) /\ Item(k)' = Item(k + n)
    BY <2>1 DEF Shifted
  <2>3. i + n \in 1..Len(blocks) /\ Item(i)' = Item(i + n)
    BY <2>2
  <2>4. CASE i = 1 /\ n > 0
    <3>1. n \in 1..n /\ n \in Line /\ (i + n) - 1 = n
      BY <1>t, <2>4 DEF Line
    <3>2. Horizon' <= generation /\ Horizon' \in Nat
      BY <1>0, HorizonMoves
    <3>3. Item((i + n) - 1).gen < generation
      BY <1>t, <2>1, <3>1, <3>2
    <3> QED BY <1>f, <2>3, <3>3
  <2>5. CASE i > 1 \/ n = 0
    <3>1. Item(i - 1)' = Item((i + n) - 1)
      <4>1. CASE i = 1
        BY <2>2, <2>5, <4>1
      <4>2. CASE i > 1
        <5>1. i - 1 \in 1..Len(blocks') /\ (i - 1) + n = (i + n) - 1
          BY <1>t, <4>2
        <5> QED BY <2>2, <5>1
      <4> QED BY <4>1, <4>2
    <3> QED BY <1>f, <2>3, <3>1
  <2> QED BY <2>4, <2>5
<1>2. CASE Step /\ ~ UNCHANGED blocks
  <2>1. PICK b \in Block :
          /\ Writing(b) \/ (/\ Sounding(b) /\ Position(decCurrent) = b.frame)
          /\ Len(blocks') = Len(blocks) + 1
          /\ \A k \in Line : Item(k)' = Item(k)
          /\ Last'.gen = b.gen /\ Last'.stream = b.stream /\ Last'.from = b.frame
    BY <1>0, <1>2, PushedLine
  <2>2. CASE i \in 1..Len(blocks)
    <3>1. Item(i)' = Item(i) /\ Item(i - 1)' = Item(i - 1)
      <4>1. i \in Line /\ i - 1 \in Line
        BY <1>t, <2>2 DEF Line
      <4> QED BY <2>1, <4>1
    <3> QED BY <1>f, <2>2, <3>1
  <2>3. CASE i = Len(blocks) + 1
    <3>1. Item(i - 1)' = Last /\ Item(i)' = Last'
      <4>1. i - 1 = Len(blocks) /\ Len(blocks) \in Line /\ i = Len(blocks')
        BY <1>t, <2>1, <2>3 DEF Line
      <4> QED BY <2>1, <4>1 DEF Last
    <3>2. Writes
      BY <1>2, StepFrame
    <3>3. b.gen = decGeneration
      BY <2>1 DEF Writing, Sounding
    <3>4. Starts(Coming)
      BY <1>0, <2>1, <3>1, <3>2, <3>3 DEF First
    <3>5. Coming.stream = b.stream /\ Coming.from = b.frame
      BY <1>0, <2>1 DEF ComingReads, Writing, Sounding
    <3>6. Item(i)'.stream = Coming.stream /\ Item(i)'.from = Coming.from
      BY <2>1, <3>1, <3>5
    <3> QED BY <3>4, <3>6 DEF Starts
  <2> QED BY <1>t, <2>1, <2>2, <2>3
<1>3. CASE Refuse
  <2>1. Refuses /\ Len(blocks') = Len(blocks) /\ Item(0)'.gen = Item(0).gen
    BY <1>0, <1>3, RefuseEffect DEF Refuses, Item
  <2>2. i \in 1..Len(blocks) /\ Item(i)' = Item(i)
    BY <2>1 DEF Refuses
  <2>3. Item(i - 1)'.gen = Item(i - 1).gen
    <3>1. i - 1 = 0 \/ i - 1 \in 1..Len(blocks)
      BY <1>t, <2>2
    <3> QED BY <2>1, <3>1 DEF Refuses
  <2> QED BY <1>f, <2>2, <2>3
<1>4. CASE PlayBlock
  <2>1. PlayedOn
    BY <1>0, <1>4, PlayedLine
  <2>2. CASE PlayedWhole
    <3>1. i + 1 \in 1..Len(blocks) /\ Item(i)' = Item(i + 1) /\ (i + 1) - 1 = i
      BY <2>2 DEF PlayedWhole
    <3>2. Item(i - 1)'.gen = Item(i).gen
      <4>1. CASE i = 1
        BY <2>1, <4>1 DEF PlayedOn
      <4>2. CASE i # 1
        <5>1. i - 1 \in 1..Len(blocks') /\ (i - 1) + 1 = i
          BY <1>t, <4>2
        <5> QED BY <2>2, <5>1 DEF PlayedWhole
      <4> QED BY <4>1, <4>2
    <3> QED BY <1>f, <3>1, <3>2
  <2>3. CASE PlayedPart
    <3>0. i \in 1..Len(blocks) /\ i \in Nat
      BY <2>3 DEF PlayedPart
    <3>1. i # 1
      <4>1. i = 1 => i - 1 = 0
        OBVIOUS
      <4>2. i = 1 => Item(i - 1)'.gen = Item(i)'.gen
        BY <2>1, <2>3, <4>1 DEF PlayedOn, PlayedPart
      <4> QED BY <1>t, <4>2
    <3>2. i \in 2..Len(blocks) /\ Item(i)' = Item(i)
      BY <2>3, <3>0, <3>1 DEF PlayedPart
    <3>3. Item(i - 1)'.gen = Item(i - 1).gen
      <4>1. i - 1 = 1 \/ i - 1 \in 2..Len(blocks)
        BY <1>t, <3>2
      <4> QED BY <2>3, <4>1 DEF PlayedPart
    <3> QED BY <1>f, <3>0, <3>2, <3>3
  <2> QED BY <2>1, <2>2, <2>3 DEF PlayedOn
<1> QED BY <1>0, <1>1, <1>2, <1>3, <1>4, LineMoves

\* Where the decoder begins in a generation of which nothing is in the line yet.
LEMMA FirstComingKept ==
  ASSUME LineInv, [Next]_vars, generation' = generation, currentId' = currentId,
         shownFrame' = shownFrame, decGeneration' = generation, Last'.gen < generation,
         decCurrent'.stream # 0, ~ decEnded'
  PROVE  Starts(Coming') /\ (marker'.stream = 0 => currentId <= decCurrent'.stream)
<1>0. /\ TypeOK /\ UiConsistent /\ UiKnows /\ GenerationsInOrder /\ Items /\ First
      /\ Sources /\ IdsTyped /\ RequestsNow /\ ClearedAreGone /\ IdsGrow /\ IdsTyped'
      /\ ComingReads /\ ComingReads' /\ TypeOK'
  BY IdsAreTyped, TypeKept, IdsAreTypedNext, ComingIs, ComingIsNext
     DEF LineInv, Known, Wiring, Streams, Contiguous
<1>f. decGeneration = generation /\ Last.gen < generation /\ Writes =>
        Starts(Coming) /\ (marker.stream = 0 => currentId <= decCurrent.stream)
  BY <1>0 DEF First
<1>t. generation \in Nat /\ currentId \in Nat /\ decCurrent.stream \in Nat /\ decQueued \in Nat
  BY <1>0 DEF IdsTyped
\* Neither what comes next nor the beginning of the generation changes.
<1>s. ASSUME Last.gen < generation, UNCHANGED decGeneration, Writes,
             Coming'.stream = Coming.stream, Coming'.from = Coming.from,
             marker'.stream = 0 => marker.stream = 0 /\ decCurrent'.stream = decCurrent.stream
      PROVE  Starts(Coming') /\ (marker'.stream = 0 => currentId <= decCurrent'.stream)
  BY <1>f, <1>s DEF Starts
<1>1. CASE (UiStep \/ Arrive \/ Play \/ UNCHANGED vars) /\ ~ Step
  <2>1. UNCHANGED <<decGeneration, decCurrent, chainedFrom, marker, decEnded>>
    BY <1>1, UiFrame, ArriveFrame, PlayFrame DEF decVars, vars
  <2>2. LastMoves /\ Horizon' <= generation /\ Horizon' \in Nat
    BY <1>0, <1>1, LineMoves, LastMoving, HorizonMoves
  <2>3. Last.gen < generation
    <3>1. Last.gen \in Nat
      BY <1>0, LineTypes DEF LineTyped, Line, Last
    <3> QED BY <1>t, <2>2, <3>1 DEF LastMoves, LastSame
  <2>4. Position(decCurrent)' = Position(decCurrent)
    BY <2>1 DEF Position
  <2>5. Coming'.stream = Coming.stream /\ Coming'.from = Coming.from
    BY <1>0, <2>1, <2>4 DEF ComingReads
  <2> QED BY <1>s, <2>1, <2>3, <2>5 DEF Writes
<1>2. CASE ApplyCommand
  <2>1. Applies /\ 1 \in 1..Len(commands)
    BY <1>0, <1>2, ApplyEffect, CommandTaken, CommandTypes
  <2>2. Last' = Last
    BY <1>2, ApplyFrame, SameLine DEF queueVars, callbackVars
  <2>3. CASE UNCHANGED <<decGeneration, decCurrent, marker, decEnded>>
    <3>1. Position(decCurrent)' = Position(decCurrent)
      BY <2>3 DEF Position
    <3>2. Coming'.stream = Coming.stream /\ Coming'.from = Coming.from
      BY <1>0, <2>3, <3>1 DEF ComingReads
    <3> QED BY <1>s, <2>2, <2>3, <3>2 DEF Writes
  <2>4. CASE /\ IsRequest(commands[1]) /\ decGeneration' = commands[1].gen
             /\ decCurrent'.stream = commands[1].stream /\ marker'.stream = 0
             /\ Position(decCurrent)' = commands[1].frame
    <3>1. commands[1].stream = currentId /\ commands[1].frame = shownFrame
      BY <1>0, <2>1, <2>4 DEF RequestsNow
    <3>2. Coming'.stream = currentId /\ Coming'.from = shownFrame
      BY <1>0, <2>4, <3>1 DEF ComingReads
    <3> QED BY <1>t, <2>4, <3>1, <3>2 DEF Starts
  <2>5. CASE /\ commands[1].kind = "ClearQueued" /\ UNCHANGED <<decGeneration, decEnded>>
             /\ marker'.stream = commands[1].stream /\ marker'.frame = 0
    <3>1. commands[1].stream # 0 /\ commands[1].stream # currentId
      BY <1>0, <2>1, <2>5 DEF ClearedAreGone, Gone
    <3>2. Coming'.stream = commands[1].stream /\ Coming'.from = 0
      BY <1>0, <2>5, <3>1 DEF ComingReads
    <3> QED BY <2>5, <3>1, <3>2 DEF Starts
  <2> QED BY <2>1, <2>3, <2>4, <2>5 DEF Applies, Starts0, Seeks, IsRequest
<1>3. CASE Step /\ ~ UNCHANGED blocks
  <2>1. PICK b \in Block : (Writing(b) \/ Sounding(b)) /\ Last'.gen = b.gen
    BY <1>0, <1>3, PushedLine
  <2>2. b.gen = decGeneration /\ UNCHANGED decGeneration
    BY <1>3, <2>1, StepFrame DEF Writing, Sounding
  <2> QED BY <1>t, <2>1, <2>2
<1>4. CASE Step /\ UNCHANGED blocks
  <2>1. StepComes /\ Writes /\ UNCHANGED decGeneration /\ Last' = Last
    BY <1>0, <1>4, StepComing, StepFrame, SameLine DEF callbackVars
  <2>2. CASE UNCHANGED marker /\ decCurrent'.stream = decCurrent.stream
               /\ Position(decCurrent)' = Position(decCurrent)
    <3>1. Coming'.stream = Coming.stream /\ Coming'.from = Coming.from
      BY <1>0, <2>2 DEF ComingReads
    <3> QED BY <1>s, <2>1, <2>2, <3>1
  <2>3. CASE marker.stream = 0 /\ UNCHANGED marker /\ Chains /\ decQueued # 0
    <3>1. currentId < decQueued
      <4>1. currentId <= decCurrent.stream /\ decCurrent.stream < decQueued
        BY <1>0, <1>f, <2>1, <2>3 DEF IdsGrow
      <4> QED BY <1>t, <4>1
    <3>2. Coming'.stream = decQueued /\ Coming'.from = 0 /\ decCurrent'.stream = decQueued
      BY <1>0, <2>3 DEF ComingReads, Chains
    <3> QED BY <1>t, <3>1, <3>2 DEF Starts
  <2>4. CASE /\ marker.stream = 0 /\ UNCHANGED decCurrent
             /\ marker'.stream = decCurrent.stream /\ marker'.frame = Position(decCurrent)
    <3>1. Coming'.stream = Coming.stream /\ Coming'.from = Coming.from /\ marker'.stream # 0
      BY <1>0, <2>1, <2>4 DEF ComingReads, Writes
    <3> QED BY <1>s, <2>1, <3>1
  <2> QED BY <2>1, <2>2, <2>3, <2>4 DEF StepComes
<1> QED BY <1>1, <1>2, <1>3, <1>4, NextCases

LEMMA FirstKept == ASSUME LineInv, [Next]_vars PROVE First'
<1>0. /\ TypeOK /\ UiConsistent /\ UiKnows /\ GenerationsInOrder /\ Items /\ LineTyped
      /\ LineTyped' /\ LineGrown /\ LineGrown' /\ IdsTyped
      /\ snapshot.gen <= published.gen
  BY LineTypes, TypeKept, LineTypesNext, LineGrows, LineGrowsNext, OrderKept, IdsAreTyped
     DEF LineInv, Known, Wiring, Contiguous, UiKnows
<1>t. /\ generation \in Nat /\ Len(blocks') \in Nat
      /\ \A i \in 1..Len(blocks') : i \in Line' /\ i - 1 \in Line'
      /\ Len(blocks') \in Line' /\ 0 \in Line'
      /\ \A i \in Line' : Item(i)'.gen \in Nat
  BY <1>0 DEF LineTyped, Line, IdsTyped
<1>1. CASE generation' = generation /\ currentId' = currentId /\ shownFrame' = shownFrame
  <2>1. \A i \in 1..Len(blocks') :
          Item(i)'.gen = generation' /\ Item(i - 1)'.gen < generation' => StartsNext(Item(i)')
    BY <1>1, FirstItemKept DEF Starts, StartsNext
  <2>2. decGeneration' = generation' /\ Last'.gen < generation' /\ decCurrent'.stream # 0
            /\ ~ decEnded' =>
          StartsNext(Coming') /\ (marker'.stream = 0 => currentId' <= decCurrent'.stream)
    BY <1>1, FirstComingKept DEF Starts, StartsNext
  <2> QED BY <2>1, <2>2, FirstNext
<1>2. CASE UiStep /\ generation' = generation + 1
  <2>1. UNCHANGED decGeneration /\ decGeneration \in Nat /\ decGeneration <= generation
    BY <1>0, <1>2, UiFrame DEF LineGrown, IdsTyped
  <2>2. \A i \in Line' : Item(i)'.gen <= decGeneration
    BY <1>0, <2>1 DEF LineGrown
  <2>3. \A i \in 1..Len(blocks') : Item(i)'.gen # generation'
    BY <1>t, <1>2, <2>1, <2>2
  <2>4. decGeneration' # generation'
    BY <1>t, <1>2, <2>1
  <2> QED BY <2>3, <2>4, FirstNext
<1>3. CASE UiStep /\ generation' = generation /\ Played
  <2>1. playing.gen = generation
    <3>1. /\ published.gen <= Item(0).gen /\ Item(0).gen <= generation /\ Item(0).gen = playing.gen
          /\ published.gen \in Nat /\ playing.gen \in Nat /\ snapshot.gen \in Nat
      <4>1. LineReads /\ 0 \in Line
        BY <1>0, LineIsRead DEF Line, LineTyped
      <4> QED BY <1>0, <4>1 DEF LineReads, LineGrown, TypeOK, UiType, CallbackType, Playback
    <3> QED BY <1>0, <1>t, <1>3, <3>1 DEF Played
  <2>2. Item(0)'.gen = generation
    <3>1. UNCHANGED playing
      BY <1>3, UiFrame
    <3> QED BY <2>1, <3>1 DEF Item
  <2>3. \A i \in Line' : generation <= Item(i)'.gen
    <3> SUFFICES ASSUME NEW i \in Line' PROVE generation <= Item(i)'.gen
      OBVIOUS
    <3>1. 0 <= i
      BY <1>t DEF Line
    <3> QED BY <1>0, <1>t, <2>2, <3>1 DEF LineGrown
  <2>4. \A i \in 1..Len(blocks') : ~ (Item(i - 1)'.gen < generation')
    BY <1>t, <1>3, <2>3
  <2>5. ~ (Last'.gen < generation')
    <3>1. PICK k : k = Len(blocks')
      OBVIOUS
    <3>2. Last' = Item(k)' /\ k \in Line'
      BY <1>t, <3>1 DEF Last, Item
    <3> QED BY <1>t, <1>3, <2>3, <3>2
  <2> QED BY <2>4, <2>5, FirstNext
<1>4. CASE UiStep
  BY <1>0, <1>1, <1>2, <1>3, <1>4, UiMoving DEF UiMoves, Played
<1>5. CASE ~ UiStep
  BY <1>1, <1>5, NextCases, ArriveFrame, ApplyFrame, StepFrame, PlayFrame DEF uiVars, vars
<1> QED BY <1>4, <1>5

LEMMA HeardIsPlayingKept == ASSUME LineInv, [Next]_vars PROVE HeardIsPlaying'
<1>0. /\ TypeOK /\ Items /\ LineTyped /\ LineReads /\ LineReads' /\ LineGrown
      /\ HeardIsPlaying /\ TypeOK'
  BY LineTypes, LineIsRead, LineIsReadNext, LineGrows, TypeKept DEF LineInv, Known, Contiguous
<1>1. CASE PlayBlock
  <2>1. GoesOn /\ \E to \in Nat : Plays(to)
    BY <1>0, <1>1, PlayEffect
  <2>2. PICK to \in Nat : Plays(to)
    BY <2>1
  <2>3. 1 \in 1..Len(blocks) /\ 1 \in Line /\ 0 \in Line
    BY <1>0, <2>1 DEF GoesOn, Line, LineTyped
  <2>4. /\ playing'.gen = Item(1).gen /\ playing'.stream = Item(1).stream /\ playing'.frame = to
        /\ playing'.ended = (to = Item(1).to /\ Item(1).end)
    BY <1>0, <2>2 DEF Plays, LineReads
  <2>5. CASE to = Item(1).from
    <3>1. UNCHANGED heard /\ to = Item(1).to
      BY <2>2, <2>3, <2>5, <1>0 DEF Plays, LineTyped
    <3>2. Item(1).end
      BY <1>0, <2>3, <2>5, <3>1 DEF Items, LineTyped
    <3>3. heard.gen <= playing.gen /\ playing.gen <= Item(1).gen
      BY <1>0, <2>3 DEF HeardIsPlaying, LineGrown, LineReads
    <3>4. heard.gen \in Nat /\ playing.gen \in Nat /\ Item(1).gen \in Nat
      BY <1>0, <2>3 DEF TypeOK, CallbackType, Sound, Playback, LineTyped
    <3>5. heard'.gen <= playing'.gen
      BY <2>4, <3>1, <3>3, <3>4
    <3>6. playing'.ended
      BY <2>4, <3>1, <3>2
    <3> QED BY <3>5, <3>6 DEF HeardIsPlaying
  <2>6. CASE to # Item(1).from
    <3>1. heard' = [gen |-> Item(1).gen, stream |-> Item(1).stream, from |-> Item(1).from, to |-> to]
      BY <2>2, <2>6 DEF Plays
    <3>2. Item(1).gen \in Nat
      BY <1>0, <2>3 DEF LineTyped
    <3> QED BY <2>4, <3>1, <3>2 DEF HeardIsPlaying
  <2> QED BY <2>5, <2>6
<1>2. CASE Refuse
  <2>1. UNCHANGED heard /\ playing'.gen = playing.gen /\ playing'.ended
    BY <1>0, <1>2 DEF Refuse, TypeOK, CallbackType, Playback
  <2> QED BY <1>0, <2>1 DEF HeardIsPlaying
<1>3. CASE ~ PlayBlock /\ ~ Refuse
  <2>1. UNCHANGED <<playing, heard>>
    BY <1>3, NextCases, UiFrame, ArriveFrame, ApplyFrame, StepFrame
       DEF Play, CallbackStart, DropOlder, CallbackEnd, callbackVars, vars
  <2> QED BY <1>0, <2>1 DEF HeardIsPlaying
<1> QED BY <1>1, <1>2, <1>3

LEMMA LineInit == Init => LineInv
<1> SUFFICES ASSUME Init PROVE LineInv
  OBVIOUS
<1>2. commands = <<>> /\ blocks = <<>> /\ Len(commands) = 0 /\ Len(blocks) = 0
  BY DEF Init
<1>1. TypeOK /\ UiConsistent /\ GenerationsInOrder
  <2>1. GenerationsInOrder
    BY <1>2 DEF Init, GenerationsInOrder, Silence
  <2> QED BY <2>1, InitType DEF Init, UiConsistent
<1>3. Line = {0}
  BY <1>2 DEF Line
<1>4. UiKnows /\ IdsGrow /\ ClearedAreGone /\ RequestsNow /\ NothingYet
  BY <1>2 DEF Init, UiKnows, IdsGrow, ClearedAreGone, RequestsNow, NothingYet, NoSource, Silence
<1>5. IdsGiven
  BY <1>2, <1>3 DEF Init, IdsGiven, NoSource, NoMarker, Silence, Item
<1>6. Sources /\ InGeneration
  BY DEF Init, Sources, InGeneration, NoSource, NoMarker
<1>7. Items
  BY <1>2, <1>3 DEF Init, Items, Item, Silence, Offset
<1>8. Follows /\ WillFollow
  BY <1>2 DEF Init, Follows, WillFollow, Writes, NoSource
<1>9. First /\ HeardIsPlaying
  BY <1>2 DEF Init, First, HeardIsPlaying, Silence, Writes, NoSource
<1> QED BY <1>1, <1>4, <1>5, <1>6, <1>7, <1>8, <1>9
        DEF LineInv, Known, Wiring, Streams, Contiguous

LEMMA LineKept == LineInv /\ [Next]_vars => LineInv'
<1> SUFFICES ASSUME LineInv, [Next]_vars PROVE LineInv'
  OBVIOUS
<1>0. /\ TypeOK /\ UiConsistent /\ GenerationsInOrder /\ UiKnows /\ IdsGiven /\ IdsGrow
      /\ ClearedAreGone /\ RequestsNow /\ NothingYet /\ Sources
  BY DEF LineInv, Known, Wiring, Streams
<1>1. Known'
  BY <1>0, TypeKept, UiConsistentStep, OrderKept DEF Known
<1>2. Wiring'
  BY <1>0, UiKnowsKept, IdsGivenKept, IdsGrowKept, ClearedAreGoneKept, RequestsNowKept,
     NothingYetKept DEF Wiring
<1>3. Streams'
  BY <1>0, SourcesKept, InGenerationKept DEF Streams
<1>4. Contiguous'
  BY ItemsKept, FollowsKept, WillFollowKept, FirstKept, HeardIsPlayingKept DEF Contiguous
<1> QED BY <1>1, <1>2, <1>3, <1>4 DEF LineInv

\* What the device is given continues what it was given.
LEMMA LineContinues == LineInv /\ [Next]_vars /\ heard' # heard => Continues
<1> SUFFICES ASSUME LineInv, [Next]_vars, heard' # heard PROVE Continues
  OBVIOUS
<1>0. /\ TypeOK /\ UiConsistent /\ Items /\ LineTyped /\ LineReads /\ LineGrown
      /\ First /\ Follows /\ HeardIsPlaying /\ IdsTyped
  BY LineTypes, LineIsRead, LineGrows, IdsAreTyped DEF LineInv, Known, Contiguous
<1>1. PlayBlock
  BY NextCases, UiFrame, ArriveFrame, ApplyFrame, StepFrame
     DEF Play, CallbackStart, DropOlder, Refuse, CallbackEnd, callbackVars, vars
<1>2. GoesOn /\ \E to \in Nat : Plays(to)
  BY <1>0, <1>1, PlayEffect
<1>3. PICK to \in Nat : Plays(to)
  BY <1>2
<1>4. /\ heard'.gen = Item(1).gen /\ heard'.stream = Item(1).stream
      /\ heard'.from = Item(1).from /\ heard'.to = to /\ to # Item(1).from
  BY <1>3 DEF Plays
<1>5. UNCHANGED <<generation, currentId, queuedId, allowedNext, shownFrame, available, complete>>
  BY <1>1, PlayFrame DEF Play, uiVars, byteVars
<1>6. 1 \in 1..Len(blocks) /\ 1 \in Line /\ 0 \in Line /\ 1 - 1 = 0
  BY <1>0, <1>2 DEF GoesOn, Line, LineTyped
<1>7. /\ Item(0).gen = playing.gen /\ Item(0).stream = playing.stream
      /\ Item(0).to = playing.frame /\ Item(0).end = playing.ended
      /\ heard.gen <= playing.gen /\ Item(0).gen <= Item(1).gen
      /\ Item(0).gen \in Nat /\ Item(1).gen \in Nat /\ heard.gen \in Nat
      /\ Item(1).gen <= generation /\ generation \in Nat /\ Item(1).gen > 0
  BY <1>0, <1>6 DEF LineReads, HeardIsPlaying, LineGrown, LineTyped, Items, TypeOK, UiType,
     CallbackType, Sound
<1>8. CASE Item(1).gen # Item(0).gen
  <2>1. heard.gen < heard'.gen
    BY <1>4, <1>7, <1>8
  <2>2. heard'.gen = generation => Starts(Item(1))
    BY <1>0, <1>4, <1>6, <1>7, <1>8 DEF First
  <2>3. heard'.gen # heard.gen
    BY <1>7, <2>1, <1>4
  <2> QED BY <1>4, <1>5, <2>1, <2>2, <2>3 DEF Continues, Starts
<1>9. CASE Item(1).gen = Item(0).gen
  <2>1. /\ ~ Item(0).end /\ Item(1).stream \in {Item(0).stream, queuedId}
        /\ Live(Item(1).gen)
    BY <1>0, <1>2, <1>9 DEF GoesOn, Live, UiConsistent
  <2>2. heard.gen = Item(0).gen /\ heard.stream = Item(0).stream /\ heard.to = Item(0).to
    BY <1>0, <1>7, <2>1 DEF HeardIsPlaying
  <2>3. Continued(Item(0), Item(1))
    BY <1>0, <1>6, <1>9, <2>1 DEF Follows
  <2>4. ~ Item(1).end
    BY <1>0, <1>3, <1>4, <1>6 DEF Items, Plays, LineTyped
  <2>5. CASE Item(1).stream = Item(0).stream
    <3>1. Item(1).from = Item(0).to
      <4>1. Item(0).stream \in Nat
        BY <1>0, <1>6, EngineAssumption DEF LineTyped, StreamId
      <4> QED BY <2>3, <2>4, <2>5, <4>1 DEF Continued
    <3> QED BY <1>4, <1>9, <2>2, <2>5, <3>1 DEF Continues
  <2>6. CASE Item(1).stream # Item(0).stream
    <3>1. Item(1).stream = queuedId /\ Item(1).from = 0 /\ SoundOver(Item(0).stream, Item(0).to)
      BY <2>1, <2>3, <2>6 DEF Continued
    <3> QED BY <1>4, <1>9, <2>2, <2>6, <3>1 DEF Continues
  <2> QED BY <2>5, <2>6
<1> QED BY <1>8, <1>9

\* The invariant of the line holds of every engine.
THEOREM LineCorrect == Spec => []LineInv
BY LineInit, LineKept, PTL DEF Spec

\* Playback is gapless: in a start or seek each frame the device is given
\* follows the last one, a track is left only where its sound is over, for the
\* first frame of the queued one, and a start or seek begins at its target
\* (AudioEngine::Implementation::play with the decoder's chaining).
THEOREM PlaysGapless == Spec => Gapless
<1>1. LineInv /\ [Next]_vars => [heard' # heard => Continues]_vars
  BY LineContinues
<1> QED BY <1>1, LineCorrect, PTL DEF Spec, Gapless

-----------------------------------------------------------------------------
(* What the UI thread sees.                                                *)
(*                                                                         *)
(* The UI learns of the sound from what the callback published: snapshot,  *)
(* published and playing are one position at three moments.  The invariant *)
(* says how they follow each other, that an end is one of the stream's     *)
(* sound, and what the decoder's events tell.                              *)

\* An end that is played: where the sound of a stream is over, or given up.
PlayedOut(s, frame) == s # 0 /\ MayBeOver(s) /\ (SoundOver(s, frame) \/ Gone(s))

EndsAreEnds ==
  /\ marker.stream # 0 => PlayedOut(marker.stream, marker.frame)
  /\ \A i \in Line : Item(i).end => PlayedOut(Item(i).stream, Item(i).to)
  /\ published.ended => PlayedOut(published.stream, published.frame)
  /\ snapshot.ended => PlayedOut(snapshot.stream, snapshot.frame)

\* Of two positions in a generation b is the later one.
Along(a, b) ==
  a.gen = b.gen =>
    /\ a.stream <= b.stream
    /\ a.stream = b.stream /\ a.stream # 0 /\ ~ Gone(a.stream) => a.frame <= b.frame
    /\ a.ended => b.ended /\ b.stream = a.stream
PositionsGrow == Along(snapshot, published) /\ Along(published, playing)

StreamsGrow ==
  \A i, j \in Line : i <= j /\ Item(i).gen = generation => Item(i).stream <= Item(j).stream

\* Nothing comes after an end.
EndIsLast == Last.gen = generation /\ Last.end => ~ Writes

\* In this generation nothing before the current stream is played.
Ahead(a) == a.gen = generation => currentId <= a.stream
AllAhead ==
  /\ \A i \in Line : Ahead(Item(i))
  /\ Ahead(published) /\ Ahead(snapshot)
  /\ decGeneration = generation /\ Writes /\ marker.stream # 0 => currentId <= marker.stream

Shown(a) == a.gen = generation /\ a.stream = currentId => shownFrame <= a.frame
ShownIsPlayed == Shown(snapshot) /\ Shown(published) /\ Shown(playing)

\* Once the end of the current stream was reported nothing else is played.
Settled(a) == a.gen = generation => a.ended /\ a.stream = currentId
NothingMore ==
  /\ decGeneration < generation
  /\ \A i \in 1..Len(commands) : IsRequest(commands[i]) => commands[i].gen < generation
FinishedStays ==
  finishReported =>
    /\ CurrentOver
    /\ Settled(snapshot) /\ Settled(published) /\ Settled(playing)
    /\ playing.gen = generation \/ NothingMore

\* What the decoder told, and what the UI made of it.
Knows(s) ==
  \/ decCurrent.stream = s /\ decCurrent.opened
  \/ chainedFrom.stream = s \/ marker.stream = s
  \/ \E i \in Line : Item(i).stream = s
  \/ published.stream = s \/ snapshot.stream = s
Failures ==
  \A i \in 1..Len(events) : events[i].kind = "OpenFailed" =>
    OpenFails(events[i].stream)
\* The decoder tries a queued stream only once it is complete.
QueuedIsWhole ==
  queuedId # 0 =>
    /\ queuedId \in {decCurrent.stream, chainedFrom.stream} => complete[queuedId]
    /\ \A i \in 1..Len(commands) : IsRequest(commands[i]) => commands[i].stream # queuedId
    /\ Reported("OpenFailed", queuedId) => complete[queuedId]
QueuedIsKnown == queuedId # 0 /\ Knows(queuedId) => queuedFormat \/ Reported("Opened", queuedId)
UiRuns ==
  /\ state = "Playing" => Openable(currentId)
  /\ polling => state # "Stopped"
  /\ ~ polling => snapshot = Silence
  /\ \A s \in Stream : complete[s] \/ available[s] > 0 => s <= lastId

Heeded == EndsAreEnds /\ EndIsLast /\ FinishedStays
Ordered == PositionsGrow /\ StreamsGrow /\ AllAhead /\ ShownIsPlayed
Told == Failures /\ QueuedIsWhole /\ QueuedIsKnown /\ UiRuns
SeenInv == LineInv /\ Heeded /\ Ordered /\ Told
-----------------------------------------------------------------------------
(* Positions and ends, before and after a step *)

SpotTyped(a) ==
  /\ a.gen \in Nat /\ a.stream \in Nat /\ a.stream \in StreamId /\ a.frame \in Nat
  /\ a.ended \in BOOLEAN

LEMMA SpotTypes ==
  ASSUME TypeOK
  PROVE  SpotTyped(snapshot) /\ SpotTyped(published) /\ SpotTyped(playing) /\ SpotTyped(Silence)
BY EngineAssumption
   DEF TypeOK, UiType, CallbackType, Playback, SpotTyped, StreamId, Frame, Silence

LEMMA SpotTypesNext ==
  ASSUME TypeOK'
  PROVE  SpotTyped(snapshot') /\ SpotTyped(published') /\ SpotTyped(playing')
BY EngineAssumption DEF TypeOK, UiType, CallbackType, Playback, SpotTyped, StreamId, Frame

LEMMA SpotsInOrder ==
  ASSUME LineInv
  PROVE  /\ snapshot.gen <= published.gen /\ published.gen <= playing.gen
         /\ playing.gen <= decGeneration /\ decGeneration <= generation
         /\ playing.gen <= generation /\ published.gen <= generation /\ snapshot.gen <= generation
<1>1. /\ snapshot.gen <= published.gen /\ published.gen <= playing.gen
      /\ playing.gen <= decGeneration /\ decGeneration <= generation
  BY DEF LineInv, Known, Wiring, UiKnows, GenerationsInOrder
<1>2. /\ snapshot.gen \in Nat /\ published.gen \in Nat /\ playing.gen \in Nat
      /\ decGeneration \in Nat /\ generation \in Nat
  BY SpotTypes, IdsAreTyped DEF LineInv, Known, SpotTyped, IdsTyped
<1> QED BY <1>1, <1>2

GoneNext(s) == s <= lastId' /\ s # currentId' /\ s # queuedId'
PlayedOutNext(s, frame) ==
  /\ s # 0 /\ (complete'[s] \/ s \in Faulty)
  /\ (complete'[s] /\ available'[s] <= frame) \/ <<s, frame>> \in Faults \/ GoneNext(s)
AlongNext(a, b) ==
  a.gen = b.gen =>
    /\ a.stream <= b.stream
    /\ a.stream = b.stream /\ a.stream # 0 /\ ~ GoneNext(a.stream) => a.frame <= b.frame
    /\ a.ended => b.ended /\ b.stream = a.stream

LEMMA PlayedOutStays ==
  ASSUME TypeOK, UiConsistent, UiKnows, [Next]_vars, NEW s \in StreamId, NEW frame,
         PlayedOut(s, frame)
  PROVE  PlayedOutNext(s, frame)
<1>1. s # 0 /\ MayBeOver(s) /\ s \in Nat
  BY EngineAssumption DEF PlayedOut, StreamId
<1>2. /\ complete'[s] \/ s \in Faulty
      /\ SoundOver(s, frame)
           => (complete'[s] /\ available'[s] <= frame) \/ <<s, frame>> \in Faults
  BY <1>1, BytesStaying DEF BytesStay
<1>3. Gone(s) => GoneNext(s)
  BY <1>1, GoneStays DEF GoneNext
<1> QED BY <1>1, <1>2, <1>3 DEF PlayedOut, PlayedOutNext

LEMMA AlongStays ==
  ASSUME TypeOK, UiConsistent, UiKnows, [Next]_vars, NEW a, NEW b, SpotTyped(a), Along(a, b)
  PROVE  AlongNext(a, b)
<1>1. a.stream # 0 /\ Gone(a.stream) => GoneNext(a.stream)
  <2>1. a.stream \in Nat
    BY DEF SpotTyped
  <2> QED BY <2>1, GoneStays DEF GoneNext
<1> QED BY <1>1 DEF Along, AlongNext

LEMMA AlongTrans ==
  ASSUME NEW a, NEW b, NEW c, SpotTyped(a), SpotTyped(b), SpotTyped(c),
         a.gen <= b.gen, b.gen <= c.gen, AlongNext(a, b), AlongNext(b, c)
  PROVE  AlongNext(a, c)
BY DEF AlongNext, SpotTyped

LEMMA AlongSame == ASSUME NEW a, SpotTyped(a) PROVE AlongNext(a, a)
BY DEF AlongNext, SpotTyped

LEMMA AlongSilence == ASSUME NEW a, SpotTyped(a) PROVE AlongNext(Silence, a)
BY DEF AlongNext, SpotTyped, Silence

LEMMA EndIsRead == (Item(0).end <=> playing.ended) /\ (Item(0)'.end <=> playing'.ended)
BY DEF Item

\* What plays moves on in the line, or ends where it is.
PlayingMoves ==
  \/ playing' = playing
  \/ /\ Refuse /\ playing'.gen = playing.gen /\ playing'.stream = playing.stream
     /\ playing'.frame = playing.frame /\ playing'.ended
     /\ PlayedOut(playing.stream, playing.frame)
  \/ /\ PlayBlock /\ 1 \in 1..Len(blocks) /\ Live(Item(1).gen)
     /\ playing'.gen = Item(1).gen /\ playing'.stream = Item(1).stream
     /\ Item(1).from <= playing'.frame /\ (playing'.ended => Item(1).end)
     /\ playing.gen <= Item(1).gen
     /\ Item(1).gen = playing.gen => ~ playing.ended /\ Continued(Item(0), Item(1))

LEMMA PlayingMoving ==
  ASSUME LineInv, EndsAreEnds, [Next]_vars
  PROVE  PlayingMoves
<1>0. /\ TypeOK /\ UiConsistent /\ UiKnows /\ GenerationsInOrder /\ Items /\ Follows
      /\ LineTyped /\ LineReads /\ LineReads' /\ LineGrown
  BY TypeKept, LineTypes, LineIsRead, LineIsReadNext, LineGrows
     DEF LineInv, Known, Wiring, Contiguous
<1>1. CASE Shrinks
  BY <1>1 DEF Shrinks, PlayingMoves
<1>2. CASE Step
  BY <1>2, StepFrame DEF callbackVars, PlayingMoves
<1>3. CASE Refuse
  <2>1. Refuses
    BY <1>0, <1>3, RefuseEffect
  <2>2. /\ playing'.gen = playing.gen /\ playing'.stream = playing.stream
        /\ playing'.frame = playing.frame /\ playing'.ended
    <3>1. playing' = [playing EXCEPT !.ended = TRUE] /\ playing \in Playback
      BY <1>0, <1>3 DEF Refuse, TypeOK, CallbackType
    <3> QED BY <3>1 DEF Playback
  <2>3. PlayedOut(playing.stream, playing.frame)
    <3>1. CASE playing.ended
      <4>1. 0 \in Line /\ Item(0).end
        BY <1>0, <3>1, EndIsRead DEF Line, LineTyped
      <4> QED BY <1>0, <4>1 DEF EndsAreEnds, LineReads
    <3>2. CASE ~ playing.ended
      <4>1. /\ 1 \in 1..Len(blocks) /\ Item(1).gen = playing.gen
            /\ Item(1).stream # playing.stream /\ Horizon <= Item(1).gen
        <5>1. /\ blocks # <<>> /\ blocks[1].gen = playing.gen /\ callback = "running"
              /\ blocks[1].stream # playing.stream /\ ~ (blocks[1].gen < callbackGen)
          BY <1>3, <3>2 DEF Refuse, Refused, Older
        <5>2. 1 \in 1..Len(blocks)
          BY <1>0, <5>1 DEF LineReads, LineTyped
        <5>3. Item(1).gen = blocks[1].gen /\ Item(1).stream = blocks[1].stream
          BY DEF Item
        <5>4. callbackGen \in Nat /\ blocks[1].gen \in Nat
          BY <1>0, <5>2, OrderTypes DEF TypeOK, CallbackType
        <5> QED BY <5>1, <5>2, <5>3, <5>4 DEF Horizon
      <4>2. Continued(Item(0), Item(1))
        BY <1>0, <3>2, <4>1 DEF Follows, Live, LineReads
      <4>3. SoundOver(Item(0).stream, Item(0).to)
        BY <1>0, <4>1, <4>2 DEF Continued, LineReads
      <4>4. playing.stream # 0 /\ playing.stream \in StreamId
        BY <1>0, <4>1, SpotTypes DEF Items, SpotTyped
      <4>5. MayBeOver(Item(0).stream)
        BY <4>3, OverMayBe
      <4> QED BY <1>0, <4>3, <4>4, <4>5 DEF PlayedOut, LineReads
    <3> QED BY <3>1, <3>2
  <2> QED BY <1>3, <2>2, <2>3 DEF PlayingMoves
<1>4. CASE PlayBlock
  <2>1. GoesOn /\ \E to \in Nat : Plays(to)
    BY <1>0, <1>4, PlayEffect
  <2>2. PICK to \in Nat : Plays(to)
    BY <2>1
  <2>3. 1 \in 1..Len(blocks) /\ 1 \in Line /\ 0 \in Line /\ Live(Item(1).gen)
    BY <1>0, <2>1 DEF GoesOn, Line, LineTyped, Live
  <2>4. /\ Item(0)'.gen = Item(1).gen /\ Item(0)'.stream = Item(1).stream
        /\ Item(0)'.to = to /\ Item(1).from <= to
    BY <2>2 DEF Plays
  <2>a. Item(0)'.end => Item(1).end
    BY <1>0, <1>4, PlayedLine DEF PlayedOn, PlayedWhole, PlayedPart
  <2>5. /\ playing'.gen = Item(1).gen /\ playing'.stream = Item(1).stream
        /\ Item(1).from <= playing'.frame /\ (playing'.ended => Item(1).end)
    BY <1>0, <2>4, <2>a, EndIsRead DEF LineReads
  <2>6. playing.gen <= Item(1).gen
    BY <1>0, <2>3 DEF LineGrown, LineReads
  <2>7. Item(1).gen = playing.gen => ~ playing.ended /\ Continued(Item(0), Item(1))
    BY <1>0, <2>1, <2>3 DEF GoesOn, Follows, LineReads
  <2> QED BY <1>4, <2>3, <2>5, <2>6, <2>7 DEF PlayingMoves
<1> QED BY <1>0, <1>1, <1>2, <1>3, <1>4, LineMoves

LEMMA PlayingAlong ==
  ASSUME LineInv, EndsAreEnds, [Next]_vars
  PROVE  AlongNext(playing, playing') /\ playing.gen <= playing'.gen
<1>0. /\ TypeOK /\ UiConsistent /\ UiKnows /\ LineReads /\ LineTyped
      /\ SpotTyped(playing) /\ SpotTyped(playing')
  BY TypeKept, LineIsRead, LineTypes, SpotTypes, SpotTypesNext DEF LineInv, Known, Wiring
<1>1. CASE playing' = playing
  BY <1>0, <1>1, AlongSame DEF SpotTyped
<1>2. CASE /\ playing'.gen = playing.gen /\ playing'.stream = playing.stream
           /\ playing'.frame = playing.frame /\ playing'.ended
  BY <1>0, <1>2 DEF AlongNext, SpotTyped
<1>3. CASE /\ 1 \in 1..Len(blocks)
           /\ playing'.gen = Item(1).gen /\ playing'.stream = Item(1).stream
           /\ Item(1).from <= playing'.frame /\ (playing'.ended => Item(1).end)
           /\ playing.gen <= Item(1).gen
           /\ Item(1).gen = playing.gen => ~ playing.ended /\ Continued(Item(0), Item(1))
  <2>1. /\ Item(1).from \in Nat /\ Item(1).stream \in Nat /\ Item(1).stream # 0
    BY <1>0, <1>3 DEF LineTyped, Line, SpotTyped
  <2> SUFFICES ASSUME Item(1).gen = playing.gen PROVE AlongNext(playing, playing')
    BY <1>3 DEF AlongNext
  <2>2. Gone(Item(1).stream) => GoneNext(Item(1).stream)
    BY <1>0, <2>1, GoneStays DEF GoneNext
  <2>3. ~ playing.ended /\ Continued(Item(0), Item(1))
    BY <1>3
  <2>4. /\ playing.stream <= Item(1).stream
        /\ playing.stream = Item(1).stream =>
             Item(1).from = playing.frame \/ GoneNext(Item(1).stream)
    BY <1>0, <2>1, <2>2, <2>3 DEF Continued, LineReads, SpotTyped
  <2> QED BY <1>0, <1>3, <2>1, <2>3, <2>4 DEF AlongNext, SpotTyped
<1> QED BY <1>1, <1>2, <1>3, PlayingMoving DEF PlayingMoves

-----------------------------------------------------------------------------
(* Ends *)

\* A step that writes nothing maps each item to what it was, in order.
Mapped(f) ==
  /\ f \in [Line' -> Line] /\ \A i, j \in Line' : i <= j => f[i] <= f[j]
  /\ \A i \in Line' : Item(i)'.gen = Item(f[i]).gen /\ Item(i)'.stream = Item(f[i]).stream
  /\ \A i \in Line' : Item(i)'.end =>
       \/ Item(f[i]).end /\ Item(i)'.to = Item(f[i]).to
       \/ Refuse /\ i = 0

LEMMA LineMaps ==
  ASSUME TypeOK, Items, [Next]_vars, Shrinks \/ Refuse \/ PlayBlock
  PROVE  \E f : Mapped(f)
<1>0. LineTyped /\ LineTyped' /\ LineReads' /\ Len(blocks) \in Nat /\ Len(blocks') \in Nat
  BY TypeKept, LineTypes, LineTypesNext, LineIsReadNext DEF LineTyped
<1>1. CASE Shrinks
  <2>1. PICK n \in 0..Len(blocks) : Shifted(n)
    BY <1>1 DEF Shrinks
  <2>2. /\ Item(0)' = Item(0) /\ Len(blocks') = Len(blocks) - n
        /\ \A i \in 1..Len(blocks') : i + n \in 1..Len(blocks) /\ Item(i)' = Item(i + n)
    BY <2>1 DEF Shifted
  <2> DEFINE f == [i \in Line' |-> IF i = 0 THEN 0 ELSE i + n]
  <2>3. \A i \in Line' : f[i] \in Line /\ Item(i)' = Item(f[i])
    <3> SUFFICES ASSUME NEW i \in Line' PROVE f[i] \in Line /\ Item(i)' = Item(f[i])
      OBVIOUS
    <3>1. CASE i = 0
      <4>1. f[i] = 0 /\ 0 \in Line
        BY <1>0, <3>1 DEF Line
      <4> QED BY <2>2, <3>1, <4>1
    <3>2. CASE i # 0
      <4>1. i \in 1..Len(blocks')
        BY <1>0, <3>2 DEF Line
      <4>2. f[i] = i + n
        BY <3>2
      <4> QED BY <2>2, <4>1, <4>2 DEF Line
    <3> QED BY <3>1, <3>2
  <2>4. \A i, j \in Line' : i <= j => f[i] <= f[j]
    BY <1>0, <2>1 DEF Line
  <2>5. f \in [Line' -> Line]
    BY <2>3
  <2> HIDE DEF f
  <2>6. Mapped(f)
    BY <2>3, <2>4, <2>5 DEF Mapped
  <2> QED BY <2>6
<1>2. CASE Refuse
  <2>1. /\ UNCHANGED blocks /\ Item(0)' = [Item(0) EXCEPT !.end = TRUE]
        /\ \A i \in 1..Len(blocks) : Item(i)' = Item(i)
    BY <1>2, RefuseEffect DEF Refuses
  <2> DEFINE f == [i \in Line' |-> i]
  <2>2. Line' = Line
    BY <2>1 DEF Line
  <2>3. \A i \in Line' : f[i] = i
    OBVIOUS
  <2>4. f \in [Line' -> Line] /\ \A i, j \in Line' : i <= j => f[i] <= f[j]
    BY <2>2
  <2> HIDE DEF f
  <2>5. ASSUME NEW i \in Line', i # 0 PROVE Item(i)' = Item(f[i])
    BY <1>0, <2>1, <2>2, <2>3, <2>5 DEF Line
  <2>6. Item(0)'.gen = Item(0).gen /\ Item(0)'.stream = Item(0).stream
    BY <2>1 DEF Item
  <2>7. Mapped(f)
    BY <1>2, <2>3, <2>4, <2>5, <2>6 DEF Mapped
  <2> QED BY <2>7
<1>3. CASE PlayBlock
  <2>1. PlayedOn
    BY <1>3, PlayedLine
  <2>2. CASE PlayedWhole
    <3> DEFINE f == [i \in Line' |-> i + 1]
    <3>1. /\ Len(blocks') = Len(blocks) - 1 /\ 1 \in 1..Len(blocks)
          /\ Item(0)'.gen = Item(1).gen /\ Item(0)'.stream = Item(1).stream
          /\ Item(0)'.to = Item(1).to /\ (Item(0)'.end <=> Item(1).end)
          /\ \A i \in 1..Len(blocks') : Item(i)' = Item(i + 1)
      BY <2>1, <2>2 DEF PlayedOn, PlayedWhole
    <3>2. \A i \in Line' : f[i] = i + 1 /\ f[i] \in Line
      BY <1>0, <3>1 DEF Line
    <3>3. f \in [Line' -> Line] /\ \A i, j \in Line' : i <= j => f[i] <= f[j]
      BY <1>0, <3>2 DEF Line
    <3> HIDE DEF f
    <3>4. ASSUME NEW i \in Line', i # 0 PROVE Item(i)' = Item(f[i])
      BY <1>0, <3>1, <3>2, <3>4 DEF Line
    <3>5. 0 \in Line' /\ f[0] = 1
      BY <1>0, <3>2 DEF Line
    <3>6. Mapped(f)
      BY <3>1, <3>3, <3>4, <3>5 DEF Mapped
    <3> QED BY <3>6
  <2>3. CASE PlayedPart
    <3> DEFINE f == [i \in Line' |-> IF i = 0 THEN 1 ELSE i]
    <3>1. /\ Len(blocks') = Len(blocks) /\ 1 \in 1..Len(blocks)
          /\ Item(0)'.gen = Item(1).gen /\ Item(0)'.stream = Item(1).stream /\ ~ Item(0)'.end
          /\ Item(1)'.gen = Item(1).gen /\ Item(1)'.stream = Item(1).stream /\ ~ Item(1)'.end
          /\ \A i \in 2..Len(blocks) : Item(i)' = Item(i)
      BY <2>1, <2>3 DEF PlayedOn, PlayedPart
    <3>2. \A i \in Line' : f[i] = (IF i = 0 THEN 1 ELSE i) /\ f[i] \in Line
      BY <1>0, <3>1 DEF Line
    <3>3. f \in [Line' -> Line] /\ \A i, j \in Line' : i <= j => f[i] <= f[j]
      BY <1>0, <3>2 DEF Line
    <3> HIDE DEF f
    <3>4. ASSUME NEW i \in Line' PROVE (i = 0 /\ f[i] = 1) \/ (i = 1 /\ f[i] = 1)
                                         \/ (i \in 2..Len(blocks) /\ f[i] = i)
      BY <1>0, <3>1, <3>2 DEF Line
    <3>5. Mapped(f)
      BY <3>1, <3>3, <3>4 DEF Mapped
    <3> QED BY <3>5
  <2> QED BY <2>1, <2>2, <2>3 DEF PlayedOn
<1> QED BY <1>1, <1>2, <1>3

\* Nothing in the line is newer than the generation before the step.
LEMMA LineIsOld ==
  ASSUME LineInv, [Next]_vars
  PROVE  \A i \in Line' : Item(i)'.gen <= generation
<1>1. /\ TypeOK /\ UiConsistent /\ UiKnows /\ Items /\ LineGrown
  BY LineGrows DEF LineInv, Known, Wiring, Contiguous
<1>2. \A i \in Line' :
        \/ \E k \in Line : Item(i)'.gen = Item(k).gen
        \/ Item(i)'.gen = decGeneration
  BY <1>1, LineComes DEF Written
<1> QED BY <1>1, <1>2 DEF LineGrown

\* Where the marker comes from.
MarkerMoves ==
  \/ marker'.stream = 0
  \/ marker' = marker
  \/ /\ Step /\ marker.stream = 0 /\ decCurrent.atEnd /\ decCurrent.opened
     /\ marker'.stream = decCurrent.stream /\ marker'.frame = decCurrent.nextFrame
  \/ /\ ApplyCommand /\ 1 \in 1..Len(commands) /\ commands[1].kind = "ClearQueued"
     /\ chainedFrom.stream # 0 /\ UNCHANGED <<decGeneration, decEnded>>
     /\ decCurrent.stream = commands[1].stream /\ marker'.stream = commands[1].stream

LEMMA MarkerMoving == ASSUME TypeOK, [Next]_vars PROVE MarkerMoves
<1>1. CASE ApplyCommand
  <2>1. Applies /\ 1 \in 1..Len(commands)
    BY <1>1, ApplyEffect, CommandTaken, CommandTypes
  <2>2. \/ marker'.stream = 0 \/ marker' = marker
        \/ /\ commands[1].kind = "ClearQueued"
           /\ chainedFrom.stream # 0 /\ UNCHANGED <<decGeneration, decEnded>>
           /\ decCurrent.stream = commands[1].stream /\ marker'.stream = commands[1].stream
    BY <2>1 DEF Applies, Starts0, Seeks
  <2> QED BY <1>1, <2>1, <2>2 DEF MarkerMoves
<1>2. CASE Step
  <2>1. CASE EndStream
    BY <1>2, <2>1 DEF EndStream, AtEnd, Ready, Working, MarkerMoves
  <2>2. CASE WriteMarker
    BY <2>2 DEF WriteMarker, NoMarker, MarkerMoves
  <2>3. CASE Open \/ Recover \/ SeekSource \/ DecodeBlock \/ Chain
    BY <2>3 DEF Open, Recover, SeekSource, DecodeBlock, Chain, MarkerMoves
  <2> QED BY <1>2, <2>1, <2>2, <2>3 DEF Step
<1>3. CASE UiStep \/ Arrive \/ Play \/ UNCHANGED vars
  BY <1>3, UiFrame, ArriveFrame, PlayFrame DEF decVars, vars, MarkerMoves
<1> QED BY <1>1, <1>2, <1>3, NextCases

LEMMA MarkerEnds ==
  ASSUME LineInv, EndsAreEnds, [Next]_vars, marker'.stream # 0
  PROVE  PlayedOutNext(marker'.stream, marker'.frame)
<1>0. TypeOK /\ UiConsistent /\ UiKnows /\ Sources /\ ClearedAreGone /\ IdsTyped
  BY IdsAreTyped DEF LineInv, Known, Wiring, Streams
<1>1. CASE marker' = marker
  BY <1>0, <1>1, PlayedOutStays DEF EndsAreEnds, IdsTyped
<1>2. CASE /\ Step /\ decCurrent.atEnd
           /\ marker'.stream = decCurrent.stream /\ marker'.frame = decCurrent.nextFrame
  <2>1. PlayedOut(decCurrent.stream, decCurrent.nextFrame)
    BY <1>0, <1>2, OverMayBe DEF Sources, AtItsEnd, PlayedOut
  <2>2. PlayedOutNext(decCurrent.stream, decCurrent.nextFrame)
    BY <1>0, <2>1, PlayedOutStays DEF IdsTyped
  <2> QED BY <1>2, <2>2
<1>3. CASE /\ ApplyCommand /\ 1 \in 1..Len(commands) /\ commands[1].kind = "ClearQueued"
           /\ chainedFrom.stream # 0
           /\ decCurrent.stream = commands[1].stream /\ marker'.stream = commands[1].stream
  <2>1. Gone(decCurrent.stream) /\ decCurrent.stream # 0 /\ complete[decCurrent.stream]
    BY <1>0, <1>3 DEF ClearedAreGone, Sources
  <2>2. PlayedOut(decCurrent.stream, marker'.frame)
    BY <2>1 DEF PlayedOut, MayBeOver
  <2>3. PICK frame : frame = marker'.frame
    OBVIOUS
  <2>4. PlayedOutNext(decCurrent.stream, frame)
    BY <1>0, <2>2, <2>3, PlayedOutStays DEF IdsTyped
  <2> QED BY <1>3, <2>3, <2>4
<1> QED BY <1>0, <1>1, <1>2, <1>3, MarkerMoving DEF MarkerMoves

LEMMA ItemEnds ==
  ASSUME LineInv, EndsAreEnds, [Next]_vars, NEW i \in Line', Item(i)'.end
  PROVE  PlayedOutNext(Item(i)'.stream, Item(i)'.to)
<1>0. /\ TypeOK /\ UiConsistent /\ UiKnows /\ Items /\ LineTyped /\ LineReads /\ LineReads'
      /\ IdsTyped
  BY TypeKept, LineTypes, LineIsRead, LineIsReadNext, IdsAreTyped
     DEF LineInv, Known, Wiring, Contiguous
<1>1. CASE Shrinks \/ Refuse \/ PlayBlock
  <2>1. PICK f : Mapped(f)
    BY <1>0, <1>1, LineMaps
  <2>2. PICK k \in Line : k = f[i]
    BY <2>1 DEF Mapped
  <2>3. Item(i)'.stream = Item(k).stream
    BY <2>1, <2>2 DEF Mapped
  <2>4. CASE Item(k).end /\ Item(i)'.to = Item(k).to
    <3>1. PlayedOut(Item(k).stream, Item(k).to) /\ Item(k).stream \in StreamId
      BY <1>0, <2>2, <2>4 DEF EndsAreEnds, LineTyped
    <3>2. PICK s, frame : s = Item(k).stream /\ frame = Item(k).to
      OBVIOUS
    <3>3. PlayedOutNext(s, frame)
      BY <1>0, <3>1, <3>2, PlayedOutStays
    <3> QED BY <2>3, <2>4, <3>2, <3>3
  <2>5. CASE Refuse /\ i = 0
    <3>1. Item(0)'.stream = playing'.stream /\ Item(0)'.to = playing'.frame
      BY <1>0 DEF LineReads
    <3>2. /\ playing'.stream = playing.stream /\ playing'.frame = playing.frame
          /\ PlayedOut(playing.stream, playing.frame)
      <4>1. playing' # playing \/ playing.ended
        BY <2>5, EndIsRead
      <4>2. CASE playing' = playing
        <5>1. 0 \in Line /\ Item(0).end
          BY <1>0, <4>1, <4>2, EndIsRead DEF Line, LineTyped
        <5> QED BY <1>0, <4>2, <5>1 DEF EndsAreEnds, LineReads
      <4>3. ~ PlayBlock
        BY <2>5 DEF Refuse, PlayBlock
      <4> QED BY <4>2, <4>3, PlayingMoving DEF PlayingMoves
    <3>3. playing.stream \in StreamId
      BY <1>0, SpotTypes DEF SpotTyped
    <3> QED BY <1>0, <2>5, <3>1, <3>2, <3>3, PlayedOutStays
  <2> QED BY <2>1, <2>2, <2>4, <2>5 DEF Mapped
<1>2. CASE Step /\ ~ UNCHANGED blocks
  <2>1. PICK b \in Block :
          /\ Writing(b) \/ Sounding(b)
          /\ \A j \in Line : Item(j)' = Item(j)
          /\ \A j \in Line' : j \in Line \/ (j = Len(blocks') /\ Item(j)' = Last')
          /\ Last'.stream = b.stream /\ Last'.to = b.frame + b.count /\ Last'.end = b.end
    BY <1>0, <1>2, PushedLine
  <2>2. CASE i \in Line
    <3>1. Item(i)' = Item(i) /\ PlayedOut(Item(i).stream, Item(i).to)
          /\ Item(i).stream \in StreamId
      BY <1>0, <2>1, <2>2 DEF EndsAreEnds, LineTyped
    <3>2. PICK s, frame : s = Item(i).stream /\ frame = Item(i).to
      OBVIOUS
    <3>3. PlayedOutNext(s, frame)
      BY <1>0, <3>1, <3>2, PlayedOutStays
    <3> QED BY <3>1, <3>2, <3>3
  <2>3. CASE Item(i)' = Last'
    <3>1. b.end
      BY <2>1, <2>3
    <3>2. /\ marker.stream # 0 /\ b.stream = marker.stream /\ b.frame = marker.frame
          /\ b.count = 0
      BY <2>1, <3>1 DEF Writing, Sounding
    <3>3. marker.frame \in Nat
      BY <1>0 DEF TypeOK, DecoderType, Marker, Frame
    <3>4. PlayedOutNext(marker.stream, marker.frame)
      BY <1>0, <3>2, PlayedOutStays DEF EndsAreEnds, IdsTyped
    <3>5. Item(i)'.stream = marker.stream /\ Item(i)'.to = marker.frame
      BY <2>1, <2>3, <3>2, <3>3
    <3> QED BY <3>4, <3>5
  <2> QED BY <2>1, <2>2, <2>3
<1> QED BY <1>0, <1>1, <1>2, LineMoves

LEMMA EndsNext ==
  ASSUME marker'.stream # 0 => PlayedOutNext(marker'.stream, marker'.frame),
         \A i \in Line' : Item(i)'.end => PlayedOutNext(Item(i)'.stream, Item(i)'.to),
         published'.ended => PlayedOutNext(published'.stream, published'.frame),
         snapshot'.ended => PlayedOutNext(snapshot'.stream, snapshot'.frame)
  PROVE  EndsAreEnds'
BY DEF EndsAreEnds, PlayedOut, PlayedOutNext, Gone, GoneNext, MayBeOver, SoundOver

LEMMA EndsKept == ASSUME LineInv, EndsAreEnds, [Next]_vars PROVE EndsAreEnds'
<1>0. /\ TypeOK /\ UiConsistent /\ UiKnows /\ LineReads /\ LineTyped
      /\ SpotTyped(snapshot) /\ SpotTyped(published) /\ SpotTyped(playing)
  BY LineIsRead, LineTypes, SpotTypes DEF LineInv, Known, Wiring
<1>1. /\ published.ended => PlayedOut(published.stream, published.frame)
      /\ snapshot.ended => PlayedOut(snapshot.stream, snapshot.frame)
      /\ playing.ended => PlayedOut(playing.stream, playing.frame)
  <2>1. 0 \in Line
    BY <1>0 DEF Line, LineTyped
  <2> QED BY <1>0, <2>1 DEF EndsAreEnds, LineReads
<1>2. /\ published.ended => PlayedOutNext(published.stream, published.frame)
      /\ snapshot.ended => PlayedOutNext(snapshot.stream, snapshot.frame)
      /\ playing.ended => PlayedOutNext(playing.stream, playing.frame)
  BY <1>0, <1>1, PlayedOutStays DEF SpotTyped
<1>3. published' \in {published, playing} /\ snapshot' \in {snapshot, published, Silence}
  BY <1>0, ToldMoves
<1>4. /\ published'.ended => PlayedOutNext(published'.stream, published'.frame)
      /\ snapshot'.ended => PlayedOutNext(snapshot'.stream, snapshot'.frame)
  BY <1>2, <1>3 DEF Silence
<1> QED BY <1>4, MarkerEnds, ItemEnds, EndsNext

LEMMA LastIsNext == ASSUME TypeOK' PROVE \E k \in Line' : k = Len(blocks') /\ Item(k)' = Last'
<1>1. Len(blocks') \in Line'
  BY LineTypesNext DEF LineTyped, Line
<1>2. PICK k \in Line' : k = Len(blocks')
  BY <1>1
<1>3. Item(k)' = Last'
  BY <1>2 DEF Item, Last
<1> QED BY <1>2, <1>3

\* Nothing comes after an end.
LEMMA EndIsLastKept == ASSUME LineInv, EndIsLast, [Next]_vars PROVE EndIsLast'
<1>0. /\ TypeOK /\ TypeOK' /\ UiConsistent /\ UiKnows /\ GenerationsInOrder /\ Items
      /\ LineTyped /\ LineTyped' /\ LineGrown /\ NothingYet /\ ClearedAreGone /\ RequestsNow
      /\ IdsTyped /\ Sources
  BY TypeKept, LineTypes, LineTypesNext, LineGrows, IdsAreTyped
     DEF LineInv, Known, Wiring, Contiguous, Streams
<1> SUFFICES ASSUME Last'.gen = generation', Last'.end, decCurrent'.stream # 0, ~ decEnded'
             PROVE  FALSE
  BY DEF EndIsLast, Writes
<1>1. /\ \E k \in Line' : k = Len(blocks') /\ Item(k)' = Last'
      /\ Len(blocks) \in Line /\ Last = Item(Len(blocks))
  BY <1>0, LastIsNext DEF Line, Last, LineTyped
<1>2. Last'.gen <= generation /\ generation <= generation' /\ generation \in Nat
      /\ generation' \in Nat
  <2>1. Last'.gen <= generation
    BY <1>1, LineIsOld
  <2> QED BY <1>0, <2>1, HorizonMoves, IdsAreTyped, IdsAreTypedNext DEF IdsTyped
<1>3. generation' = generation /\ Last'.gen = generation
  BY <1>2
<1>4. CASE Shrinks \/ Refuse \/ PlayBlock
  <2>1. Last.gen = generation /\ Last.end
    <3>1. Horizon' <= generation'
      BY <1>0, HorizonMoves
    <3>2. LastMoves
      BY <1>0, <1>4, LastMoving
    <3>3. ~ (Last'.gen < Horizon')
      <4>1. Horizon' \in Nat
        BY <1>0, HorizonMoves
      <4> QED BY <1>2, <1>3, <3>1, <4>1
    <3> QED BY <1>3, <3>2, <3>3 DEF LastMoves, LastSame
  <2>2. ~ Writes /\ decGeneration = generation
    <3>1. Last.gen <= decGeneration /\ decGeneration <= generation /\ decGeneration \in Nat
      BY <1>0, <1>1 DEF LineGrown, IdsTyped
    <3> QED BY <1>2, <2>1, <3>1 DEF EndIsLast
  <2>3. CASE ApplyCommand
    <3>1. Applies /\ 1 \in 1..Len(commands)
      BY <1>0, <2>3, ApplyEffect, CommandTaken, CommandTypes
    <3>2. ASSUME IsRequest(commands[1]) PROVE FALSE
      <4>1. commands[1].gen = generation
        <5>1. decGeneration <= commands[1].gen /\ commands[1].gen <= generation
          BY <1>0, <3>1, <3>2, OrderParts DEF RequestsInOrder
        <5>2. commands[1].gen \in Nat
          BY <1>0, <3>1, CommandTypes
        <5> QED BY <1>2, <2>2, <5>1, <5>2
      <4>2. Barren(1)
        BY <1>0, <2>2, <3>1, <3>2, <4>1 DEF NothingYet, Again
      <4>3. Last.gen < generation
        BY <1>1, <4>1, <4>2 DEF Barren
      <4> QED BY <1>2, <2>1, <4>3
    <3>3. ~ decEnded /\ decCurrent.stream # 0
      <4>1. commands[1].kind = "ClearQueued" => commands[1].stream # 0
        BY <1>0, <3>1 DEF ClearedAreGone
      <4> QED BY <3>1, <3>2, <4>1 DEF Applies, IsRequest
    <3> QED BY <2>2, <3>3 DEF Writes
  <2>4. CASE Step
    BY <2>2, <2>4, StepFrame
  <2>5. CASE UiStep \/ Arrive \/ Play \/ UNCHANGED vars
    BY <2>2, <2>5, UiFrame, ArriveFrame, PlayFrame DEF decVars, vars, Writes
  <2> QED BY <2>3, <2>4, <2>5, NextCases
<1>5. CASE Step /\ ~ UNCHANGED blocks
  <2>1. PICK b \in Block : (Writing(b) \/ Sounding(b)) /\ Last'.end = b.end
    BY <1>0, <1>5, PushedLine
  <2> QED BY <2>1 DEF Writing, Sounding
<1> QED BY <1>0, <1>4, <1>5, LineMoves

-----------------------------------------------------------------------------
(* The order of what is seen *)

LEMMA PositionsNext ==
  ASSUME AlongNext(snapshot', published'), AlongNext(published', playing')
  PROVE  PositionsGrow'
BY DEF PositionsGrow, Along, AlongNext, Gone, GoneNext

LEMMA PositionsKept ==
  ASSUME LineInv, EndsAreEnds, PositionsGrow, [Next]_vars
  PROVE  PositionsGrow'
<1>0. /\ TypeOK /\ TypeOK' /\ UiConsistent /\ UiKnows
      /\ SpotTyped(snapshot) /\ SpotTyped(published) /\ SpotTyped(playing) /\ SpotTyped(Silence)
      /\ SpotTyped(playing') /\ SpotTyped(published')
  BY TypeKept, SpotTypes, SpotTypesNext DEF LineInv, Known, Wiring
<1>1. /\ AlongNext(snapshot, published) /\ AlongNext(published, playing)
      /\ AlongNext(playing, playing') /\ playing.gen <= playing'.gen
  BY <1>0, AlongStays, PlayingAlong DEF PositionsGrow
<1>2. snapshot.gen <= published.gen /\ published.gen <= playing.gen
  BY SpotsInOrder
<1>3. AlongNext(snapshot, playing) /\ AlongNext(published, playing') /\ AlongNext(published, published)
      /\ AlongNext(playing, playing)
  BY <1>0, <1>1, <1>2, AlongTrans, AlongSame
<1>4. published' \in {published, playing} /\ snapshot' \in {snapshot, published, Silence}
  BY <1>0, ToldMoves
<1>5. AlongNext(published', playing')
  BY <1>1, <1>3, <1>4
<1>6. AlongNext(snapshot', published')
  <2>1. CASE snapshot' = Silence
    BY <1>0, <2>1, AlongSilence
  <2>2. CASE snapshot' \in {snapshot, published}
    BY <1>1, <1>3, <1>4, <2>2
  <2> QED BY <1>4, <2>1, <2>2
<1> QED BY <1>5, <1>6, PositionsNext

\* What is written next belongs to the last item's stream or a younger one.
LEMMA ComesAfterLast ==
  ASSUME LineInv, EndIsLast, Writes, Last.gen = generation
  PROVE  /\ decGeneration = generation /\ ~ Last.end
         /\ Last.stream <= (IF marker.stream # 0 THEN marker.stream ELSE decCurrent.stream)
         /\ \A i \in Line : Item(i).gen = generation /\ Item(i).stream <= Last.stream
              => Item(i).stream <= (IF marker.stream # 0 THEN marker.stream ELSE decCurrent.stream)
<1>0. /\ TypeOK /\ LineTyped /\ LineGrown /\ WillFollow /\ IdsTyped /\ ComingReads /\ UiKnows
  BY LineTypes, LineGrows, IdsAreTyped, ComingIs DEF LineInv, Known, Wiring, Contiguous
<1>1. Len(blocks) \in Line /\ Last = Item(Len(blocks))
  BY <1>0 DEF Line, Last, LineTyped
<1>2. decGeneration = generation
  <2>1. Last.gen <= decGeneration /\ decGeneration <= generation
    BY <1>0, <1>1 DEF LineGrown
  <2> QED BY <1>0, <2>1 DEF IdsTyped
<1>3. ~ Last.end
  BY DEF EndIsLast
<1>4. Live(decGeneration)
  <2>1. Horizon <= generation
    BY <1>0 DEF Horizon, UiKnows, IdsTyped
  <2> QED BY <1>2, <2>1 DEF Live
<1>5. Continued(Last, Coming)
  BY <1>0, <1>2, <1>3, <1>4 DEF WillFollow
<1>6. /\ Coming.stream = (IF marker.stream # 0 THEN marker.stream ELSE decCurrent.stream)
      /\ Coming.stream \in Nat /\ Last.stream \in Nat /\ Last.stream \in StreamId
  <2>1. Last.stream \in StreamId
    BY <1>0, <1>1 DEF LineTyped
  <2> QED BY <1>0, <2>1, EngineAssumption DEF ComingReads, IdsTyped, StreamId
<1>7. Last.stream <= Coming.stream
  BY <1>5, <1>6 DEF Continued
<1>8. \A i \in Line : Item(i).stream \in Nat
  BY <1>0, EngineAssumption DEF LineTyped, StreamId
<1> QED BY <1>2, <1>3, <1>6, <1>7, <1>8

LEMMA StreamsKept ==
  ASSUME LineInv, EndIsLast, StreamsGrow, [Next]_vars
  PROVE  StreamsGrow'
<1>0. /\ TypeOK /\ TypeOK' /\ UiConsistent /\ UiKnows /\ GenerationsInOrder /\ Items
      /\ LineTyped /\ LineTyped' /\ LineGrown /\ IdsTyped
  BY TypeKept, LineTypes, LineTypesNext, LineGrows, IdsAreTyped
     DEF LineInv, Known, Wiring, Contiguous
<1> SUFFICES ASSUME NEW i \in Line', NEW j \in Line', i <= j, Item(i)'.gen = generation'
             PROVE  Item(i)'.stream <= Item(j)'.stream
  BY DEF StreamsGrow
<1>1. generation' = generation /\ generation \in Nat
  <2>1. Item(i)'.gen <= generation /\ generation <= generation'
    BY <1>0, LineIsOld, HorizonMoves
  <2>2. generation \in Nat /\ generation' \in Nat
    BY <1>0, IdsAreTypedNext DEF IdsTyped
  <2> QED BY <2>1, <2>2
<1>2. CASE Shrinks \/ Refuse \/ PlayBlock
  <2>1. PICK f : Mapped(f)
    BY <1>0, <1>2, LineMaps
  <2>2. PICK k \in Line, l \in Line : k = f[i] /\ l = f[j] /\ k <= l
    BY <2>1 DEF Mapped
  <2>3. Item(k).stream <= Item(l).stream
    <3>1. Item(k).gen = generation
      BY <1>1, <2>1, <2>2 DEF Mapped
    <3> QED BY <2>2, <3>1 DEF StreamsGrow
  <2> QED BY <2>1, <2>2, <2>3 DEF Mapped
<1>3. CASE Step /\ ~ UNCHANGED blocks
  <2>1. PICK b \in Block :
          /\ Writing(b) \/ Sounding(b)
          /\ Len(blocks') = Len(blocks) + 1
          /\ \A k \in Line : Item(k)' = Item(k)
          /\ \A k \in Line' : k \in Line \/ (k = Len(blocks') /\ Item(k)' = Last')
          /\ Last'.stream = b.stream
    BY <1>0, <1>3, PushedLine
  <2>2. b.stream = (IF marker.stream # 0 THEN marker.stream ELSE decCurrent.stream)
        /\ b.stream \in Nat
    BY <1>0, <2>1 DEF Writing, Sounding, IdsTyped
  <2>3. CASE j \in Line
    <3>1. i \in Line
      BY <1>0, <2>3 DEF Line, LineTyped
    <3>2. Item(i)' = Item(i) /\ Item(j)' = Item(j)
      BY <2>1, <2>3, <3>1
    <3>3. Item(i).stream <= Item(j).stream
      BY <1>1, <2>3, <3>1, <3>2 DEF StreamsGrow
    <3> QED BY <3>2, <3>3
  <2>4. CASE i \in Line /\ Item(j)' = Last'
    <3>1. Item(i)' = Item(i) /\ Item(i).gen = generation
      BY <1>1, <2>1, <2>4
    <3>2. Len(blocks) \in Line /\ Last = Item(Len(blocks)) /\ i <= Len(blocks)
      BY <1>0, <2>4 DEF Line, Last, LineTyped
    <3>3. Last.gen = generation
      <4>1. Item(i).gen <= Last.gen /\ Last.gen <= generation /\ Last.gen \in Nat
        BY <1>0, <2>4, <3>2 DEF LineGrown, LineTyped
      <4> QED BY <1>1, <3>1, <4>1
    <3>4. Item(i).stream <= Last.stream
      BY <2>4, <3>1, <3>2 DEF StreamsGrow
    <3>5. Writes
      BY <1>3, StepFrame
    <3>6. Item(i).stream <= b.stream
      BY <2>2, <2>4, <3>1, <3>3, <3>4, <3>5, ComesAfterLast
    <3> QED BY <2>1, <2>4, <3>1, <3>6
  <2>5. CASE i \notin Line
    <3>1. i = Len(blocks') /\ j = i
      BY <1>0, <2>1, <2>5 DEF Line, LineTyped
    <3>2. Item(j)'.stream = b.stream
      BY <2>1, <2>5, <3>1
    <3> QED BY <2>2, <3>1, <3>2
  <2> QED BY <2>1, <2>3, <2>4, <2>5
<1> QED BY <1>0, <1>2, <1>3, LineMoves

\* What the decoder decodes in this generation is the current stream or younger.
LEMMA DecodedIsAhead ==
  ASSUME LineInv, EndIsLast, AllAhead, decGeneration = generation, Writes
  PROVE  currentId <= (IF marker.stream # 0 THEN marker.stream ELSE decCurrent.stream)
<1>0. /\ TypeOK /\ LineTyped /\ LineGrown /\ First /\ IdsTyped
  BY LineTypes, LineGrows, IdsAreTyped DEF LineInv, Known, Contiguous
<1>1. CASE marker.stream # 0
  BY <1>1 DEF AllAhead
<1>2. CASE marker.stream = 0
  <2>1. Len(blocks) \in Line /\ Last = Item(Len(blocks))
    BY <1>0 DEF Line, Last, LineTyped
  <2>2. Last.gen <= generation /\ Last.gen \in Nat /\ Last.stream \in Nat
    <3>1. Last.stream \in StreamId /\ Last.gen \in Nat /\ Last.gen <= generation
      BY <1>0, <2>1 DEF LineGrown, LineTyped
    <3> QED BY <3>1, EngineAssumption DEF StreamId
  <2>3. CASE Last.gen < generation
    BY <1>0, <1>2, <2>3 DEF First
  <2>4. CASE Last.gen = generation
    <3>1. currentId <= Last.stream
      BY <2>1, <2>4 DEF AllAhead, Ahead
    <3>2. Last.stream <= decCurrent.stream
      BY <1>2, <2>4, ComesAfterLast
    <3> QED BY <1>0, <1>2, <2>2, <3>1, <3>2 DEF IdsTyped
  <2> QED BY <1>0, <2>2, <2>3, <2>4 DEF IdsTyped
<1> QED BY <1>1, <1>2

\* The UI thread moves on in a generation only to what was played.
LEMMA CurrentMoves ==
  ASSUME LineInv, PositionsGrow, StreamsGrow, [Next]_vars, generation' = generation
  PROVE  \/ currentId' = currentId
         \/ /\ UiStep /\ snapshot.gen = generation /\ currentId' = snapshot.stream
            /\ generation > 0 /\ currentId' \in Nat
            /\ published.gen = generation /\ currentId' <= published.stream
            /\ \A i \in Line : Item(i).gen = generation /\ currentId' <= Item(i).stream
<1>0. /\ TypeOK /\ TypeOK' /\ UiConsistent /\ UiKnows /\ LineReads /\ LineTyped /\ LineGrown
      /\ IdsTyped /\ SpotTyped(snapshot) /\ SpotTyped(published) /\ SpotTyped(playing)
  BY TypeKept, LineIsRead, LineTypes, LineGrows, IdsAreTyped, SpotTypes
     DEF LineInv, Known, Wiring
<1>1. CASE ~ UiStep
  BY <1>1, NextCases, ArriveFrame, ApplyFrame, StepFrame, PlayFrame DEF uiVars, vars
<1>2. CASE /\ UiStep /\ snapshot.gen = generation /\ snapshot.stream = queuedId
           /\ queuedId # 0 /\ currentId' = queuedId
  <2>1. generation > 0
    BY <1>0, <1>2 DEF UiConsistent, UiKnows
  <2>2. published.gen = generation /\ playing.gen = generation
    BY <1>0, <1>2, SpotsInOrder DEF SpotTyped
  <2>3. snapshot.stream <= published.stream /\ published.stream <= playing.stream
    BY <1>2, <2>2 DEF PositionsGrow, Along
  <2>4. 0 \in Line /\ Item(0).stream = playing.stream /\ Item(0).gen = generation
    BY <1>0, <2>2 DEF Line, LineTyped, LineReads
  <2>5. ASSUME NEW i \in Line PROVE Item(i).gen = generation /\ playing.stream <= Item(i).stream
    <3>1. 0 <= i
      BY <1>0 DEF Line, LineTyped
    <3>2. Item(0).stream <= Item(i).stream
      BY <2>4, <3>1 DEF StreamsGrow
    <3>3. Item(0).gen <= Item(i).gen /\ Item(i).gen <= generation /\ Item(i).gen \in Nat
      BY <1>0, <2>4, <3>1 DEF LineGrown, LineTyped
    <3> QED BY <1>0, <2>4, <3>2, <3>3 DEF IdsTyped
  <2>6. \A i \in Line : Item(i).stream \in Nat
    BY <1>0, EngineAssumption DEF LineTyped, StreamId
  <2> QED BY <1>0, <1>2, <2>1, <2>2, <2>3, <2>5, <2>6 DEF SpotTyped
<1>3. CASE UiStep
  <2>1. generation \in Nat /\ generation # generation + 1
    BY <1>0 DEF IdsTyped
  <2> QED BY <1>0, <1>2, <1>3, <2>1, UiMoving DEF UiMoves
<1> QED BY <1>1, <1>3

AheadNext(a) == a.gen = generation' => currentId' <= a.stream
LEMMA AllAheadNext ==
  ASSUME \A i \in Line' : AheadNext(Item(i)'), AheadNext(published'), AheadNext(snapshot'),
         decGeneration' = generation' /\ decCurrent'.stream # 0 /\ ~ decEnded'
           /\ marker'.stream # 0 => currentId' <= marker'.stream
  PROVE  AllAhead'
BY DEF AllAhead, Ahead, AheadNext, Writes

LEMMA AllAheadKept ==
  ASSUME LineInv, EndIsLast, PositionsGrow, StreamsGrow, AllAhead, [Next]_vars
  PROVE  AllAhead'
<1>0. /\ TypeOK /\ TypeOK' /\ UiConsistent /\ UiConsistent' /\ UiKnows /\ UiKnows'
      /\ GenerationsInOrder /\ Items /\ Sources
      /\ LineReads /\ LineTyped /\ LineTyped' /\ LineGrown
      /\ IdsTyped /\ IdsTyped' /\ SpotTyped(snapshot) /\ SpotTyped(published)
      /\ SpotTyped(playing)
  BY TypeKept, UiConsistentStep, UiKnowsKept, LineIsRead, LineTypes, LineTypesNext, LineGrows,
     IdsAreTyped, IdsAreTypedNext, SpotTypes
     DEF LineInv, Known, Wiring, Contiguous, Streams
<1>1. CASE generation' # generation
  <2>1. generation < generation'
    BY <1>0, <1>1, HorizonMoves DEF IdsTyped
  <2>2. decGeneration' = decGeneration
    <3>1. CASE UiStep
      BY <3>1, UiFrame
    <3>2. CASE ~ UiStep
      BY <1>1, <3>2, NextCases, ArriveFrame, ApplyFrame, StepFrame, PlayFrame DEF uiVars, vars
    <3> QED BY <3>1, <3>2
  <2>3. decGeneration' < generation'
    BY <1>0, <2>1, <2>2, SpotsInOrder DEF IdsTyped
  <2>4. \A i \in Line' : Item(i)'.gen < generation'
    <3>1. \A i \in Line' : Item(i)'.gen <= generation /\ Item(i)'.gen \in Nat
      BY <1>0, LineIsOld DEF LineTyped
    <3> QED BY <1>0, <2>1, <3>1 DEF IdsTyped
  <2>5. published'.gen <= generation /\ snapshot'.gen <= generation
        /\ published'.gen \in Nat /\ snapshot'.gen \in Nat
    <3>1. published' \in {published, playing} /\ snapshot' \in {snapshot, published, Silence}
      BY <1>0, ToldMoves
    <3> QED BY <1>0, <3>1, SpotsInOrder DEF SpotTyped, IdsTyped, Silence
  <2>6. published'.gen < generation' /\ snapshot'.gen < generation'
    BY <1>0, <2>1, <2>5 DEF IdsTyped
  <2>7. ASSUME NEW i \in Line' PROVE AheadNext(Item(i)')
    <3>1. Item(i)'.gen < generation' /\ Item(i)'.gen \in Nat /\ generation' \in Nat
      BY <1>0, <2>4 DEF IdsTyped, LineTyped
    <3>2. Item(i)'.gen # generation'
      BY <3>1
    <3> QED BY <3>2 DEF AheadNext
  <2> QED BY <1>0, <2>3, <2>5, <2>6, <2>7, AllAheadNext DEF AheadNext, IdsTyped
<1>2. CASE generation' = generation
  <2>0. published' \in {published, playing} /\ snapshot' \in {snapshot, published, Silence}
    BY <1>0, ToldMoves
  <2>1. /\ \A i \in Line : AheadNext(Item(i))
        /\ AheadNext(published) /\ (AheadNext(snapshot) \/ snapshot' # snapshot)
        /\ AheadNext(playing)
        /\ UiStep \/ currentId' = currentId
    <3>1. CASE currentId' = currentId
      <4>1. 0 \in Line
        BY <1>0 DEF Line, LineTyped
      <4> QED BY <1>0, <1>2, <3>1, <4>1 DEF AllAhead, Ahead, AheadNext, LineReads
    <3>2. CASE currentId' # currentId
      <4>1. /\ UiStep /\ snapshot.gen = generation /\ currentId' = snapshot.stream
            /\ generation > 0 /\ currentId' \in Nat
            /\ published.gen = generation /\ currentId' <= published.stream
            /\ \A i \in Line : Item(i).gen = generation /\ currentId' <= Item(i).stream
        BY <1>2, <3>2, CurrentMoves
      <4>2. 0 \in Line
        BY <1>0 DEF Line, LineTyped
      <4> QED BY <1>0, <1>2, <4>1, <4>2 DEF AheadNext, LineReads
    <3> QED BY <3>1, <3>2
  <2>2. AheadNext(published')
    BY <2>0, <2>1
  <2>3. AheadNext(snapshot')
    <3>1. CASE snapshot' = Silence
      <4>1. currentId' # 0 => generation' > 0
        BY <1>0 DEF UiKnows
      <4> QED BY <1>0, <3>1, <4>1 DEF AheadNext, Silence, IdsTyped
    <3>2. CASE snapshot' = published \/ snapshot' = snapshot
      BY <2>1, <3>2
    <3> QED BY <2>0, <3>1, <3>2
  <2>4. ASSUME NEW i \in Line' PROVE AheadNext(Item(i)')
    <3>1. CASE Shrinks \/ Refuse \/ PlayBlock
      <4>1. PICK f : Mapped(f)
        BY <1>0, <3>1, LineMaps
      <4>2. PICK k \in Line : k = f[i]
        BY <4>1 DEF Mapped
      <4>3. Item(i)'.gen = Item(k).gen /\ Item(i)'.stream = Item(k).stream
        BY <4>1, <4>2 DEF Mapped
      <4> QED BY <2>1, <4>3 DEF AheadNext
    <3>2. CASE Step /\ ~ UNCHANGED blocks
      <4>1. PICK b \in Block :
              /\ Writing(b) \/ Sounding(b)
              /\ \A k \in Line : Item(k)' = Item(k)
              /\ \A k \in Line' : k \in Line \/ (k = Len(blocks') /\ Item(k)' = Last')
              /\ Last'.stream = b.stream /\ Last'.gen = b.gen
        BY <1>0, <3>2, PushedLine
      <4>2. CASE i \in Line
        BY <2>1, <4>1, <4>2
      <4>3. CASE Item(i)' = Last'
        <5>1. b.stream = (IF marker.stream # 0 THEN marker.stream ELSE decCurrent.stream)
              /\ b.gen = decGeneration
          BY <4>1 DEF Writing, Sounding
        <5>2. currentId' = currentId /\ Writes
          BY <3>2, StepFrame DEF uiVars
        <5>3. decGeneration = generation => currentId <= b.stream
          BY <5>1, <5>2, DecodedIsAhead
        <5> QED BY <1>2, <4>1, <4>3, <5>1, <5>2, <5>3 DEF AheadNext
      <4> QED BY <4>1, <4>2, <4>3
    <3> QED BY <1>0, <3>1, <3>2, LineMoves
  <2>5. ASSUME decGeneration' = generation', decCurrent'.stream # 0, ~ decEnded',
               marker'.stream # 0
        PROVE  currentId' <= marker'.stream
    <3>1. CASE UiStep
      <4>1. UNCHANGED <<decGeneration, decCurrent, decEnded, marker>>
        BY <3>1, UiFrame
      <4>2. Writes /\ decGeneration = generation /\ marker.stream # 0
        BY <1>2, <2>5, <4>1 DEF Writes
      <4>3. CASE currentId' = currentId
        BY <4>1, <4>2, <4>3 DEF AllAhead
      <4>4. CASE currentId' # currentId
        <5>1. /\ currentId' \in Nat
              /\ \A i \in Line : Item(i).gen = generation /\ currentId' <= Item(i).stream
          BY <1>2, <4>4, CurrentMoves
        <5>2. Len(blocks) \in Line /\ Last = Item(Len(blocks))
          BY <1>0 DEF Line, Last, LineTyped
        <5>3. Last.gen = generation /\ currentId' <= Last.stream /\ Last.stream \in StreamId
          BY <1>0, <5>1, <5>2 DEF LineTyped
        <5>4. Last.stream <= marker.stream
          BY <4>2, <5>3, ComesAfterLast
        <5>5. Last.stream \in Nat
          BY <5>3, EngineAssumption DEF StreamId
        <5> QED BY <1>0, <4>1, <5>1, <5>3, <5>4, <5>5 DEF IdsTyped
      <4> QED BY <4>3, <4>4
    <3>2. CASE ~ UiStep
      <4>1. currentId' = currentId
        BY <2>1, <3>2
      <4>2. CASE Step
        <5>1. Writes /\ decGeneration' = decGeneration
          BY <4>2, StepFrame
        <5>2. currentId <= (IF marker.stream # 0 THEN marker.stream ELSE decCurrent.stream)
          BY <1>2, <2>5, <5>1, DecodedIsAhead
        <5>3. \/ marker' = marker
              \/ marker.stream = 0 /\ marker'.stream = decCurrent.stream
          <6>1. ~ ApplyCommand \/ marker' = marker
            <7>1. UNCHANGED commands
              BY <4>2, StepFrame
            <7>2. ~ ApplyCommand
              BY <1>0, <7>1, CommandTaken, CommandTypes
            <7> QED BY <7>2
          <6> QED BY <1>0, <2>5, <6>1, MarkerMoving DEF MarkerMoves
        <5> QED BY <2>5, <4>1, <5>2, <5>3
      <4>3. CASE ApplyCommand
        <5>1. Applies /\ 1 \in 1..Len(commands)
          BY <1>0, <4>3, ApplyEffect, CommandTaken, CommandTypes
        <5>2. \/ /\ UNCHANGED <<decGeneration, decEnded, marker, decCurrent>>
              \/ /\ UNCHANGED <<decGeneration, decEnded>> /\ chainedFrom.stream # 0
                 /\ marker'.stream = decCurrent.stream
          BY <2>5, <5>1 DEF Applies, Starts0, Seeks
        <5>3. CASE UNCHANGED <<decGeneration, decEnded, marker, decCurrent>>
          BY <1>2, <2>5, <4>1, <5>3 DEF AllAhead, Writes
        <5>4. CASE /\ UNCHANGED <<decGeneration, decEnded>> /\ chainedFrom.stream # 0
                   /\ marker'.stream = decCurrent.stream
          <6>1. Writes /\ marker.stream \in {0, decCurrent.stream}
            BY <1>0, <2>5, <5>4 DEF Sources, Writes
          <6>2. currentId <= (IF marker.stream # 0 THEN marker.stream ELSE decCurrent.stream)
            BY <1>2, <2>5, <5>4, <6>1, DecodedIsAhead
          <6> QED BY <4>1, <5>4, <6>1, <6>2
        <5> QED BY <5>2, <5>3, <5>4
      <4>4. CASE Arrive \/ Play \/ UNCHANGED vars
        <5>1. UNCHANGED <<decGeneration, decEnded, marker, decCurrent>>
          BY <4>4, ArriveFrame, PlayFrame DEF decVars, vars
        <5> QED BY <1>2, <2>5, <4>1, <5>1 DEF AllAhead, Writes
      <4> QED BY <3>2, <4>2, <4>3, <4>4, NextCases
    <3> QED BY <3>1, <3>2
  <2> QED BY <2>2, <2>3, <2>4, <2>5, AllAheadNext
<1> QED BY <1>1, <1>2

-----------------------------------------------------------------------------
(* What the UI thread makes of it *)

\* The place shown is one that was played, and a snapshot lives as long as a poll.
UiShows ==
  /\ generation' = generation =>
       \/ currentId' = currentId /\ shownFrame' = shownFrame
       \/ /\ ~ polling /\ UNCHANGED <<snapshot, currentId>> /\ currentId # 0
          /\ published.gen = generation /\ published.stream = currentId
          /\ shownFrame' = published.frame
       \/ /\ polling /\ snapshot' = Silence /\ snapshot.gen = generation
          /\ currentId' = snapshot.stream /\ shownFrame' = snapshot.frame
          /\ currentId' \in {currentId, queuedId}
  /\ \/ snapshot' = snapshot
     \/ snapshot' = published /\ UNCHANGED <<generation, currentId, shownFrame>>
     \/ polling /\ snapshot' = Silence

\* An end is reported once, by a poll that found it.
UiFinishes ==
  finishReported' =>
    \/ finishReported /\ UNCHANGED <<generation, currentId>>
    \/ /\ polling /\ snapshot' = Silence /\ UNCHANGED <<generation, currentId, commands>>
       /\ snapshot.gen = generation /\ snapshot.stream = currentId /\ snapshot.ended
    \/ /\ polling /\ snapshot' = Silence /\ UNCHANGED <<currentId, commands>>
       /\ generation' = generation + 1 /\ ~ finishReported
       /\ snapshot.gen = generation /\ snapshot.stream # currentId

\* A queued stream is new, or the one before with what was reported of it.
UiQueues ==
  \/ queuedId' = 0
  \/ queuedId' = lastId + 1
  \/ queuedId' = queuedId /\ queuedFormat' = queuedFormat /\ events' = events
  \/ queuedId' = queuedId /\ (queuedFormat \/ Reported("Opened", queuedId) => queuedFormat')

UiPolls ==
  /\ polling' => polling \/ state # "Stopped"
  /\ polling' => state' = state
  /\ ~ polling' => snapshot' \in {snapshot, Silence} /\ (polling => snapshot' = Silence)
  /\ lastId <= lastId'
  /\ events' = events \/ events' = <<>>

UiSees == UiShows /\ UiFinishes /\ UiQueues /\ UiPolls

LEMMA UiSeeing == ASSUME TypeOK, UiConsistent, UiStep PROVE UiSees
<1>0. /\ lastId \in Nat /\ currentId \in Nat /\ queuedId \in Nat /\ generation \in Nat
      /\ currentId <= lastId /\ queuedId <= lastId /\ polling \in BOOLEAN
      /\ finishReported \in BOOLEAN /\ generation # generation + 1
      /\ lastId # lastId + 1
  BY EngineAssumption DEF TypeOK, UiType, UiConsistent, StreamId
<1> USE <1>0 DEF UiSees, UiShows, UiFinishes, UiQueues, UiPolls, UiFree
<1>1. ASSUME NEW f \in Targets, BeginStream(f) PROVE UiSees
  BY <1>1 DEF BeginStream, NewGeneration
<1>2. ASSUME NEW n \in 0..MaxFrames, AttachSource(n) PROVE UiSees
  BY <1>2 DEF AttachSource, uiVars
<1>3. CASE QueueStream
  BY <1>3 DEF QueueStream
<1>4. CASE ClearQueued
  BY <1>4 DEF ClearQueued
<1>5. CASE PlayQueuedNow
  BY <1>5 DEF PlayQueuedNow, NewGeneration
<1>6. CASE Pause \/ Resume
  BY <1>6 DEF Pause, Resume
<1>7. CASE Stop
  BY <1>7 DEF Stop, StopEngine, NewGeneration
<1>8. ASSUME NEW f \in Targets, Seek(f) PROVE UiSees
  BY <1>8 DEF Seek, NewGeneration
<1>9. CASE PositionSeconds
  BY <1>9 DEF PositionSeconds
<1>10. CASE PollRead
  BY <1>10 DEF PollRead
<1>11. CASE PollUndecodable
  BY <1>11 DEF PollUndecodable, StopEngine, NewGeneration
<1>q. ASSUME QueuedKept PROVE UiQueues
  BY <1>q DEF QueuedKept, QueuedAfterEvents, QueuedFormatAfterEvents
<1>12. CASE PollNothingPlayed
  BY <1>12, <1>q DEF PollNothingPlayed, EventsHandled, EventsTaken
<1>13. CASE PollCurrent
  BY <1>13, <1>q DEF PollCurrent, EventsHandled, EventsTaken
<1>14. CASE PollAdvanced
  BY <1>14 DEF PollAdvanced, EventsHandled, EventsTaken, QueuedAfterEvents
<1>15. CASE PollCleared
  BY <1>15, <1>q DEF PollCleared, EventsHandled, EventsTaken
<1> QED BY <1>1, <1>2, <1>3, <1>4, <1>5, <1>6, <1>7, <1>8, <1>9, <1>10, <1>11, <1>12, <1>13,
           <1>14, <1>15 DEF UiStep, Call, Poll

\* While the UI thread polls it has a stream.
LEMMA PollHasStream ==
  ASSUME LineInv, UiRuns, polling
  PROVE  currentId # 0 /\ generation > 0
<1>1. state # "Stopped"
  BY DEF UiRuns
<1>2. currentId # 0
  BY <1>1 DEF LineInv, Known, UiConsistent
<1> QED BY <1>2 DEF LineInv, Wiring, UiKnows

ShownNext(a) == a.gen = generation' /\ a.stream = currentId' => shownFrame' <= a.frame

\* What plays of the current stream stays behind no place that was shown.
LEMMA PlayingShown ==
  ASSUME LineInv, EndsAreEnds, AllAhead, ShownIsPlayed, [Next]_vars,
         generation' = generation, currentId' = currentId, shownFrame' = shownFrame
  PROVE  ShownNext(playing')
<1>0. /\ TypeOK /\ LineReads /\ LineTyped /\ IdsTyped /\ First /\ UiKnows
      /\ SpotTyped(playing) /\ SpotTyped(playing')
  BY TypeKept, LineIsRead, LineTypes, IdsAreTyped, SpotTypes, SpotTypesNext
     DEF LineInv, Known, Wiring, Contiguous
<1> SUFFICES ASSUME playing'.gen = generation, playing'.stream = currentId
             PROVE  shownFrame <= playing'.frame
  BY DEF ShownNext
<1>s. playing.gen = generation /\ playing.stream = currentId => shownFrame <= playing.frame
  BY DEF ShownIsPlayed, Shown
<1>1. CASE playing' = playing
  BY <1>1, <1>s
<1>2. CASE /\ playing'.gen = playing.gen /\ playing'.stream = playing.stream
           /\ playing'.frame = playing.frame
  BY <1>2, <1>s
<1>3. CASE /\ 1 \in 1..Len(blocks)
           /\ playing'.gen = Item(1).gen /\ playing'.stream = Item(1).stream
           /\ Item(1).from <= playing'.frame
           /\ playing.gen <= Item(1).gen
           /\ Item(1).gen = playing.gen => ~ playing.ended /\ Continued(Item(0), Item(1))
  <2>1. /\ Item(1).from \in Nat /\ Item(1).stream = currentId /\ Item(1).gen = generation
        /\ currentId # 0 /\ 0 \in Line
    BY <1>0, <1>3 DEF LineTyped, Line
  <2>2. CASE playing.gen < generation
    <3>1. Starts(Item(1))
      BY <1>0, <1>3, <2>1, <2>2 DEF First, LineReads
    <3>2. Item(1).from = shownFrame
      BY <2>1, <3>1 DEF Starts
    <3> QED BY <1>3, <3>2
  <2>3. CASE playing.gen = generation
    <3>1. Continued(Item(0), Item(1))
      BY <1>3, <2>1, <2>3
    <3>2. ~ Gone(currentId)
      BY DEF Gone
    <3>3. currentId <= playing.stream
      BY <1>0, <2>1, <2>3 DEF AllAhead, Ahead, LineReads
    <3>4. playing.stream = currentId /\ Item(1).from = playing.frame
      BY <1>0, <2>1, <3>1, <3>2, <3>3 DEF Continued, LineReads, IdsTyped, SpotTyped
    <3>5. shownFrame <= playing.frame /\ playing.frame <= playing'.frame
      BY <1>3, <1>s, <2>3, <3>4
    <3>6. shownFrame \in Nat /\ playing.frame \in Nat /\ playing'.frame \in Nat
      BY <1>0 DEF SpotTyped, IdsTyped
    <3> QED BY <3>5, <3>6
  <2>4. playing.gen <= generation /\ playing.gen \in Nat /\ generation \in Nat
    BY <1>0, SpotsInOrder DEF SpotTyped, IdsTyped
  <2> QED BY <2>2, <2>3, <2>4
<1> QED BY <1>1, <1>2, <1>3, PlayingMoving DEF PlayingMoves

LEMMA ShownKept ==
  ASSUME LineInv, EndsAreEnds, AllAhead, PositionsGrow, ShownIsPlayed, UiRuns, [Next]_vars
  PROVE  ShownIsPlayed'
<1>0. /\ TypeOK /\ TypeOK' /\ UiConsistent /\ UiKnows /\ IdsTyped /\ IdsTyped'
      /\ SpotTyped(playing) /\ SpotTyped(published) /\ SpotTyped(snapshot)
  BY TypeKept, IdsAreTyped, IdsAreTypedNext, SpotTypes DEF LineInv, Known, Wiring
<1> SUFFICES ShownNext(snapshot') /\ ShownNext(published') /\ ShownNext(playing')
  BY DEF ShownIsPlayed, Shown, ShownNext
<1>t. published' \in {published, playing} /\ snapshot' \in {snapshot, published, Silence}
  BY <1>0, ToldMoves
<1>s. Shown(snapshot) /\ Shown(published) /\ Shown(playing)
  BY DEF ShownIsPlayed
<1>1. CASE ~ UiStep
  <2>1. UNCHANGED <<generation, currentId, shownFrame, snapshot>>
    BY <1>1, NextCases, ArriveFrame, ApplyFrame, StepFrame, PlayFrame DEF uiVars, vars
  <2>2. ShownNext(playing')
    BY <2>1, PlayingShown
  <2> QED BY <1>t, <1>s, <2>1, <2>2 DEF Shown, ShownNext
<1>2. CASE UiStep
  <2>0. playing' = playing /\ published' = published /\ UiShows
    BY <1>0, <1>2, UiFrame, UiSeeing DEF UiSees
  <2>1. CASE generation' # generation
    <3>1. generation < generation'
      BY <1>0, <2>1, HorizonMoves DEF IdsTyped
    <3>2. /\ playing'.gen <= generation /\ published'.gen <= generation
          /\ playing'.gen \in Nat /\ published'.gen \in Nat
      BY <1>0, <2>0, SpotsInOrder DEF SpotTyped
    <3>3. snapshot'.gen <= generation /\ snapshot'.gen \in Nat
      BY <1>0, <1>t, SpotsInOrder DEF SpotTyped, Silence, IdsTyped
    <3> QED BY <1>0, <3>1, <3>2, <3>3 DEF ShownNext, IdsTyped
  <2>2. CASE generation' = generation
    <3>1. CASE currentId' = currentId /\ shownFrame' = shownFrame
      <4>1. ShownNext(snapshot) /\ ShownNext(published) /\ ShownNext(playing)
        BY <1>s, <2>2, <3>1 DEF Shown, ShownNext
      <4>2. polling /\ snapshot' = Silence => ShownNext(snapshot')
        BY <2>2, PollHasStream DEF ShownNext, Silence
      <4> QED BY <2>0, <4>1, <4>2 DEF UiShows
    <3>2. CASE /\ ~ polling /\ UNCHANGED <<snapshot, currentId>> /\ currentId # 0
               /\ published.gen = generation /\ published.stream = currentId
               /\ shownFrame' = published.frame
      <4>1. snapshot = Silence /\ generation > 0
        BY <1>0, <3>2 DEF UiRuns, UiKnows
      <4>2. ShownNext(snapshot')
        BY <2>2, <3>2, <4>1 DEF ShownNext, Silence
      <4>3. ShownNext(published')
        BY <1>0, <2>0, <3>2 DEF ShownNext, SpotTyped
      <4>4. ShownNext(playing')
        BY <2>0, <2>2, <3>2 DEF ShownNext, PositionsGrow, Along, Gone
      <4> QED BY <4>2, <4>3, <4>4
    <3>3. CASE /\ polling /\ snapshot' = Silence /\ snapshot.gen = generation
               /\ currentId' = snapshot.stream /\ shownFrame' = snapshot.frame
               /\ currentId' \in {currentId, queuedId}
      <4>1. ShownNext(snapshot')
        BY <2>2, <3>3, PollHasStream DEF ShownNext, Silence
      <4>2. published.gen = generation /\ playing.gen = generation
        BY <1>0, <3>3, SpotsInOrder DEF SpotTyped, IdsTyped
      <4>3. ~ Gone(snapshot.stream)
        BY <3>3 DEF Gone
      <4>4. snapshot.stream # 0
        <5>1. Reached(snapshot.stream) /\ currentId # 0
          BY <3>3, PollHasStream DEF LineInv, Streams, InGeneration
        <5> QED BY <5>1 DEF Reached
      <4>5. /\ snapshot.stream <= published.stream /\ published.stream <= playing.stream
            /\ published.stream = snapshot.stream => snapshot.frame <= published.frame
            /\ playing.stream = published.stream /\ published.stream = snapshot.stream
                 => published.frame <= playing.frame
        BY <3>3, <4>2, <4>3, <4>4 DEF PositionsGrow, Along
      <4>6. ShownNext(published')
        BY <2>0, <3>3, <4>5 DEF ShownNext
      <4>7. ShownNext(playing')
        BY <1>0, <2>0, <3>3, <4>5 DEF ShownNext, SpotTyped
      <4> QED BY <4>1, <4>6, <4>7
    <3> QED BY <2>0, <2>2, <3>1, <3>2, <3>3 DEF UiShows
  <2> QED BY <2>1, <2>2
<1> QED BY <1>1, <1>2

-----------------------------------------------------------------------------
(* The end that was reported, and what the decoder told *)

SettledNext(a) == a.gen = generation' => a.ended /\ a.stream = currentId'
NothingMoreNext ==
  /\ decGeneration' < generation'
  /\ \A i \in 1..Len(commands') : IsRequest(commands'[i]) => commands'[i].gen < generation'
OverNext ==
  /\ currentId' # 0 /\ (complete'[currentId'] \/ currentId' \in Faulty)
  /\ currentId' \notin Undecodable /\ available'[currentId'] > 0
LEMMA FinishedNext ==
  ASSUME finishReported' =>
           /\ OverNext
           /\ SettledNext(snapshot') /\ SettledNext(published') /\ SettledNext(playing')
           /\ playing'.gen = generation' \/ NothingMoreNext
  PROVE  FinishedStays'
BY DEF FinishedStays, Settled, SettledNext, NothingMore, NothingMoreNext, IsRequest,
   CurrentOver, OverNext, MayBeOver, Openable

\* After the end nothing of this generation is asked for or played.
LEMMA FinishedOn ==
  ASSUME LineInv, EndsAreEnds, FinishedStays, [Next]_vars,
         finishReported, generation' = generation, currentId' = currentId
  PROVE  /\ SettledNext(playing') /\ (playing'.gen = generation \/ NothingMoreNext)
<1>0. /\ TypeOK /\ TypeOK' /\ UiConsistent /\ UiKnows /\ IdsTyped /\ LineTyped /\ LineTyped'
      /\ LineReads' /\ LineGrown
      /\ SpotTyped(playing) /\ SpotTyped(playing') /\ playing.gen <= playing'.gen
  BY TypeKept, IdsAreTyped, SpotTypes, SpotTypesNext, LineTypes, LineTypesNext, LineIsReadNext,
     LineGrows, PlayingAlong DEF LineInv, Known, Wiring
<1>1. /\ CurrentOver /\ Settled(playing)
      /\ playing.gen = generation \/ NothingMore
  BY DEF FinishedStays
<1>2. playing'.gen <= generation
  <2>1. 0 \in Line' /\ Item(0)'.gen = playing'.gen
    BY <1>0 DEF LineReads, LineTyped, Line
  <2> QED BY <2>1, LineIsOld
<1>3. SettledNext(playing')
  <2> SUFFICES ASSUME playing'.gen = generation
               PROVE  playing'.ended /\ playing'.stream = currentId
    BY DEF SettledNext
  <2>1. CASE playing' = playing
    BY <1>1, <2>1 DEF Settled
  <2>2. CASE /\ playing'.gen = playing.gen /\ playing'.stream = playing.stream /\ playing'.ended
    BY <1>1, <2>2 DEF Settled
  <2>3. CASE /\ 1 \in 1..Len(blocks) /\ playing'.gen = Item(1).gen
             /\ Item(1).gen = playing.gen => ~ playing.ended
    <3>1. 1 \in Line /\ Item(1).gen <= decGeneration
      BY <1>0, <2>3 DEF Line, LineTyped, LineGrown
    <3>2. ~ NothingMore
      BY <1>0, <2>3, <3>1 DEF NothingMore, IdsTyped
    <3>3. playing.gen = generation /\ playing.ended
      BY <1>1, <3>2 DEF Settled
    <3> QED BY <2>3, <3>3
  <2> QED BY <2>1, <2>2, <2>3, PlayingMoving DEF PlayingMoves
<1>4. CASE playing.gen = generation
  BY <1>0, <1>2, <1>3, <1>4 DEF SpotTyped, IdsTyped
<1>5. CASE NothingMore
  <2>1. CASE UiStep
    <3>1. UiSends /\ decGeneration' = decGeneration
      BY <1>0, <2>1, UiSending, UiFrame
    <3>2. ASSUME NEW i \in 1..Len(commands'), IsRequest(commands'[i])
          PROVE  commands'[i].gen < generation
      <4>1. CASE i <= Len(commands)
        <5>1. i \in 1..Len(commands) /\ commands'[i] = commands[i]
          BY <1>0, <3>1, <4>1, CommandTypes DEF UiSends
        <5> QED BY <1>5, <3>2, <5>1 DEF NothingMore
      <4>2. CASE i > Len(commands)
        <5>1. available[currentId] = 0
          BY <3>1, <3>2, <4>2 DEF UiSends
        <5> QED BY <1>1, <5>1 DEF CurrentOver, Openable
      <4>3. i \in Nat /\ Len(commands) \in Nat
        BY <1>0, CommandTypes
      <4> QED BY <4>1, <4>2, <4>3
    <3> QED BY <1>3, <1>5, <3>1, <3>2 DEF NothingMore, NothingMoreNext
  <2>2. CASE ApplyCommand
    <3>1. Applies /\ 1 \in 1..Len(commands)
          /\ \A i \in 1..Len(commands') : commands'[i] = commands[i + 1] /\ i + 1 \in 1..Len(commands)
      BY <1>0, <2>2, ApplyEffect, CommandTaken, CommandTypes
    <3>2. decGeneration' < generation
      BY <1>5, <3>1 DEF Applies, Starts0, Seeks, NothingMore, IsRequest
    <3> QED BY <1>3, <1>5, <3>1, <3>2 DEF NothingMore, NothingMoreNext
  <2>3. CASE Arrive \/ Step \/ Play \/ UNCHANGED vars
    <3>1. UNCHANGED <<decGeneration, commands>>
      BY <2>3, ArriveFrame, StepFrame, PlayFrame DEF decVars, vars
    <3> QED BY <1>3, <1>5, <3>1 DEF NothingMore, NothingMoreNext
  <2> QED BY <2>1, <2>2, <2>3, NextCases
<1> QED BY <1>1, <1>3, <1>4, <1>5

LEMMA FinishedKept ==
  ASSUME LineInv, EndsAreEnds, PositionsGrow, FinishedStays, UiRuns, [Next]_vars
  PROVE  FinishedStays'
<1>0. /\ TypeOK /\ TypeOK' /\ UiConsistent /\ UiKnows /\ IdsTyped /\ IdsTyped'
      /\ GenerationsInOrder
      /\ SpotTyped(playing) /\ SpotTyped(published) /\ SpotTyped(snapshot)
  BY TypeKept, IdsAreTyped, IdsAreTypedNext, SpotTypes DEF LineInv, Known, Wiring
<1>t. published' \in {published, playing} /\ snapshot' \in {snapshot, published, Silence}
  BY <1>0, ToldMoves
<1>c. CurrentOver /\ currentId' = currentId => OverNext
  <2> SUFFICES ASSUME CurrentOver, currentId' = currentId PROVE OverNext
    OBVIOUS
  <2>1. currentId \in StreamId /\ currentId # 0 /\ MayBeOver(currentId) /\ Openable(currentId)
    BY <1>0 DEF CurrentOver, IdsTyped
  <2>2. complete'[currentId] \/ currentId \in Faulty
    BY <1>0, <2>1, BytesStaying DEF BytesStay
  <2>3. currentId \notin Undecodable /\ available'[currentId] > 0
    BY <1>0, <2>1, OpenableStays DEF Openable
  <2> QED BY <2>1, <2>2, <2>3 DEF OverNext
<1>r. ASSUME currentId # 0, generation > 0, snapshot.gen = generation,
             MayBeOver(currentId) \/ snapshot.stream # currentId
      PROVE  CurrentOver
  <2>1. Reached(snapshot.stream)
    BY <1>r DEF LineInv, Streams, InGeneration
  <2> QED BY <1>r, <2>1 DEF Reached, CurrentOver
<1> SUFFICES ASSUME finishReported'
             PROVE  /\ OverNext
                    /\ SettledNext(snapshot') /\ SettledNext(published')
                    /\ SettledNext(playing')
                    /\ playing'.gen = generation' \/ NothingMoreNext
  BY FinishedNext
<1>1. CASE finishReported /\ generation' = generation /\ currentId' = currentId
  <2>1. /\ CurrentOver /\ currentId # 0
        /\ Settled(snapshot) /\ Settled(published) /\ Settled(playing)
    BY <1>1 DEF FinishedStays, CurrentOver
  <2>2. generation > 0
    BY <1>0, <2>1 DEF UiKnows
  <2>3. SettledNext(published') /\ SettledNext(snapshot')
    <3>1. SettledNext(published) /\ SettledNext(snapshot) /\ SettledNext(playing)
      BY <1>1, <2>1 DEF Settled, SettledNext
    <3>2. SettledNext(Silence)
      BY <1>1, <2>2 DEF SettledNext, Silence
    <3> QED BY <1>t, <3>1, <3>2
  <2>4. OverNext
    BY <1>1, <1>c, <2>1
  <2> QED BY <1>1, <2>1, <2>3, <2>4, FinishedOn
<1>2. CASE ~ UiStep
  <2>1. UNCHANGED <<finishReported, generation, currentId>>
    BY <1>2, NextCases, ArriveFrame, ApplyFrame, StepFrame, PlayFrame DEF uiVars, vars
  <2> QED BY <1>1, <2>1
<1>3. CASE UiStep
  <2>0. /\ UiFinishes /\ playing' = playing /\ published' = published
        /\ decGeneration' = decGeneration
    BY <1>0, <1>3, UiFrame, UiSeeing DEF UiSees
  <2>1. CASE /\ polling /\ snapshot' = Silence /\ UNCHANGED <<generation, currentId, commands>>
             /\ snapshot.gen = generation /\ snapshot.stream = currentId /\ snapshot.ended
    <3>1. currentId # 0 /\ generation > 0
      BY <2>1, PollHasStream
    <3>2. OverNext
      <4>1. MayBeOver(currentId)
        BY <2>1 DEF EndsAreEnds, PlayedOut
      <4> QED BY <1>c, <1>r, <2>1, <3>1, <4>1
    <3>3. published.gen = generation /\ playing.gen = generation
      BY <1>0, <2>1, SpotsInOrder DEF SpotTyped, IdsTyped
    <3>4. /\ published.ended /\ published.stream = currentId
          /\ playing.ended /\ playing.stream = currentId
      BY <2>1, <3>3 DEF PositionsGrow, Along
    <3>5. SettledNext(snapshot')
      BY <2>1, <3>1 DEF SettledNext, Silence
    <3> QED BY <2>0, <2>1, <3>1, <3>2, <3>3, <3>4, <3>5 DEF SettledNext
  <2>2. CASE /\ polling /\ snapshot' = Silence /\ UNCHANGED <<currentId, commands>>
             /\ generation' = generation + 1 /\ ~ finishReported
             /\ snapshot.gen = generation /\ snapshot.stream # currentId
    <3>1. currentId # 0 /\ generation > 0
      BY <2>2, PollHasStream
    <3>3. OverNext
      BY <1>c, <1>r, <2>2, <3>1
    <3>4. /\ SettledNext(snapshot') /\ SettledNext(published') /\ SettledNext(playing')
      <4>1. published.gen # generation' /\ playing.gen # generation' /\ 0 # generation'
        BY <1>0, <2>2, SpotsInOrder DEF SpotTyped, IdsTyped
      <4> QED BY <2>0, <2>2, <4>1 DEF SettledNext, Silence
    <3>5. NothingMoreNext
      <4>1. decGeneration < generation'
        BY <1>0, <2>2, SpotsInOrder DEF IdsTyped
      <4>2. ASSUME NEW i \in 1..Len(commands), IsRequest(commands[i])
            PROVE  commands[i].gen < generation'
        <5>1. commands[i].gen <= generation /\ commands[i].gen \in Nat
          BY <1>0, <4>2, OrderParts, CommandTypes DEF RequestsInOrder
        <5> QED BY <1>0, <2>2, <5>1 DEF IdsTyped
      <4> QED BY <2>0, <2>2, <4>1, <4>2 DEF NothingMoreNext
    <3> QED BY <2>2, <3>1, <3>3, <3>4, <3>5
  <2> QED BY <1>1, <2>0, <2>1, <2>2 DEF UiFinishes
<1> QED BY <1>2, <1>3

\* What a step of the decoder tells.
Telling(e) ==
  /\ events' = Append(events, e) /\ e.stream # 0
  /\ e.kind = "OpenFailed" =>
       OpenFails(e.stream) /\ (e.stream = decCurrent.stream \/ complete[e.stream])

LEMMA StepEvents == ASSUME TypeOK, Step PROVE events' = events \/ \E e \in Event : Telling(e)
<1>0. decCurrent.stream \in StreamId /\ decQueued \in StreamId
  BY IdsAreTyped DEF IdsTyped
<1>t. ASSUME NEW kind \in {"Opened", "OpenFailed"}, NEW s \in StreamId, s # 0
      PROVE  [kind |-> kind, stream |-> s] \in Event
  BY <1>t, EngineAssumption DEF Event, Stream, StreamId
<1>1. CASE Open
  <2>1. /\ decCurrent.stream # 0
        /\ \/ events' = events
           \/ events' = Append(events, [kind |-> "Opened", stream |-> decCurrent.stream])
           \/ /\ events' = Append(events, [kind |-> "OpenFailed", stream |-> decCurrent.stream])
              /\ OpenFails(decCurrent.stream)
    BY <1>1, OpenEffect, StepFrame DEF Writes
  <2>2. PICK e, f : /\ e = [kind |-> "Opened", stream |-> decCurrent.stream]
                    /\ f = [kind |-> "OpenFailed", stream |-> decCurrent.stream]
    OBVIOUS
  <2>3. e \in Event /\ f \in Event
    BY <1>0, <1>t, <2>1, <2>2
  <2> QED BY <2>1, <2>2, <2>3 DEF Telling
<1>2. CASE Chain
  <2>1. /\ decQueued # 0
        /\ \/ events' = Append(events, [kind |-> "Opened", stream |-> decQueued])
           \/ /\ events' = Append(events, [kind |-> "OpenFailed", stream |-> decQueued])
              /\ OpenFails(decQueued) /\ complete[decQueued]
    BY <1>2, ChainEffect DEF Chains
  <2>2. PICK e, f : /\ e = [kind |-> "Opened", stream |-> decQueued]
                    /\ f = [kind |-> "OpenFailed", stream |-> decQueued]
    OBVIOUS
  <2>3. e \in Event /\ f \in Event
    BY <1>0, <1>t, <2>1, <2>2
  <2> QED BY <2>1, <2>2, <2>3 DEF Telling
<1>3. CASE WriteMarker \/ Recover \/ SeekSource \/ DecodeBlock \/ EndStream
  BY <1>3 DEF WriteMarker, Recover, SeekSource, DecodeBlock, EndStream
<1> QED BY <1>1, <1>2, <1>3 DEF Step

LEMMA EventsMoving ==
  ASSUME TypeOK, UiConsistent, [Next]_vars
  PROVE  \/ events' = events \/ (UiStep /\ events' = <<>>)
         \/ Step /\ \E e \in Event : Telling(e)
<1>1. CASE UiStep
  BY <1>1, UiSeeing DEF UiSees, UiPolls
<1>2. CASE Arrive \/ ApplyCommand \/ Play \/ UNCHANGED vars
  BY <1>2, ArriveFrame, ApplyFrame, PlayFrame DEF vars
<1>3. CASE Step
  BY <1>3, StepEvents
<1> QED BY <1>1, <1>2, <1>3, NextCases

\* A stream that failed to open will not open later.
LEMMA FailuresKept ==
  ASSUME TypeOK, UiConsistent, Failures, [Next]_vars
  PROVE  Failures'
<1>0. events \in Seq(Event) /\ Len(events) \in Nat
  BY DEF TypeOK, ChannelType
<1> DEFINE FailedNext(s) ==
      (s \in Undecodable /\ available'[s] > 0) \/ (complete'[s] /\ available'[s] = 0)
<1>1. ASSUME NEW s \in StreamId, s # 0, OpenFails(s) PROVE FailedNext(s)
  <2>1. /\ complete[s] => complete'[s] /\ available'[s] = available[s]
        /\ available[s] <= available'[s] /\ available[s] \in Nat /\ available'[s] \in Nat
    BY <1>1, BytesStaying DEF BytesStay
  <2> QED BY <1>1, <2>1 DEF OpenFails
<1>3. \A i \in 1..Len(events) : events[i].stream \in StreamId /\ events[i].stream # 0
  <2>1. \A e \in Event : e.stream \in StreamId /\ e.stream # 0
    BY EngineAssumption DEF Event, Stream, StreamId
  <2>2. \A i \in 1..Len(events) : events[i] \in Event
    BY <1>0
  <2> QED BY <2>1, <2>2
<1> SUFFICES ASSUME NEW i \in 1..Len(events'), events'[i].kind = "OpenFailed"
             PROVE  FailedNext(events'[i].stream)
  BY DEF Failures, OpenFails
<1>4. ASSUME NEW k \in 1..Len(events), events[k].kind = "OpenFailed"
      PROVE  FailedNext(events[k].stream)
  <2>1. PICK s \in StreamId : s = events[k].stream /\ s # 0
    BY <1>3
  <2>2. OpenFails(s)
    BY <1>4, <2>1 DEF Failures
  <2> QED BY <1>1, <2>1, <2>2
<1> HIDE DEF FailedNext
<1>5. CASE events' = events
  BY <1>4, <1>5
<1>6. CASE events' = <<>>
  BY <1>6
<1>7. CASE \E e \in Event : Telling(e)
  <2>1. PICK e \in Event : Telling(e)
    BY <1>7
  <2>2. /\ Len(events') = Len(events) + 1
        /\ i <= Len(events) => i \in 1..Len(events) /\ events'[i] = events[i]
        /\ i > Len(events) => events'[i] = e
    BY <1>0, <2>1 DEF Telling
  <2>3. e.stream \in StreamId /\ e.stream # 0
    BY EngineAssumption DEF Event, Stream, StreamId
  <2>4. e.kind = "OpenFailed" => FailedNext(e.stream)
    BY <1>1, <2>1, <2>3 DEF Telling
  <2> QED BY <1>0, <1>4, <2>2, <2>4
<1> QED BY <1>5, <1>6, <1>7, EventsMoving


ReportedNext(s) == \E i \in 1..Len(events') : events'[i] = [kind |-> "Opened", stream |-> s]
KnowsNext(s) ==
  \/ decCurrent'.stream = s /\ decCurrent'.opened
  \/ chainedFrom'.stream = s \/ marker'.stream = s
  \/ \E i \in Line' : Item(i)'.stream = s
  \/ published'.stream = s \/ snapshot'.stream = s

LEMMA QueuedNext ==
  ASSUME queuedId' # 0 /\ KnowsNext(queuedId') => queuedFormat' \/ ReportedNext(queuedId')
  PROVE  QueuedIsKnown'
BY DEF QueuedIsKnown, Knows, KnowsNext, Reported, ReportedNext

LEMMA EventTold ==
  ASSUME TypeOK, NEW s, events' = Append(events, [kind |-> "Opened", stream |-> s])
  PROVE  ReportedNext(s)
<1>1. events \in Seq(Event)
  BY DEF TypeOK, ChannelType
<1>2. Len(events') = Len(events) + 1 /\ Len(events) \in Nat
      /\ events'[Len(events) + 1] = [kind |-> "Opened", stream |-> s]
  BY <1>1
<1>3. Len(events) + 1 \in 1..Len(events')
  BY <1>2
<1> QED BY <1>2, <1>3 DEF ReportedNext

LEMMA ReportStays ==
  ASSUME TypeOK, NEW s, Reported("Opened", s),
         events' = events \/ \E e \in Event : events' = Append(events, e)
  PROVE  ReportedNext(s)
<1>1. events \in Seq(Event) /\ Len(events) \in Nat
  BY DEF TypeOK, ChannelType
<1>2. PICK i \in 1..Len(events) : events[i] = [kind |-> "Opened", stream |-> s]
  BY DEF Reported
<1>3. i \in 1..Len(events') /\ events'[i] = events[i]
  <2>1. CASE events' = events
    BY <2>1
  <2>2. CASE \E e \in Event : events' = Append(events, e)
    BY <1>1, <2>2
  <2> QED BY <2>1, <2>2
<1> QED BY <1>2, <1>3 DEF ReportedNext

\* The decoder turns to a stream it did not know only as it tells of it.
LEMMA DecoderKnows ==
  ASSUME LineInv, [Next]_vars, NEW s \in Nat, s # 0, ~ Gone(s),
         (decCurrent'.stream = s /\ decCurrent'.opened) \/ chainedFrom'.stream = s
           \/ marker'.stream = s
  PROVE  Knows(s) \/ (Step /\ ReportedNext(s))
<1>0. TypeOK /\ ClearedAreGone /\ IdsTyped
  BY IdsAreTyped DEF LineInv, Known, Wiring
<1> USE DEF Knows
<1>1. CASE UiStep \/ Arrive \/ Play \/ UNCHANGED vars
  <2>1. UNCHANGED <<decCurrent, chainedFrom, marker>>
    BY <1>1, UiFrame, ArriveFrame, PlayFrame DEF decVars, vars
  <2> QED BY <2>1
<1>2. CASE ApplyCommand
  <2>0. Applies
    BY <1>0, <1>2, ApplyEffect
  <2>1. CASE commands[1].kind = "Start" /\ Starts0(commands[1])
    BY <2>1 DEF Starts0
  <2>2. CASE commands[1].kind = "Seek"
    <3>1. CASE UNCHANGED <<decGeneration, decCurrent, chainedFrom, decQueued, marker, decEnded>>
      BY <3>1
    <3>2. CASE Seeks(commands[1], decCurrent)
      BY <3>2 DEF Seeks
    <3>3. CASE Seeks(commands[1], chainedFrom)
      BY <3>3 DEF Seeks
    <3> QED BY <2>0, <2>2, <3>1, <3>2, <3>3 DEF Applies
  <2>3. CASE commands[1].kind = "ClearQueued"
    <3>1. Gone(commands[1].stream)
      <4>1. 1 \in 1..Len(commands)
        BY <1>0, <1>2, CommandTaken, CommandTypes
      <4> QED BY <1>0, <2>3, <4>1 DEF ClearedAreGone
    <3>2. CASE UNCHANGED <<decCurrent, chainedFrom, marker>>
      BY <3>2
    <3>3. CASE /\ chainedFrom.stream # 0 /\ marker'.stream = commands[1].stream
               /\ decCurrent' = chainedFrom /\ chainedFrom'.stream = 0
      BY <3>1, <3>3
    <3> QED BY <2>0, <2>3, <3>2, <3>3 DEF Applies
  <2>4. CASE commands[1].kind \in {"Queue", "Advanced", "Stop"}
    BY <2>0, <2>4 DEF Applies
  <2> QED BY <2>0, <2>1, <2>2, <2>3, <2>4 DEF Applies
<1>3. CASE Step
  <2>1. CASE WriteMarker
    BY <2>1 DEF WriteMarker, NoMarker
  <2>2. CASE Open
    BY <1>0, <1>3, <2>2, OpenEffect, EventTold DEF NoSource
  <2>3. CASE Recover
    BY <1>0, <2>3, RecoverEffect
  <2>4. CASE SeekSource
    BY <1>0, <2>4, SeekSourceEffect
  <2>5. CASE DecodeBlock
    BY <1>0, <2>5, DecodeEffect DEF Reads
  <2>6. CASE Chain
    BY <1>0, <1>3, <2>6, ChainEffect, EventTold DEF Chains
  <2>7. CASE EndStream
    BY <2>7 DEF EndStream, AtEnd, Ready
  <2> QED BY <1>3, <2>1, <2>2, <2>3, <2>4, <2>5, <2>6, <2>7 DEF Step
<1> QED BY <1>1, <1>2, <1>3, NextCases

LEMMA KnowsMoving ==
  ASSUME LineInv, [Next]_vars, NEW s \in Nat, s # 0, ~ Gone(s), KnowsNext(s)
  PROVE  Knows(s) \/ (Step /\ ReportedNext(s))
<1>0. TypeOK /\ UiConsistent /\ UiKnows /\ Items /\ LineReads /\ 0 \in Line
  BY LineIsRead, LineTypes DEF LineInv, Known, Wiring, Contiguous, LineTyped, Line
<1>1. CASE (decCurrent'.stream = s /\ decCurrent'.opened) \/ chainedFrom'.stream = s
             \/ marker'.stream = s
  BY <1>1, DecoderKnows
<1>2. CASE \E i \in Line' : Item(i)'.stream = s
  <2>1. PICK i \in Line' : Item(i)'.stream = s
    BY <1>2
  <2>2. CASE \E k \in Line : Item(i)'.stream = Item(k).stream
    BY <2>1, <2>2 DEF Knows
  <2>3. CASE Written(Item(i)')
    BY <2>1, <2>3 DEF Written, Knows
  <2> QED BY <1>0, <2>1, <2>2, <2>3, LineComes
<1>3. CASE published'.stream = s \/ snapshot'.stream = s
  <2>1. published' \in {published, playing} /\ snapshot' \in {snapshot, published, Silence}
    BY <1>0, ToldMoves
  <2>2. Silence.stream = 0 /\ playing.stream = Item(0).stream
    BY <1>0 DEF Silence, LineReads
  <2> QED BY <1>0, <1>3, <2>1, <2>2 DEF Knows
<1> QED BY <1>1, <1>2, <1>3 DEF KnowsNext

LEMMA KnownIsGiven ==
  ASSUME LineInv, NEW s, Knows(s)
  PROVE  s <= lastId
BY DEF LineInv, Wiring, IdsGiven, Knows

FailedToOpen(s) == \E i \in 1..Len(events') : events'[i] = [kind |-> "OpenFailed", stream |-> s]
LEMMA QueuedWholeNext ==
  ASSUME queuedId' # 0 =>
           /\ queuedId' \in {decCurrent'.stream, chainedFrom'.stream} => complete'[queuedId']
           /\ \A i \in 1..Len(commands') :
                IsRequest(commands'[i]) => commands'[i].stream # queuedId'
           /\ FailedToOpen(queuedId') => complete'[queuedId']
  PROVE  QueuedIsWhole'
BY DEF QueuedIsWhole, IsRequest, Reported, FailedToOpen

\* A queued stream is not yet asked for, and reaches the decoder by its chain only.
LEMMA QueuedIsWholeKept ==
  ASSUME LineInv, Failures, UiRuns, QueuedIsWhole, [Next]_vars
  PROVE  QueuedIsWhole'
<1>0. /\ TypeOK /\ UiConsistent /\ UiConsistent' /\ UiKnows /\ IdsTyped /\ IdsTyped' /\ IdsGiven
      /\ TypeOK'
  BY TypeKept, UiConsistentStep, IdsAreTyped, IdsAreTypedNext DEF LineInv, Known, Wiring
<1>e. events \in Seq(Event) /\ Len(events) \in Nat
  BY <1>0 DEF TypeOK, ChannelType
<1> SUFFICES ASSUME queuedId' # 0
             PROVE  /\ queuedId' \in {decCurrent'.stream, chainedFrom'.stream}
                         => complete'[queuedId']
                    /\ \A i \in 1..Len(commands') :
                         IsRequest(commands'[i]) => commands'[i].stream # queuedId'
                    /\ FailedToOpen(queuedId') => complete'[queuedId']
  BY QueuedWholeNext
<1>1. PICK s \in StreamId : s = queuedId' /\ s # 0 /\ s \in Nat
  BY <1>0 DEF IdsTyped
<1>2. complete[s] => complete'[s]
  BY <1>0, <1>1, BytesStaying DEF BytesStay
<1>3. ASSUME s = queuedId
      PROVE  /\ s \in {decCurrent.stream, chainedFrom.stream} => complete[s]
             /\ \A i \in 1..Len(commands) : IsRequest(commands[i]) => commands[i].stream # s
             /\ Reported("OpenFailed", s) => complete[s]
  BY <1>1, <1>3 DEF QueuedIsWhole
<1>4. CASE UiStep /\ ~ Step
  <2>0. /\ UNCHANGED <<decCurrent, chainedFrom>> /\ UiSends /\ UiQueues
        /\ events' = events \/ events' = <<>>
    BY <1>0, <1>4, UiFrame, UiSending, UiSeeing DEF UiSees, UiPolls, decVars
  <2>1. ASSUME NEW i \in 1..Len(commands'), IsRequest(commands'[i]), i > Len(commands)
        PROVE  commands'[i].stream # s
    <3>1. commands'[i].stream = currentId'
      BY <2>0, <2>1 DEF UiSends
    <3>2. currentId' < s
      BY <1>0, <1>1 DEF UiConsistent
    <3> QED BY <1>1, <3>1, <3>2
  <2>2. Len(commands) \in Nat /\ \A i \in 1..Len(commands) : commands'[i] = commands[i]
    BY <1>0, <2>0, CommandTypes DEF UiSends
  <2>3. FailedToOpen(s) => Reported("OpenFailed", s)
    BY <1>e, <2>0 DEF FailedToOpen, Reported
  <2>4. CASE s = queuedId
    <3>1. s \in {decCurrent'.stream, chainedFrom'.stream} => complete'[s]
      BY <1>2, <1>3, <2>0, <2>4
    <3>2. FailedToOpen(s) => complete'[s]
      BY <1>2, <1>3, <2>3, <2>4
    <3>3. ASSUME NEW i \in 1..Len(commands'), IsRequest(commands'[i])
          PROVE  commands'[i].stream # s
      <4>1. CASE i \in 1..Len(commands)
        BY <1>3, <2>2, <2>4, <3>3, <4>1
      <4> QED BY <2>1, <2>2, <3>3, <4>1
    <3> QED BY <1>1, <3>1, <3>2, <3>3
  <2>5. CASE s = lastId + 1
    <3>1. s \notin {decCurrent.stream, chainedFrom.stream}
      BY <1>0, <2>5 DEF IdsGiven, IdsTyped
    <3>2. ~ Reported("OpenFailed", s)
      <4> SUFFICES ASSUME Reported("OpenFailed", s) PROVE FALSE
        OBVIOUS
      <4>1. PICK i \in 1..Len(events) : events[i] = [kind |-> "OpenFailed", stream |-> s]
        BY DEF Reported
      <4>2. events[i].kind = "OpenFailed" /\ events[i].stream = s
        BY <4>1
      <4>3. OpenFails(s) /\ s \in Stream
        BY <1>1, <4>2, EngineAssumption DEF Failures, StreamId, Stream
      <4>4. s <= lastId
        BY <4>3 DEF OpenFails, UiRuns
      <4> QED BY <1>0, <2>5, <4>4 DEF IdsTyped
    <3>3. ASSUME NEW i \in 1..Len(commands'), IsRequest(commands'[i])
          PROVE  commands'[i].stream # s
      <4>1. CASE i \in 1..Len(commands)
        <5>1. commands'[i].stream <= lastId
          BY <1>0, <2>2, <4>1 DEF IdsGiven
        <5> QED BY <1>0, <2>5, <5>1 DEF IdsTyped
      <4> QED BY <2>1, <2>2, <3>3, <4>1
    <3> QED BY <1>1, <2>0, <2>3, <3>1, <3>2, <3>3
  <2> QED BY <1>1, <2>0, <2>4, <2>5 DEF UiQueues
<1>5. CASE ApplyCommand
  <2>1. /\ Applies /\ 1 \in 1..Len(commands) /\ UNCHANGED <<queuedId, events>>
        /\ \A i \in 1..Len(commands') :
             commands'[i] = commands[i + 1] /\ i + 1 \in 1..Len(commands)
    BY <1>0, <1>5, ApplyEffect, CommandTaken, CommandTypes, ApplyFrame DEF uiVars
  <2>2. s = queuedId
    BY <1>1, <2>1
  <2>3. /\ \/ decCurrent'.stream \in {0, decCurrent.stream, chainedFrom.stream}
           \/ IsRequest(commands[1]) /\ decCurrent'.stream = commands[1].stream
        /\ chainedFrom'.stream \in {0, chainedFrom.stream}
    BY <2>1 DEF Applies, Starts0, Seeks, IsRequest
  <2>4. s \in {decCurrent'.stream, chainedFrom'.stream} => complete'[s]
    BY <1>1, <1>2, <1>3, <2>1, <2>2, <2>3
  <2>5. FailedToOpen(s) => complete'[s]
    BY <1>2, <1>3, <2>1, <2>2 DEF FailedToOpen, Reported
  <2> QED BY <1>1, <1>3, <2>1, <2>2, <2>4, <2>5
<1>6. CASE Step
  <2>1. StepHolds /\ UNCHANGED <<queuedId, commands>>
    BY <1>0, <1>6, StepHolding, StepFrame DEF uiVars
  <2>2. s = queuedId
    BY <1>1, <2>1
  <2>3. s \in {decCurrent'.stream, chainedFrom'.stream} => complete'[s]
    BY <1>1, <1>2, <1>3, <2>2, <2>1 DEF StepHolds
  <2>4. FailedToOpen(s) => complete'[s]
    <3> SUFFICES ASSUME FailedToOpen(s) PROVE complete[s]
      BY <1>2
    <3>1. CASE events' = events
      BY <1>3, <2>2, <3>1 DEF FailedToOpen, Reported
    <3>2. CASE \E e \in Event : Telling(e)
      <4>1. PICK e \in Event : Telling(e)
        BY <3>2
      <4>2. PICK i \in 1..Len(events') : events'[i] = [kind |-> "OpenFailed", stream |-> s]
        BY DEF FailedToOpen
      <4>3. CASE i \in 1..Len(events)
        <5>1. events'[i] = events[i]
          BY <1>e, <4>1, <4>3 DEF Telling
        <5> QED BY <1>3, <2>2, <4>2, <4>3, <5>1 DEF Reported
      <4>4. CASE i \notin 1..Len(events)
        <5>1. events'[i] = e
          BY <1>e, <4>1, <4>2, <4>4 DEF Telling
        <5>2. e.kind = "OpenFailed" /\ e.stream = s
          BY <4>2, <5>1
        <5> QED BY <1>3, <2>2, <4>1, <5>2 DEF Telling
      <4> QED BY <4>3, <4>4
    <3> QED BY <1>0, <1>6, <3>1, <3>2, StepEvents
  <2> QED BY <1>1, <1>3, <2>1, <2>2, <2>3, <2>4
<1>7. CASE Arrive \/ Play \/ UNCHANGED vars
  <2>1. UNCHANGED <<queuedId, commands, events, decCurrent, chainedFrom>>
    BY <1>7, ArriveFrame, PlayFrame DEF uiVars, decVars, vars
  <2>2. FailedToOpen(s) => Reported("OpenFailed", s)
    BY <2>1 DEF FailedToOpen, Reported
  <2> QED BY <1>1, <1>2, <1>3, <2>1, <2>2
<1> QED BY <1>4, <1>5, <1>6, <1>7, NextCases

\* Of a queued stream that can be seen the format is known, or an event tells it.
LEMMA QueuedIsKnownKept ==
  ASSUME LineInv, QueuedIsKnown, [Next]_vars
  PROVE  QueuedIsKnown'
<1>0. TypeOK /\ UiConsistent /\ IdsTyped /\ TypeOK' /\ IdsTyped'
  BY TypeKept, IdsAreTyped, IdsAreTypedNext DEF LineInv, Known
<1> SUFFICES ASSUME queuedId' # 0, KnowsNext(queuedId')
             PROVE  queuedFormat' \/ ReportedNext(queuedId')
  BY QueuedNext
<1>1. PICK s \in Nat : s = queuedId' /\ s # 0 /\ KnowsNext(s)
  BY <1>0 DEF IdsTyped
<1>2. ASSUME s = queuedId PROVE ~ Gone(s)
  BY <1>2 DEF Gone
<1>3. CASE Step \/ Arrive \/ ApplyCommand \/ Play \/ UNCHANGED vars
  <2>1. UNCHANGED <<queuedId, queuedFormat>>
    BY <1>3, ArriveFrame, ApplyFrame, StepFrame, PlayFrame DEF uiVars, vars
  <2>2. Knows(s) \/ ReportedNext(s)
    BY <1>1, <1>2, <2>1, KnowsMoving
  <2>3. CASE Knows(s)
    <3>1. queuedFormat \/ Reported("Opened", s)
      BY <1>1, <2>1, <2>3 DEF QueuedIsKnown
    <3>2. events' = events \/ \E e \in Event : events' = Append(events, e)
      BY <1>0, <1>3, StepEvents, ArriveFrame, ApplyFrame, PlayFrame DEF Telling, vars
    <3>3. Reported("Opened", s) => ReportedNext(s)
      BY <1>0, <3>2, ReportStays
    <3> QED BY <1>1, <2>1, <3>1, <3>3
  <2> QED BY <1>1, <2>2, <2>3
<1>4. CASE UiStep /\ ~ Step
  <2>0. UiQueues
    BY <1>0, <1>4, UiSeeing DEF UiSees
  <2>1. s # lastId + 1
    <3>1. ASSUME s = lastId + 1 PROVE FALSE
      <4>1. ~ (s <= lastId)
        BY <1>0, <3>1 DEF IdsTyped
      <4>2. ~ Gone(s)
        BY <4>1 DEF Gone
      <4>3. Knows(s)
        BY <1>1, <1>4, <4>2, KnowsMoving
      <4> QED BY <4>1, <4>3, KnownIsGiven
    <3> QED BY <3>1
  <2>2. ASSUME queuedId' = queuedId PROVE queuedFormat \/ Reported("Opened", queuedId)
    BY <1>1, <1>2, <1>4, <2>2, KnowsMoving DEF QueuedIsKnown
  <2>3. CASE queuedId' = queuedId /\ queuedFormat' = queuedFormat /\ events' = events
    <3>1. Reported("Opened", s) => ReportedNext(s)
      BY <1>0, <2>3, ReportStays
    <3> QED BY <1>1, <2>2, <2>3, <3>1
  <2>4. CASE queuedId' = queuedId /\ (queuedFormat \/ Reported("Opened", queuedId) => queuedFormat')
    BY <2>2, <2>4
  <2> QED BY <1>1, <2>0, <2>1, <2>3, <2>4 DEF UiQueues
<1> QED BY <1>3, <1>4, NextCases

\* The engine plays once something of the current stream was seen.
UiPlays ==
  state' = "Playing" =>
    \/ state = "Playing" /\ currentId' = currentId
    \/ /\ UNCHANGED <<generation, currentId>> /\ currentId # 0
       /\ (snapshot.gen = generation \/ published.gen = generation
             \/ (blocks' # <<>> /\ blocks'[1].gen = generation))
    \/ /\ snapshot.gen = generation /\ snapshot.stream = queuedId
       /\ queuedId # 0 /\ currentId' = queuedId /\ queuedId # currentId

LEMMA UiPlaying == ASSUME TypeOK, UiConsistent, UiStep, polling => state # "Stopped" PROVE UiPlays
<1> USE DEF UiPlays, UiConsistent
<1>1. CASE PollCurrent
  BY <1>1 DEF PollCurrent, EventsHandled, EventsTaken
<1>2. CASE PollAdvanced
  BY <1>2 DEF PollAdvanced, QueuedAfterEvents
<1>3. CASE Resume
  BY <1>3 DEF Resume
<1>4. CASE Pause \/ Stop \/ PollUndecodable
  BY <1>4 DEF Pause, Stop, PollUndecodable, StopEngine
<1>5. CASE PollNothingPlayed \/ PollCleared
  BY <1>5 DEF PollNothingPlayed, PollCleared
<1>6. CASE QueueStream \/ ClearQueued \/ PlayQueuedNow \/ PositionSeconds \/ PollRead
  BY <1>6 DEF QueueStream, ClearQueued, PlayQueuedNow, PositionSeconds, PollRead
<1>7. ASSUME NEW f \in Targets, BeginStream(f) \/ Seek(f) PROVE UiPlays
  BY <1>7 DEF BeginStream, Seek
<1>8. ASSUME NEW n \in 0..MaxFrames, AttachSource(n) PROVE UiPlays
  BY <1>8 DEF AttachSource, uiVars
<1> QED BY <1>1, <1>2, <1>3, <1>4, <1>5, <1>6, <1>7, <1>8 DEF UiStep, Call, Poll

\* Bytes arrive only of a stream the UI holds.
LEMMA WholeIsGiven ==
  ASSUME TypeOK, UiConsistent, [Next]_vars, NEW s \in Stream, complete'[s] \/ available'[s] > 0
  PROVE  complete[s] \/ available[s] > 0 \/ s <= lastId
<1>0. complete \in [Stream -> BOOLEAN] /\ available \in [Stream -> Nat]
  BY DEF TypeOK, ByteType
<1>1. ASSUME NEW n \in 0..MaxFrames, AttachSource(n)
      PROVE  complete[s] \/ available[s] > 0 \/ s <= lastId
  BY <1>0, <1>1 DEF AttachSource, UiConsistent
<1>2. CASE UiStep /\ ~ \E n \in 0..MaxFrames : AttachSource(n)
  <2>1. UNCHANGED <<complete, available>>
    BY <1>2 DEF UiStep, Call, Poll, BeginStream, QueueStream, ClearQueued, PlayQueuedNow, Pause,
                Resume, Stop, StopEngine, PositionSeconds, Seek, PollRead, PollUndecodable,
                PollNothingPlayed, PollCurrent, PollAdvanced, PollCleared, EventsHandled,
                EventsTaken, byteVars
  <2> QED BY <2>1
<1>3. CASE Arrive
  <2>1. PICK t \in Stream : AppendData(t) \/ FinishData(t)
    BY <1>3 DEF Arrive
  <2>2. CASE AppendData(t)
    BY <1>0, <2>2 DEF AppendData, Held, UiConsistent
  <2>3. CASE FinishData(t)
    BY <1>0, <2>3 DEF FinishData, Held, UiConsistent
  <2> QED BY <2>1, <2>2, <2>3
<1>4. CASE ApplyCommand \/ Step \/ Play \/ UNCHANGED vars
  BY <1>4, ApplyFrame, StepFrame, PlayFrame DEF byteVars, vars
<1> QED BY <1>1, <1>2, <1>3, <1>4, NextCases

LEMMA UiRunsNext ==
  ASSUME state' = "Playing" => Openable(currentId)',
         polling' => state' # "Stopped", ~ polling' => snapshot' = Silence,
         \A s \in Stream : complete'[s] \/ available'[s] > 0 => s <= lastId'
  PROVE  UiRuns'
BY DEF UiRuns, Silence

\* While the state is Playing the current stream is one that opens.
LEMMA PlayingOpens ==
  ASSUME LineInv, UiRuns, [Next]_vars, state' = "Playing"
  PROVE  Openable(currentId)'
<1>0. TypeOK /\ UiConsistent /\ UiKnows /\ InGeneration /\ InGeneration' /\ IdsTyped
  BY IdsAreTyped, InGenerationKept DEF LineInv, Known, Wiring, Streams
<1>t. LineReads' /\ LineTyped'
  BY <1>0, TypeKept, LineIsReadNext, LineTypesNext
<1>1. ASSUME NEW s \in StreamId, s # 0, Openable(s), currentId' = s PROVE Openable(currentId)'
  <2>1. Openable(s)'
    BY <1>0, <1>1, OpenableStays
  <2> QED BY <1>1, <2>1 DEF Openable
<1>2. CASE state = "Playing" /\ currentId' = currentId
  <2>1. currentId # 0 /\ Openable(currentId) /\ currentId \in StreamId
    BY <1>0, <1>2 DEF UiRuns, UiConsistent, IdsTyped
  <2> QED BY <1>1, <1>2, <2>1
<1>3. CASE ~ UiStep
  <2>1. UNCHANGED <<state, currentId>>
    BY <1>3, NextCases, ArriveFrame, ApplyFrame, StepFrame, PlayFrame DEF uiVars, vars
  <2> QED BY <1>2, <2>1
<1>4. CASE UiStep
  <2>0. UiPlays /\ published' = published
    BY <1>0, <1>4, UiPlaying, UiFrame DEF UiRuns
  <2>1. CASE /\ snapshot.gen = generation /\ snapshot.stream = queuedId
             /\ queuedId # 0 /\ currentId' = queuedId /\ queuedId # currentId
    <3>1. Reached(snapshot.stream)
      BY <1>0, <2>1 DEF InGeneration, UiConsistent, UiKnows
    <3>2. Openable(queuedId) /\ queuedId \in StreamId
      BY <1>0, <2>1, <3>1 DEF Reached, IdsTyped
    <3> QED BY <1>1, <2>1, <3>2
  <2>2. CASE UNCHANGED <<generation, currentId>> /\ currentId # 0 /\ snapshot.gen = generation
    <3>1. Reached(snapshot.stream)
      BY <1>0, <2>2 DEF InGeneration, UiKnows
    <3>2. Openable(currentId) /\ currentId \in StreamId
      BY <1>0, <3>1 DEF Reached, IdsTyped
    <3> QED BY <1>1, <2>2, <3>2
  <2>3. CASE UNCHANGED <<generation, currentId>> /\ currentId # 0 /\ published.gen = generation
    <3>1. Reached(published.stream)
      BY <1>0, <2>3 DEF InGeneration, UiKnows
    <3>2. Openable(currentId) /\ currentId \in StreamId
      BY <1>0, <3>1 DEF Reached, IdsTyped
    <3> QED BY <1>1, <2>3, <3>2
  <2>4. CASE /\ UNCHANGED <<generation, currentId>> /\ currentId # 0
             /\ blocks' # <<>> /\ blocks'[1].gen = generation
    <3>1. \E i \in Line' : Item(i)'.gen = generation'
      <4>1. Len(blocks') \in Nat /\ Len(blocks') > 0
        BY <1>t, <2>4 DEF LineReads, LineTyped
      <4>2. 1 \in Line' /\ Item(1)'.gen = blocks'[1].gen
        BY <4>1 DEF Line, Item
      <4> QED BY <2>4, <4>2
    <3>2. \E s : Reached(s)'
      BY <1>0, <2>4, <3>1 DEF InGeneration, UiKnows
    <3> QED BY <3>2 DEF Reached
  <2> QED BY <1>2, <2>0, <2>1, <2>2, <2>3, <2>4 DEF UiPlays
<1> QED BY <1>3, <1>4

LEMMA UiRunsKept == ASSUME LineInv, UiRuns, [Next]_vars PROVE UiRuns'
<1>0. TypeOK /\ UiConsistent /\ UiKnows /\ IdsTyped /\ TypeOK' /\ IdsTyped'
  BY TypeKept, IdsAreTyped, IdsAreTypedNext DEF LineInv, Known, Wiring
<1>1. state' = "Playing" => Openable(currentId)'
  BY PlayingOpens
<1>2. (polling' => state' # "Stopped") /\ (~ polling' => snapshot' = Silence)
  <2>1. CASE UiStep
    <3>1. UiPolls
      BY <1>0, <2>1, UiSeeing DEF UiSees
    <3>2. polling' => state' # "Stopped"
      BY <3>1 DEF UiPolls, UiRuns
    <3>3. ~ polling' => snapshot' = Silence
      BY <3>1 DEF UiPolls, UiRuns
    <3> QED BY <3>2, <3>3
  <2>2. CASE ~ UiStep
    <3>1. UNCHANGED <<polling, state, snapshot>>
      BY <2>2, NextCases, ArriveFrame, ApplyFrame, StepFrame, PlayFrame DEF uiVars, vars
    <3> QED BY <3>1 DEF UiRuns
  <2> QED BY <2>1, <2>2
<1>3. ASSUME NEW s \in Stream, complete'[s] \/ available'[s] > 0 PROVE s <= lastId'
  <2>1. s <= lastId
    BY <1>0, <1>3, WholeIsGiven DEF UiRuns
  <2>2. lastId <= lastId'
    BY <1>0, UiMoving, NextCases, ArriveFrame, ApplyFrame, StepFrame, PlayFrame
       DEF UiMoves, uiVars, vars, IdsTyped
  <2>3. s \in Nat
    BY EngineAssumption DEF Stream
  <2> QED BY <1>0, <2>1, <2>2, <2>3 DEF IdsTyped
<1> QED BY <1>1, <1>2, <1>3, UiRunsNext

-----------------------------------------------------------------------------
(* The invariant *)

LEMMA SeenInit == Init => SeenInv
<1> SUFFICES ASSUME Init PROVE SeenInv
  OBVIOUS
<1>1. LineInv
  BY LineInit
<1>2. Len(blocks) = 0 /\ Len(commands) = 0 /\ Len(events) = 0
  BY DEF Init
<1>3. \A i \in Line : i = 0
  BY <1>2 DEF Line
<1>4. Item(0).gen = 0 /\ Item(0).stream = 0 /\ Item(0).end = FALSE
  BY DEF Item, Init, Silence
<1>5. Heeded
  <2>1. EndsAreEnds
    BY <1>3, <1>4 DEF EndsAreEnds, Init, NoMarker, Silence
  <2>2. EndIsLast
    BY DEF EndIsLast, Writes, Init, NoSource
  <2>3. FinishedStays
    BY DEF FinishedStays, Init
  <2> QED BY <2>1, <2>2, <2>3 DEF Heeded
<1>6. Ordered
  <2>1. PositionsGrow
    BY DEF PositionsGrow, Along, Init, Silence
  <2>2. StreamsGrow
    BY <1>3, <1>4 DEF StreamsGrow
  <2>3. AllAhead
    BY <1>3, <1>4 DEF AllAhead, Ahead, Init, NoMarker, Silence
  <2>4. ShownIsPlayed
    BY DEF ShownIsPlayed, Shown, Init, Silence
  <2> QED BY <2>1, <2>2, <2>3, <2>4 DEF Ordered
<1>7. Told
  <2>1. Failures
    BY <1>2 DEF Failures
  <2>2. QueuedIsKnown
    BY DEF QueuedIsKnown, Init
  <2>3. UiRuns
    BY DEF UiRuns, Init
  <2>4. QueuedIsWhole
    BY DEF QueuedIsWhole, Init
  <2> QED BY <2>1, <2>2, <2>3, <2>4 DEF Told
<1> QED BY <1>1, <1>5, <1>6, <1>7 DEF SeenInv

LEMMA SeenKept == SeenInv /\ [Next]_vars => SeenInv'
<1> SUFFICES ASSUME SeenInv, [Next]_vars PROVE SeenInv'
  OBVIOUS
<1>0. /\ LineInv /\ EndsAreEnds /\ EndIsLast /\ FinishedStays
      /\ PositionsGrow /\ StreamsGrow /\ AllAhead /\ ShownIsPlayed
      /\ Failures /\ QueuedIsWhole /\ QueuedIsKnown /\ UiRuns /\ TypeOK /\ UiConsistent
  BY DEF SeenInv, Heeded, Ordered, Told, LineInv, Known
<1>1. LineInv'
  BY <1>0, LineKept
<1>2. Heeded'
  BY <1>0, EndsKept, EndIsLastKept, FinishedKept DEF Heeded
<1>3. Ordered'
  BY <1>0, PositionsKept, StreamsKept, AllAheadKept, ShownKept DEF Ordered
<1>4. Told'
  BY <1>0, FailuresKept, QueuedIsWholeKept, QueuedIsKnownKept, UiRunsKept DEF Told
<1> QED BY <1>1, <1>2, <1>3, <1>4 DEF SeenInv

\* The UI's view of the sound (snapshot, published, playing) is always one
\* position at three moments, and every end, event and state it acts on is true.
THEOREM SeenCorrect == Spec => []SeenInv
BY SeenInit, SeenKept, PTL DEF Spec

\* The position shown of a stream never jumps back without a start or seek:
\* poll() and positionSeconds() take it from what the callback published.
LEMMA PositionStep ==
  ASSUME SeenInv, [Next]_vars, generation' = generation, currentId' = currentId
  PROVE  shownFrame <= shownFrame'
<1>0. TypeOK /\ UiConsistent /\ ShownIsPlayed /\ IdsTyped
  BY IdsAreTyped DEF SeenInv, Ordered, LineInv, Known
<1>1. shownFrame \in Nat
  BY <1>0 DEF IdsTyped
<1>2. CASE UiStep
  <2>1. UiShows
    BY <1>0, <1>2, UiSeeing DEF UiSees
  <2>2. CASE shownFrame' = shownFrame
    BY <1>1, <2>2
  <2>3. CASE /\ published.gen = generation /\ published.stream = currentId
             /\ shownFrame' = published.frame
    BY <1>0, <2>3 DEF ShownIsPlayed, Shown
  <2>4. CASE /\ snapshot.gen = generation /\ currentId' = snapshot.stream
             /\ shownFrame' = snapshot.frame
    BY <1>0, <2>4 DEF ShownIsPlayed, Shown
  <2> QED BY <2>1, <2>2, <2>3, <2>4 DEF UiShows
<1>3. CASE ~ UiStep
  <2>1. UNCHANGED shownFrame
    BY <1>3, NextCases, ArriveFrame, ApplyFrame, StepFrame, PlayFrame DEF uiVars, vars
  <2> QED BY <1>1, <2>1
<1> QED BY <1>2, <1>3

THEOREM PositionIsMonotonic == Spec => PositionMovesForward
<1>1. SeenInv /\ [Next]_vars =>
        [generation' = generation /\ currentId' = currentId => shownFrame <= shownFrame']_vars
  BY PositionStep
<1> QED BY <1>1, SeenCorrect, PTL DEF Spec, PositionMovesForward

\* trackFinished is reported of a stream that was played to where its sound is
\* over, or whose successor was already playing when it was dropped: then its
\* sound was over somewhere.
PlayedToItsEnd ==
  IF snapshot.stream = currentId THEN SoundOver(currentId, snapshot.frame)
  ELSE MayBeOver(currentId)

LEMMA FinishedStep ==
  ASSUME SeenInv, [Next]_vars, ~ finishReported, finishReported'
  PROVE  PlayedToItsEnd
<1>0. /\ LineInv /\ TypeOK /\ UiConsistent /\ EndsAreEnds /\ UiRuns /\ InGeneration
  BY DEF SeenInv, Heeded, Told, LineInv, Known, Streams
<1>1. UiStep
  BY NextCases, ArriveFrame, ApplyFrame, StepFrame, PlayFrame DEF uiVars, vars
<1>2. UiFinishes
  BY <1>0, <1>1, UiSeeing DEF UiSees
<1>3. currentId # 0 /\ generation > 0
  BY <1>0, <1>2, PollHasStream DEF UiFinishes
<1>4. CASE snapshot.stream = currentId /\ snapshot.ended
  BY <1>0, <1>4 DEF EndsAreEnds, PlayedOut, Gone, PlayedToItsEnd
<1>5. CASE snapshot.gen = generation /\ snapshot.stream # currentId
  <2>1. Reached(snapshot.stream)
    BY <1>0, <1>3, <1>5 DEF InGeneration
  <2> QED BY <1>5, <2>1 DEF Reached, PlayedToItsEnd
<1> QED BY <1>2, <1>4, <1>5 DEF UiFinishes

THEOREM FinishedIsPlayedOut == Spec => FinishedWasPlayedOut
<1>1. SeenInv /\ [Next]_vars =>
        [~ finishReported /\ finishReported' =>
           IF snapshot.stream = currentId THEN SoundOver(currentId, snapshot.frame)
           ELSE MayBeOver(currentId)]_vars
  BY FinishedStep DEF PlayedToItsEnd
<1> QED BY <1>1, SeenCorrect, PTL DEF Spec, FinishedWasPlayedOut

\* When trackAdvanced is reported the new track's format is known: the callback
\* can only have gone on into it after the decoder's event was on its way.
LEMMA AdvanceStep ==
  ASSUME SeenInv, [Next]_vars, currentId' # currentId, currentId' = queuedId,
         generation' = generation
  PROVE  sourceFormat'
<1>0. TypeOK /\ UiConsistent /\ QueuedIsKnown /\ generation \in Nat
  BY IdsAreTyped DEF SeenInv, Told, LineInv, Known, IdsTyped
<1>1. UiStep
  BY NextCases, ArriveFrame, ApplyFrame, StepFrame, PlayFrame DEF uiVars, vars
<1>2. generation # generation + 1
  BY <1>0
<1>3. PollAdvanced
  <2>1. ~ (\E f \in Targets : BeginStream(f) \/ Seek(f)) /\ ~ PlayQueuedNow /\ ~ Stop
    BY <1>2 DEF BeginStream, Seek, PlayQueuedNow, Stop, StopEngine, NewGeneration
  <2>2. ~ PollUndecodable
    BY <1>2 DEF PollUndecodable, StopEngine, NewGeneration
  <2>3. /\ ~ \E n \in 0..MaxFrames : AttachSource(n)
        /\ ~ QueueStream /\ ~ ClearQueued /\ ~ Pause /\ ~ Resume /\ ~ PositionSeconds
    BY DEF AttachSource, uiVars, QueueStream, ClearQueued, Pause, Resume, PositionSeconds
  <2>4. ~ PollRead /\ ~ PollNothingPlayed /\ ~ PollCurrent /\ ~ PollCleared
    BY DEF PollRead, PollNothingPlayed, PollCurrent, PollCleared
  <2> QED BY <1>1, <2>1, <2>2, <2>3, <2>4 DEF UiStep, Call, Poll
<1>4. /\ QueuedAfterEvents # 0 /\ snapshot.stream = QueuedAfterEvents
      /\ sourceFormat' = QueuedFormatAfterEvents
  BY <1>3 DEF PollAdvanced
<1>5. queuedId # 0 /\ snapshot.stream = queuedId
  BY <1>4 DEF QueuedAfterEvents
<1>6. queuedFormat \/ Reported("Opened", queuedId)
  BY <1>0, <1>5 DEF QueuedIsKnown, Knows
<1> QED BY <1>4, <1>6 DEF QueuedFormatAfterEvents

THEOREM AdvanceIsKnown == Spec => AdvanceKnowsFormat
<1>1. SeenInv /\ [Next]_vars =>
        [currentId' # currentId /\ currentId' = queuedId /\ generation' = generation
           => sourceFormat']_vars
  BY AdvanceStep
<1> QED BY <1>1, SeenCorrect, PTL DEF Spec, AdvanceKnowsFormat

-----------------------------------------------------------------------------
(* The engine keeps its contract: every step of the threads is one step of *)
(* EngineContract, or none that the caller sees.                           *)

Whole == {s \in Held : complete[s]}
GivenUp == currentId # 0 /\ lastId > (IF queuedId = 0 THEN currentId ELSE currentId + 1)
Contracted == Contract!Next \/ UNCHANGED <<Seen, lastId>>

View(st, cur, que, full, fin, up) ==
  [state |-> st, current |-> cur, queued |-> que, full |-> full, finished |-> fin, givenUp |-> up]

LEMMA SeenIs ==
  /\ Seen = View(state, currentId, queuedId, Whole, finishReported, GivenUp)
  /\ Seen' = View(state', currentId', queuedId', Whole', finishReported', GivenUp')
BY DEF Seen, Whole, GivenUp, View

LEMMA ViewFields ==
  ASSUME NEW st, NEW cur, NEW que, NEW full, NEW fin, NEW up, NEW e,
         e = View(st, cur, que, full, fin, up)
  PROVE  /\ e.state = st /\ e.current = cur /\ e.queued = que /\ e.full = full
         /\ e.finished = fin /\ e.givenUp = up
BY DEF View

LEMMA ViewStopped == Contract!StoppedEngine = View("Stopped", 0, 0, {}, FALSE, FALSE)
BY DEF Contract!StoppedEngine, View

LEMMA ViewBegun ==
  ASSUME NEW e, NEW id
  PROVE  Contract!Begun(e, id) = View("Buffering", id, 0, {}, FALSE, FALSE)
<1>1. ASSUME NEW n, n = Contract!Begun(e, id) PROVE n = View("Buffering", id, 0, {}, FALSE, FALSE)
  BY <1>1 DEF Contract!Begun, Contract!StoppedEngine, View
<1> QED BY <1>1

LEMMA ViewAttached ==
  ASSUME NEW st, NEW cur, NEW que, NEW full, NEW fin, NEW up, NEW e, 
         e = View(st, cur, que, full, fin, up)
  PROVE  Contract!Attached(e) = View(st, cur, que, full \cup {cur}, fin, up)
<1>1. ASSUME NEW n, n = Contract!Attached(e) PROVE n = View(st, cur, que, full \cup {cur}, fin, up)
  BY <1>1 DEF Contract!Attached, View
<1> QED BY <1>1

LEMMA ViewEnded ==
  ASSUME NEW st, NEW cur, NEW que, NEW full, NEW fin, NEW up, NEW e, NEW s, s \in {cur, que},
        
         e = View(st, cur, que, full, fin, up)
  PROVE  Contract!DataEnded(e, s) = View(st, cur, que, full \cup {s}, fin, up)
<1>1. ASSUME NEW n, n = Contract!DataEnded(e, s) PROVE n = View(st, cur, que, full \cup {s}, fin, up)
  BY <1>1 DEF Contract!DataEnded, View
<1> QED BY <1>1

LEMMA ViewPaused ==
  ASSUME NEW st, NEW cur, NEW que, NEW full, NEW fin, NEW up, NEW e, st \in {"Playing", "Buffering"},
        
         e = View(st, cur, que, full, fin, up)
  PROVE  Contract!PausedEngine(e) = View("Paused", cur, que, full, fin, up)
<1>1. ASSUME NEW n, n = Contract!PausedEngine(e) PROVE n = View("Paused", cur, que, full, fin, up)
  BY <1>1 DEF Contract!PausedEngine, View
<1> QED BY <1>1

LEMMA ViewResumed ==
  ASSUME NEW st, NEW cur, NEW que, NEW full, NEW fin, NEW up, NEW e, NEW audio \in BOOLEAN, st = "Paused",
        
         e = View(st, cur, que, full, fin, up)
  PROVE  Contract!Resumed(e, audio) = View(IF audio THEN "Playing" ELSE "Buffering", cur, que, full, fin, up)
<1>1. ASSUME NEW n, n = Contract!Resumed(e, audio) PROVE n = View(IF audio THEN "Playing" ELSE "Buffering", cur, que, full, fin, up)
  BY <1>1 DEF Contract!Resumed, View
<1> QED BY <1>1

LEMMA ViewHeard ==
  ASSUME NEW st, NEW cur, NEW que, NEW full, NEW fin, NEW up, NEW e, 
         e = View(st, cur, que, full, fin, up)
  PROVE  Contract!Heard(e) = View("Playing", cur, que, full, fin, up)
<1>1. ASSUME NEW n, n = Contract!Heard(e) PROVE n = View("Playing", cur, que, full, fin, up)
  BY <1>1 DEF Contract!Heard, View
<1> QED BY <1>1

LEMMA WholeIs ==
  /\ \A s : s \in Whole <=> s \in {currentId, queuedId} /\ s # 0 /\ complete[s]
  /\ \A s : s \in Whole' <=> s \in {currentId', queuedId'} /\ s # 0 /\ complete'[s]
BY DEF Whole, Held

Ids ==
  /\ lastId \in Nat /\ currentId \in Nat /\ queuedId \in Nat
  /\ currentId \in StreamId /\ queuedId \in StreamId
  /\ queuedId # 0 => queuedId = lastId /\ currentId # 0 /\ currentId < queuedId
  /\ currentId <= lastId /\ queuedId <= lastId
  /\ state = "Stopped" <=> currentId = 0
  /\ state \in {"Stopped", "Buffering", "Playing", "Paused"}
  /\ finishReported \in BOOLEAN
  /\ lastId < MaxStream => lastId + 1 \in Stream /\ ~ complete[lastId + 1]
  /\ complete \in [Stream -> BOOLEAN]

LEMMA IdsSeen == ASSUME SeenInv PROVE Ids
<1>1. TypeOK /\ UiConsistent /\ UiKnows /\ UiRuns /\ IdsTyped
  BY IdsAreTyped DEF SeenInv, Told, LineInv, Known, Wiring
<1>2. ASSUME lastId < MaxStream PROVE lastId + 1 \in Stream /\ ~ complete[lastId + 1]
  <2>1. lastId + 1 \in Stream /\ ~ (lastId + 1 <= lastId)
    BY <1>1, <1>2, EngineAssumption DEF IdsTyped, Stream
  <2> QED BY <1>1, <2>1 DEF UiRuns
<1>3. /\ state \in {"Stopped", "Buffering", "Playing", "Paused"} /\ finishReported \in BOOLEAN
      /\ complete \in [Stream -> BOOLEAN]
  BY <1>1 DEF TypeOK, UiType, ByteType
<1> QED BY <1>1, <1>2, <1>3 DEF Ids, IdsTyped, UiConsistent, UiKnows

LEMMA GivenUpIs ==
  ASSUME Ids
  PROVE  /\ currentId = 0 => ~ GivenUp
         /\ currentId # 0 /\ queuedId = 0 => (GivenUp <=> currentId < lastId)
         /\ queuedId # 0 => (GivenUp <=> currentId + 1 < lastId)
BY DEF Ids, GivenUp

LEMMA BeginSeen == ASSUME Ids, NEW f, BeginStream(f) PROVE Contracted
<1>1. /\ lastId' = lastId + 1 /\ currentId' = lastId + 1 /\ queuedId' = 0 /\ complete' = complete
      /\ state' = "Buffering" /\ finishReported' = FALSE /\ lastId < MaxStream
  BY DEF BeginStream, NewGeneration, byteVars
<1>2. Whole' = {}
  BY <1>1, WholeIs DEF Ids
<1>3. GivenUp' = FALSE
  BY <1>1 DEF GivenUp, Ids
<1>4. Seen' = Contract!Begun(Seen, lastId')
  BY <1>1, <1>2, <1>3, SeenIs, ViewBegun
<1> QED BY <1>1, <1>4 DEF Contracted, Contract!Next, Contract!BeginStream

LEMMA AttachSeen == ASSUME Ids, NEW frames, AttachSource(frames) PROVE Contracted
<1>1. /\ UNCHANGED <<lastId, currentId, queuedId, state, finishReported>>
      /\ currentId # 0 /\ queuedId = 0 /\ complete' = [complete EXCEPT ![currentId] = TRUE]
  BY DEF AttachSource, uiVars
<1>2. currentId \in Stream
  BY <1>1, EngineAssumption DEF Ids, StreamId, Stream
<1>3. complete'[currentId]
  BY <1>1, <1>2 DEF Ids
<1>4. Whole' = Whole \cup {currentId}
  BY <1>1, <1>3, WholeIs
<1>5. GivenUp' = GivenUp
  BY <1>1 DEF GivenUp
<1>6. Seen' = Contract!Attached(Seen)
  BY <1>1, <1>4, <1>5, SeenIs, ViewAttached
<1>7. Seen.current # 0 /\ Seen.queued = 0
  BY <1>1, SeenIs, ViewFields
<1> QED BY <1>1, <1>6, <1>7 DEF Contracted, Contract!Next, Contract!AttachSource, Contract!Become

LEMMA QueueSeen == ASSUME Ids, QueueStream PROVE Contracted
<1>1. /\ UNCHANGED <<currentId, state, finishReported, complete>> /\ currentId # 0
      /\ lastId < MaxStream /\ lastId' = lastId + 1 /\ queuedId' = lastId + 1
  BY DEF QueueStream, byteVars
<1>2. Whole' = Whole \ {queuedId}
  <2>1. ~ complete[lastId + 1] /\ currentId # queuedId
    BY <1>1 DEF Ids
  <2> QED BY <1>1, <2>1, WholeIs
<1>3. GivenUp' <=> GivenUp \/ queuedId # 0
  <2>1. GivenUp' <=> currentId + 1 < lastId + 1
    BY <1>1 DEF GivenUp, Ids
  <2> QED BY <1>1, <2>1, GivenUpIs DEF Ids
<1>4. Seen' = Contract!WithQueued(Seen, lastId', FALSE)
  <2>1. Contract!WithQueued(Seen, lastId', FALSE) = View(state, currentId, lastId', Whole \ {queuedId}, finishReported,
              GivenUp \/ queuedId # 0)
    <3>1. PICK g, f : g = GivenUp /\ f = finishReported
      OBVIOUS
    <3>2. Seen = View(state, currentId, queuedId, Whole, f, g)
      BY <3>1, SeenIs
    <3>3. ASSUME NEW n, n = Contract!WithQueued(Seen, lastId', FALSE) PROVE n = View(state, currentId, lastId', Whole \ {queuedId}, f, g \/ queuedId # 0)
      BY <3>2, <3>3 DEF Contract!WithQueued, Contract!QueueCleared, View
    <3> QED BY <3>1, <3>3
  <2>2. Seen' = View(state, currentId, lastId', Whole \ {queuedId}, finishReported,
              GivenUp \/ queuedId # 0)
    BY <1>1, <1>2, <1>3, SeenIs
  <2> QED BY <2>1, <2>2
<1>5. Seen.current # 0
  BY <1>1, SeenIs, ViewFields
<1> QED BY <1>1, <1>4, <1>5 DEF Contracted, Contract!Next, Contract!QueueStream

LEMMA SeenCleared ==
  Contract!QueueCleared(Seen) = View(state, currentId, 0, Whole \ {queuedId}, finishReported,
    GivenUp \/ queuedId # 0)
<1>1. PICK g, f : g = GivenUp /\ f = finishReported
  OBVIOUS
<1>2. Seen = View(state, currentId, queuedId, Whole, f, g)
  BY <1>1, SeenIs
<1>3. ASSUME NEW n, n = Contract!QueueCleared(Seen) PROVE n = View(state, currentId, 0, Whole \ {queuedId}, f, g \/ queuedId # 0)
  BY <1>2, <1>3 DEF Contract!QueueCleared, View
<1> QED BY <1>1, <1>3

LEMMA ClearSeen == ASSUME Ids, ClearQueued PROVE Contracted
<1>1. /\ UNCHANGED <<lastId, currentId, state, finishReported, complete>>
      /\ queuedId # 0 /\ queuedId' = 0
  BY DEF ClearQueued, byteVars
<1>2. Whole' = Whole \ {queuedId}
  BY <1>1, WholeIs DEF Ids
<1>3. GivenUp' <=> GivenUp \/ queuedId # 0
  BY <1>1 DEF GivenUp, Ids
<1>4. Seen' = Contract!QueueCleared(Seen)
  <2>1. Contract!QueueCleared(Seen)
         = View(state, currentId, 0, Whole \ {queuedId}, finishReported, GivenUp \/ queuedId # 0)
    BY SeenCleared
  <2>2. Seen' = View(state, currentId, 0, Whole \ {queuedId}, finishReported,
              GivenUp \/ queuedId # 0)
    BY <1>1, <1>2, <1>3, SeenIs
  <2> QED BY <2>1, <2>2
<1>5. Seen.queued # 0
  BY <1>1, SeenIs, ViewFields
<1> QED BY <1>1, <1>4, <1>5 DEF Contracted, Contract!Next, Contract!ClearQueued, Contract!Become

LEMMA QueuedNowSeen == ASSUME Ids, PlayQueuedNow PROVE Contracted
<1>1. /\ UNCHANGED <<lastId, complete>> /\ state' = "Buffering" /\ finishReported' = FALSE
      /\ queuedId # 0 /\ queuedId' = 0 /\ currentId' = queuedId
  BY DEF PlayQueuedNow, NewGeneration, byteVars
<1>2. Whole' = Whole \cap {queuedId}
  BY <1>1, WholeIs DEF Ids
<1>3. GivenUp' = FALSE
  BY <1>1 DEF GivenUp, Ids
<1>4. Seen' = Contract!QueuedPlaysNow(Seen)
  <2>1. Contract!QueuedPlaysNow(Seen) = View("Buffering", queuedId, 0, Whole \cap {queuedId}, FALSE, FALSE)
    <3>1. PICK g, f : g = GivenUp /\ f = finishReported
      OBVIOUS
    <3>2. Seen = View(state, currentId, queuedId, Whole, f, g)
      BY <3>1, SeenIs
    <3>3. ASSUME NEW n, n = Contract!QueuedPlaysNow(Seen) PROVE n = View("Buffering", queuedId, 0, Whole \cap {queuedId}, FALSE, FALSE)
      BY <3>2, <3>3 DEF Contract!QueuedPlaysNow, Contract!Begun, Contract!StoppedEngine, View
    <3> QED BY <3>1, <3>3
  <2>2. Seen' = View("Buffering", queuedId, 0, Whole \cap {queuedId}, FALSE, FALSE)
    BY <1>1, <1>2, <1>3, SeenIs
  <2> QED BY <2>1, <2>2
<1>5. Seen.queued # 0
  BY <1>1, SeenIs, ViewFields
<1> QED BY <1>1, <1>4, <1>5 DEF Contracted, Contract!Next, Contract!PlayQueuedNow, Contract!Become

LEMMA EndSeen == ASSUME Ids, NEW s \in Stream, FinishData(s) PROVE Contracted
<1>1. /\ UNCHANGED <<lastId, currentId, queuedId, state, finishReported>>
      /\ s \in {currentId, queuedId} /\ s # 0 /\ complete' = [complete EXCEPT ![s] = TRUE]
  BY DEF FinishData, uiVars, Held
<1>2. complete'[s] /\ \A t \in Stream : t # s => complete'[t] = complete[t]
  BY <1>1 DEF Ids
<1>3. Whole' = Whole \cup {s}
  <2>1. \A t \in {currentId, queuedId} : t # 0 => t \in Stream
    BY EngineAssumption DEF Ids, StreamId, Stream
  <2> QED BY <1>1, <1>2, <2>1, WholeIs
<1>4. GivenUp' = GivenUp
  BY <1>1 DEF GivenUp
<1>5. Seen' = Contract!DataEnded(Seen, s)
  BY <1>1, <1>3, <1>4, SeenIs, ViewEnded
<1>6. s \in {Seen.current, Seen.queued} \ {0}
  BY <1>1, SeenIs, ViewFields
<1> QED BY <1>1, <1>5, <1>6 DEF Contracted, Contract!Next, Contract!EndData, Contract!Become

\* Nothing the caller knows changes.
LEMMA SameSeen ==
  ASSUME UNCHANGED <<lastId, currentId, queuedId, state, finishReported, complete>>
  PROVE  Contracted
<1>1. Whole' = Whole /\ GivenUp' = GivenUp
  BY DEF Whole, Held, GivenUp
<1>2. Seen' = Seen
  BY <1>1, SeenIs
<1> QED BY <1>2 DEF Contracted

LEMMA PauseSeen == ASSUME Ids, Pause \/ Resume PROVE Contracted
<1>1. UNCHANGED <<lastId, currentId, queuedId, finishReported, complete>>
  BY DEF Pause, Resume, byteVars
<1>2. Whole' = Whole /\ GivenUp' = GivenUp
  BY <1>1 DEF Whole, Held, GivenUp
<1>3. CASE Pause
  <2>1. state \in {"Playing", "Buffering"} /\ state' = "Paused"
    BY <1>3 DEF Pause
  <2>2. Seen' = Contract!PausedEngine(Seen)
    BY <1>1, <1>2, <2>1, SeenIs, ViewPaused
  <2> QED BY <1>1, <2>2 DEF Contracted, Contract!Next, Contract!Pause, Contract!Become
<1>4. CASE Resume
  <2>1. PICK audio \in BOOLEAN : state' = IF audio THEN "Playing" ELSE "Buffering"
    BY <1>4 DEF Resume
  <2>2. state = "Paused"
    BY <1>4 DEF Resume
  <2>3. Seen' = Contract!Resumed(Seen, audio)
    BY <1>1, <1>2, <2>1, <2>2, SeenIs, ViewResumed
  <2>4. Seen.state = "Paused"
    BY <2>2, SeenIs, ViewFields
  <2> QED BY <1>1, <2>3, <2>4 DEF Contracted, Contract!Next, Contract!Resume, Contract!Become
<1> QED BY <1>3, <1>4

LEMMA StoppedSeen ==
  ASSUME StopEngine
  PROVE  Seen' = Contract!StoppedEngine /\ UNCHANGED lastId
<1>1. /\ UNCHANGED lastId /\ currentId' = 0 /\ queuedId' = 0 /\ state' = "Stopped"
      /\ finishReported' = FALSE
  BY DEF StopEngine, NewGeneration
<1>2. Whole' = {} /\ GivenUp' = FALSE
  BY <1>1 DEF Whole, Held, GivenUp
<1> QED BY <1>1, <1>2, SeenIs, ViewStopped

LEMMA SeekSeen == ASSUME Ids, NEW target, Seek(target) PROVE Contracted
<1>1. /\ UNCHANGED <<lastId, currentId, queuedId, state, complete>> /\ finishReported' = FALSE
      /\ currentId # 0
  BY DEF Seek, NewGeneration, byteVars
<1>2. Whole' = Whole /\ GivenUp' = GivenUp
  BY <1>1 DEF Whole, Held, GivenUp
<1>3. Seen' = Contract!Sought(Seen)
  <2>1. Contract!Sought(Seen) = View(state, currentId, queuedId, Whole, FALSE, GivenUp)
    <3>1. PICK g, f : g = GivenUp /\ f = finishReported
      OBVIOUS
    <3>2. Seen = View(state, currentId, queuedId, Whole, f, g)
      BY <3>1, SeenIs
    <3>3. ASSUME NEW n, n = Contract!Sought(Seen) PROVE n = View(state, currentId, queuedId, Whole, FALSE, g)
      BY <3>2, <3>3 DEF Contract!Sought, View
    <3> QED BY <3>1, <3>3
  <2>2. Seen' = View(state, currentId, queuedId, Whole, FALSE, GivenUp)
    BY <1>1, <1>2, SeenIs
  <2> QED BY <2>1, <2>2
<1>4. Seen.current # 0
  BY <1>1, SeenIs, ViewFields
<1> QED BY <1>1, <1>3, <1>4 DEF Contracted, Contract!Next, Contract!Seek, Contract!Become

-----------------------------------------------------------------------------
(* poll() and the contract *)

\* What one poll() finds of the queued stream, and does to it.
Polled ==
  {Seen} \cup (IF Contract!MayRefuseQueued(Seen) THEN {Contract!QueuedRefused(Seen)} ELSE {})

LEMMA PollBy ==
  ASSUME NEW e \in Polled, UNCHANGED lastId,
         \/ Contract!Polls(e) /\ Seen' = e
         \/ Contract!MayBeUndecodable(e) /\ Seen' = Contract!StoppedEngine
         \/ Contract!MayBeHeard(e) /\ Seen' = Contract!Heard(e)
         \/ Contract!MayFinish(e) /\ Seen' = Contract!Finished(e)
         \/ Contract!MayAdvance(e) /\ Seen' = Contract!Advanced(e)
  PROVE  Contracted
<1>1. Contract!Poll
  BY DEF Contract!Poll, Contract!Become, Polled
<1> QED BY <1>1 DEF Contracted, Contract!Next

\* A stream whose open failed has no sound, and is complete or no decoder opens it.
LEMMA FailedIsBad ==
  ASSUME TypeOK, Failures, NEW s, Reported("OpenFailed", s)
  PROVE  s # 0 /\ (complete[s] \/ s \in Bad) /\ ~ Openable(s)
<1>1. PICK i \in 1..Len(events) : events[i] = [kind |-> "OpenFailed", stream |-> s]
  BY DEF Reported
<1>2. events[i] \in Event /\ events[i].stream = s /\ events[i].kind = "OpenFailed"
  BY <1>1 DEF TypeOK, ChannelType
<1>3. s # 0 /\ s \in Stream
  BY <1>2, EngineAssumption DEF Event, Stream
<1>4. OpenFails(s) /\ available[s] \in Nat
  BY <1>2, <1>3 DEF Failures, TypeOK, ByteType
<1> QED BY <1>3, <1>4 DEF OpenFails, Openable, Bad

\* Where the current stream may be over the contract lets it have ended.
LEMMA EndIsSeen ==
  ASSUME NEW e, e.current # 0, complete[e.current] => e.current \in e.full,
         complete[e.current] \/ e.current \in Bad \/ MayBeOver(e.current)
  PROVE  Contract!MayHaveEnded(e)
BY DEF Contract!MayHaveEnded, Bad, MayBeOver

\* When the current stream and the state stay, what poll() finds is Seen with
\* or without the queued stream.
LEMMA PollFinds ==
  ASSUME Ids, TypeOK, Failures, QueuedIsWhole, state # "Stopped", QueuedKept,
         UNCHANGED <<lastId, currentId, complete>>
  PROVE  \E e \in Polled : e = View(state, currentId, queuedId', Whole', finishReported, GivenUp')
<1>1. CASE Reported("OpenFailed", queuedId)
  <2>1. queuedId # 0 /\ complete[queuedId] /\ queuedId' = 0
    BY <1>1, FailedIsBad DEF QueuedKept, QueuedAfterEvents, QueuedIsWhole
  <2>2. Contract!MayRefuseQueued(Seen)
    <3>1. queuedId \in Whole
      BY <2>1, WholeIs
    <3>2. Seen.state = state /\ Seen.queued = queuedId /\ Seen.full = Whole
      BY SeenIs, ViewFields
    <3> QED BY <3>1, <3>2 DEF Contract!MayRefuseQueued, Contract!Polls
  <2>3. Contract!QueueCleared(Seen) \in Polled
    BY <2>2 DEF Polled, Contract!QueuedRefused
  <2>4. Whole' = Whole \ {queuedId}
    BY <2>1, WholeIs DEF Ids
  <2>5. GivenUp' <=> GivenUp \/ queuedId # 0
    BY <2>1 DEF GivenUp, Ids
  <2> QED BY <2>1, <2>3, <2>4, <2>5, SeenCleared
<1>2. CASE ~ Reported("OpenFailed", queuedId)
  <2>1. queuedId' = queuedId
    BY <1>2 DEF QueuedKept, QueuedAfterEvents
  <2>2. Whole' = Whole /\ GivenUp' = GivenUp
    BY <2>1 DEF Whole, Held, GivenUp
  <2>3. Seen \in Polled
    BY DEF Polled
  <2> QED BY <2>1, <2>2, <2>3, SeenIs
<1> QED BY <1>1, <1>2

LEMMA UndecodableSeen == ASSUME Ids, TypeOK, Failures, UiRuns, PollUndecodable PROVE Contracted
<1>1. /\ currentId # 0 /\ ~ Openable(currentId)
      /\ complete[currentId] \/ currentId \in Bad
  BY FailedIsBad DEF PollUndecodable
<1>2. state \in {"Buffering", "Paused"}
  BY <1>1 DEF Ids, UiRuns
<1>3. /\ Seen.state = state /\ Seen.current = currentId
      /\ complete[currentId] => currentId \in Seen.full
  BY <1>1, SeenIs, ViewFields, WholeIs
<1>4. Contract!MayBeUndecodable(Seen)
  BY <1>1, <1>2, <1>3, EndIsSeen DEF Contract!MayBeUndecodable, Contract!Polls
<1>5. Seen' = Contract!StoppedEngine /\ UNCHANGED lastId
  BY StoppedSeen DEF PollUndecodable
<1>6. Seen \in Polled
  BY DEF Polled
<1> QED BY <1>4, <1>5, <1>6, PollBy

LEMMA NothingPlayedSeen ==
  ASSUME Ids, TypeOK, Failures, QueuedIsWhole, UiRuns, PollNothingPlayed
  PROVE  Contracted
<1>1. /\ UNCHANGED <<lastId, currentId, complete, state, finishReported>> /\ QueuedKept
      /\ state # "Stopped"
  BY DEF PollNothingPlayed, EventsHandled, EventsTaken, byteVars, UiRuns
<1>2. PICK e \in Polled : e = View(state, currentId, queuedId', Whole', finishReported, GivenUp')
  BY <1>1, PollFinds
<1>3. Seen' = e
  BY <1>1, <1>2, SeenIs
<1>4. Contract!Polls(e)
  BY <1>1, <1>2, ViewFields DEF Contract!Polls
<1> QED BY <1>1, <1>3, <1>4, PollBy

LEMMA CurrentSeen ==
  ASSUME Ids, TypeOK, Failures, QueuedIsWhole, UiRuns, EndsAreEnds, PollCurrent
  PROVE  Contracted
<1>1. /\ UNCHANGED <<lastId, currentId, complete>> /\ QueuedKept
      /\ state # "Stopped" /\ snapshot.stream = currentId
      /\ state' = (IF state = "Buffering" THEN "Playing" ELSE state)
      /\ finishReported' = (finishReported \/ (state = "Playing" /\ snapshot.ended))
  BY DEF PollCurrent, EventsHandled, EventsTaken, byteVars, UiRuns
<1>2. PICK e \in Polled : e = View(state, currentId, queuedId', Whole', finishReported, GivenUp')
  BY <1>1, PollFinds
<1>3. /\ e.state = state /\ e.current = currentId /\ e.full = Whole'
      /\ e.finished = finishReported
  BY <1>2, ViewFields
<1>4. CASE state = "Buffering"
  <2>1. state' = "Playing" /\ finishReported' = finishReported
    BY <1>1, <1>4 DEF Ids
  <2>2. Seen' = Contract!Heard(e)
    <3>1. Contract!Heard(e) = View("Playing", currentId, queuedId', Whole', finishReported, GivenUp')
      BY <1>2, ViewHeard
    <3> QED BY <1>1, <2>1, <3>1, SeenIs
  <2> QED BY <1>1, <1>3, <1>4, <2>2, PollBy DEF Contract!MayBeHeard
<1>5. CASE state # "Buffering" /\ finishReported' = finishReported
  <2>1. Seen' = e
    BY <1>1, <1>2, <1>5, SeenIs
  <2> QED BY <1>1, <1>3, <2>1, PollBy DEF Contract!Polls
<1>6. CASE state # "Buffering" /\ finishReported' # finishReported
  <2>1. state = "Playing" /\ snapshot.ended /\ ~ finishReported /\ finishReported' = TRUE
        /\ state' = state
    BY <1>1, <1>6 DEF Ids
  <2>2. Contract!MayHaveEnded(e)
    <3>1. currentId # 0 /\ MayBeOver(currentId)
      BY <1>1, <2>1 DEF EndsAreEnds, PlayedOut
    <3>2. complete[currentId] => currentId \in Whole'
      BY <1>1, <3>1, WholeIs
    <3> QED BY <1>3, <3>1, <3>2, EndIsSeen
  <2>3. Seen' = Contract!Finished(e)
    <3>1. PICK f, g : f = finishReported /\ g = GivenUp'
      OBVIOUS
    <3>2. e = View(state, currentId, queuedId', Whole', f, g)
      BY <1>2, <3>1
    <3>3. ASSUME NEW n, n = Contract!Finished(e)
          PROVE  n = View(state, currentId, queuedId', Whole', TRUE, g)
      BY <3>2, <3>3 DEF Contract!Finished, View
    <3> QED BY <1>1, <2>1, <3>1, <3>3, SeenIs
  <2>4. Contract!MayFinish(e)
    BY <1>1, <1>3, <2>1, <2>2 DEF Contract!MayFinish, Contract!Polls
  <2> QED BY <1>1, <2>3, <2>4, PollBy
<1> QED BY <1>4, <1>5, <1>6

LEMMA AdvancedSeen ==
  ASSUME Ids, LineInv, FinishedStays, UiRuns, PollAdvanced
  PROVE  Contracted
<1>1. /\ UNCHANGED <<lastId, complete, state>> /\ snapshot.gen = generation
      /\ snapshot.stream # currentId /\ snapshot.stream = queuedId /\ queuedId # 0
      /\ currentId' = queuedId /\ queuedId' = 0 /\ finishReported' = FALSE
      /\ state # "Stopped" /\ polling
  BY DEF PollAdvanced, EventsHandled, EventsTaken, byteVars, UiRuns, QueuedAfterEvents
<1>2. currentId # 0 /\ MayBeOver(currentId) /\ complete[queuedId]
  <2>1. Reached(snapshot.stream)
    BY <1>1, PollHasStream DEF LineInv, Streams, InGeneration
  <2> QED BY <1>1, <2>1 DEF Reached, FollowsWhole, Ids
<1>3. /\ queuedId \in Whole /\ Whole' = {queuedId}
      /\ complete[currentId] => currentId \in Whole
  BY <1>1, <1>2, WholeIs
<1>4. GivenUp' = FALSE
  BY <1>1 DEF GivenUp, Ids
<1>5. finishReported = FALSE
  BY <1>1 DEF FinishedStays, Settled, Ids
<1>6. Seen' = Contract!Advanced(Seen)
  <2>1. PICK f, g : f = finishReported /\ g = GivenUp
    OBVIOUS
  <2>2. Seen = View(state, currentId, queuedId, Whole, f, g)
    BY <2>1, SeenIs
  <2>3. ASSUME NEW n, n = Contract!Advanced(Seen)
        PROVE  n = View(state, queuedId, 0, {queuedId}, FALSE, FALSE)
    BY <2>2, <2>3 DEF Contract!Advanced, Contract!StoppedEngine, View
  <2>4. Seen' = View(state, queuedId, 0, {queuedId}, FALSE, FALSE)
    BY <1>1, <1>3, <1>4, SeenIs
  <2> QED BY <2>3, <2>4
<1>7. Contract!MayAdvance(Seen)
  <2>1. /\ Seen.state = state /\ Seen.current = currentId /\ Seen.queued = queuedId
        /\ Seen.full = Whole /\ ~ Seen.finished
    BY <1>5, SeenIs, ViewFields
  <2>2. Contract!MayHaveEnded(Seen)
    BY <1>2, <1>3, <2>1, EndIsSeen
  <2> QED BY <1>1, <1>3, <2>1, <2>2 DEF Contract!MayAdvance, Contract!Polls
<1>8. Seen \in Polled
  BY DEF Polled
<1> QED BY <1>1, <1>6, <1>7, <1>8, PollBy

LEMMA ClearedSeen ==
  ASSUME Ids, LineInv, AllAhead, Failures, QueuedIsWhole, UiRuns, PollCleared
  PROVE  Contracted
<1>0. TypeOK /\ SpotTyped(snapshot) /\ IdsGiven
  BY SpotTypes DEF LineInv, Known, Wiring
<1>1. /\ UNCHANGED <<lastId, currentId, complete, state>> /\ QueuedKept
      /\ state # "Stopped" /\ polling /\ snapshot.gen = generation
      /\ snapshot.stream # currentId /\ snapshot.stream # queuedId'
      /\ (finishReported => finishReported' = finishReported)
      /\ (~ finishReported => finishReported' = TRUE)
  BY DEF PollCleared, QueuedKept, EventsHandled, EventsTaken, byteVars, UiRuns
<1>2. PICK e \in Polled : e = View(state, currentId, queuedId', Whole', finishReported, GivenUp')
  BY <1>0, <1>1, PollFinds
<1>3. /\ e.state = state /\ e.current = currentId /\ e.full = Whole'
      /\ e.finished = finishReported /\ e.givenUp = GivenUp'
  BY <1>2, ViewFields
<1>4. CASE finishReported
  <2>1. Seen' = e
    BY <1>1, <1>2, <1>4, SeenIs
  <2> QED BY <1>1, <1>3, <2>1, PollBy DEF Contract!Polls
<1>5. CASE ~ finishReported
  <2>1. currentId # 0 /\ MayBeOver(currentId)
    <3>1. Reached(snapshot.stream)
      BY <1>1, PollHasStream DEF LineInv, Streams, InGeneration
    <3> QED BY <1>1, <3>1 DEF Reached
  <2>2. Contract!MayHaveEnded(e)
    <3>1. complete[currentId] => currentId \in Whole'
      BY <1>1, <2>1, WholeIs
    <3> QED BY <1>3, <2>1, <3>1, EndIsSeen
  <2>3. GivenUp'
    <3>1. currentId <= snapshot.stream /\ snapshot.stream <= lastId /\ snapshot.stream \in Nat
      BY <1>0, <1>1 DEF AllAhead, Ahead, IdsGiven, SpotTyped
    <3>2. queuedId' \in {0, queuedId}
      BY <1>1 DEF QueuedKept, QueuedAfterEvents
    <3>3. currentId < lastId /\ (queuedId' # 0 => currentId + 1 < lastId)
      BY <1>1, <3>1, <3>2 DEF Ids
    <3> QED BY <1>1, <2>1, <3>2, <3>3 DEF GivenUp, Ids
  <2>4. Seen' = Contract!Finished(e)
    <3>1. PICK f, g : f = finishReported /\ g = GivenUp'
      OBVIOUS
    <3>2. e = View(state, currentId, queuedId', Whole', f, g)
      BY <1>2, <3>1
    <3>3. ASSUME NEW n, n = Contract!Finished(e)
          PROVE  n = View(state, currentId, queuedId', Whole', TRUE, g)
      BY <3>2, <3>3 DEF Contract!Finished, View
    <3>4. finishReported' = TRUE
      BY <1>1, <1>5
    <3> QED BY <1>1, <3>1, <3>3, <3>4, SeenIs
  <2>5. Contract!MayFinish(e)
    BY <1>1, <1>3, <1>5, <2>2, <2>3 DEF Contract!MayFinish, Contract!Polls
  <2> QED BY <1>1, <2>4, <2>5, PollBy
<1> QED BY <1>4, <1>5

LEMMA ContractKept == ASSUME SeenInv, [Next]_vars PROVE Contracted
<1>0. /\ Ids /\ LineInv /\ TypeOK /\ EndsAreEnds /\ FinishedStays /\ AllAhead
      /\ Failures /\ QueuedIsWhole /\ UiRuns
  BY IdsSeen DEF SeenInv, Heeded, Ordered, Told, LineInv, Known
<1>1. CASE Call
  <2>1. ASSUME NEW f \in Targets, BeginStream(f) PROVE Contracted
    BY <1>0, <2>1, BeginSeen
  <2>2. ASSUME NEW n \in 0..MaxFrames, AttachSource(n) PROVE Contracted
    BY <1>0, <2>2, AttachSeen
  <2>3. CASE Stop
    <3>1. Seen' = Contract!StoppedEngine /\ UNCHANGED lastId
      BY <2>3, StoppedSeen DEF Stop
    <3> QED BY <3>1 DEF Contracted, Contract!Next, Contract!Stop, Contract!Become
  <2>4. CASE PositionSeconds
    BY <2>4, SameSeen DEF PositionSeconds, byteVars
  <2>5. ASSUME NEW f \in Targets, Seek(f) PROVE Contracted
    BY <1>0, <2>5, SeekSeen
  <2> QED BY <1>0, <1>1, <2>1, <2>2, <2>3, <2>4, <2>5, QueueSeen, ClearSeen, QueuedNowSeen,
             PauseSeen DEF Call
<1>2. CASE Arrive
  <2>1. PICK s \in Stream : AppendData(s) \/ FinishData(s)
    BY <1>2 DEF Arrive
  <2>2. CASE AppendData(s)
    BY <2>2, SameSeen DEF AppendData, uiVars
  <2> QED BY <1>0, <2>1, <2>2, EndSeen
<1>3. CASE PollRead
  BY <1>3, SameSeen DEF PollRead, byteVars
<1>4. CASE Poll
  BY <1>0, <1>4, UndecodableSeen, NothingPlayedSeen, CurrentSeen, AdvancedSeen, ClearedSeen
     DEF Poll
<1>5. CASE ApplyCommand \/ Step \/ Play \/ UNCHANGED vars
  BY <1>5, SameSeen, ApplyFrame, StepFrame, PlayFrame DEF uiVars, byteVars, vars
<1> QED BY <1>1, <1>2, <1>3, <1>4, <1>5, NextCases DEF UiStep

\* The engine keeps its contract: what its caller sees of it through the public
\* methods and poll(), whatever the decoder thread and the callback do in
\* between, is a behaviour of EngineContract.
THEOREM ContractHolds == Spec => KeepsContract
<1>1. Init => Contract!Init
  <2> SUFFICES ASSUME Init PROVE Contract!Init
    OBVIOUS
  <2>1. Whole = {} /\ GivenUp = FALSE
    BY DEF Init, Whole, Held, GivenUp
  <2>2. Seen = Contract!StoppedEngine
    BY <2>1, SeenIs, ViewStopped DEF Init
  <2> QED BY <2>2 DEF Init, Contract!Init
<1>2. SeenInv /\ [Next]_vars => [Contract!Next]_(Contract!vars)
  BY ContractKept DEF Contracted, Contract!vars
<1> QED BY <1>1, <1>2, SeenCorrect, PTL DEF Spec, KeepsContract, Contract!Spec
=============================================================================
