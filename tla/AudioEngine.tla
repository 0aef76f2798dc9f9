---------------------------- MODULE AudioEngine ----------------------------
(***************************************************************************)
(* The audio engine (src/audio): three threads that share no lock while    *)
(* audio plays.                                                            *)
(*                                                                         *)
(*   UI thread       every public method of AudioEngine and poll()         *)
(*   decoder thread  Decoder::run: applies commands, decodes into blocks   *)
(*   device thread   AudioEngine::Implementation::play, the callback       *)
(*                                                                         *)
(* UI -> decoder: commands.  Decoder -> UI: events.  Decoder -> callback:  *)
(* the block queue.  Callback -> UI: the published playback state.         *)
(* UI -> callback: the atomics generation and allowedNext.                 *)
(*                                                                         *)
(* Audio is counted in frames of a stream; a block carries at most         *)
(* BlockFrames of them.  The bytes of a stream are abstracted to the       *)
(* number of frames that have arrived; a complete stream has exactly the   *)
(* frames that arrived.  What a decoder cannot make sound of is a property *)
(* of the data: Undecodable and Faults.  Stream id 0 is "none", as in the  *)
(* code.                                                                   *)
(***************************************************************************)
EXTENDS Integers, Sequences

CONSTANTS
  MaxStream,    \* bound: ids ever given out
  MaxGen,       \* bound: generations the UI's callers may start
  MaxFrames,    \* bound: frames of a stream
  Targets,      \* the frames callers start at or seek to
  BlockFrames,  \* kBlockFrames
  Capacity,     \* blocks the block queue holds
  EndWait,      \* blocks still queued when the end marker may be written
  Undecodable,  \* ids of the streams no decoder opens
  Faults        \* <<stream, frame>> where the sound may be over before its
                \* bytes are: damage, a length the header tells, a frame that
                \* cannot be sought to.  A decoder may also get over it.

ASSUME EngineAssumption ==
  /\ MaxStream \in Nat \ {0} /\ MaxGen \in Nat \ {0} /\ MaxFrames \in Nat /\ Targets \subseteq Nat
  /\ BlockFrames \in Nat \ {0} /\ Capacity \in Nat \ {0} /\ EndWait \in Nat
  /\ Undecodable \subseteq 1..MaxStream /\ Faults \subseteq (1..MaxStream) \X Nat

VARIABLES
  \* UI thread
  state, currentId, queuedId, lastId, shownFrame, finishReported,
  sourceFormat,     \* sourceRate is known: its Opened event arrived
  queuedFormat,     \* the same of the queued stream
  polling, snapshot,\* inside poll(): the playback state it read
  device,           \* the device runs
  \* atomics the UI writes and the callback reads
  generation, allowedNext,
  \* bytes: what arrived of every stream
  available, complete,
  \* decoder thread; commands and events are shared under its mutex
  commands, events, decGeneration, decCurrent, chainedFrom, decQueued, marker,
  decEnded,
  \* block queue and device thread
  blocks, callback, callbackGen, playing, published, frontSeen, frontOffset,
  heard             \* the frames last handed to the device

uiVars == <<state, currentId, queuedId, lastId, shownFrame, finishReported,
            sourceFormat, queuedFormat, polling, snapshot, device, generation,
            allowedNext>>
byteVars == <<available, complete>>
decVars == <<decGeneration, decCurrent, chainedFrom, decQueued, marker, decEnded>>
queueVars == <<blocks, frontSeen>>
callbackVars == <<callback, callbackGen, playing, published, frontOffset, heard>>
vars == <<uiVars, byteVars, commands, events, decVars, queueVars, callbackVars>>

Stream == 1..MaxStream
StreamId == 0..MaxStream
Frame == Nat

NoFrame == -1
NoSource == [stream |-> 0, opened |-> FALSE, interrupted |-> FALSE,
             seekTo |-> NoFrame, nextFrame |-> 0, atEnd |-> FALSE]
NoMarker == [stream |-> 0, frame |-> 0]
Silence == [gen |-> 0, stream |-> 0, frame |-> 0, ended |-> FALSE]

Source == [stream : StreamId, opened : BOOLEAN, interrupted : BOOLEAN,
           seekTo : Frame \cup {NoFrame}, nextFrame : Frame, atEnd : BOOLEAN]
Marker == [stream : StreamId, frame : Frame]
Block == [gen : Nat, stream : Stream, frame : Frame, count : Nat, end : BOOLEAN]
Playback == [gen : Nat, stream : StreamId, frame : Frame, ended : BOOLEAN]
Command == [kind : {"Start", "Queue", "ClearQueued", "Seek", "Advanced", "Stop"},
            stream : StreamId, gen : Nat, frame : Frame]
Event == [kind : {"Opened", "OpenFailed"}, stream : Stream]
Sound == [gen : Nat, stream : StreamId, from : Frame, to : Frame]

Held == {currentId, queuedId} \ {0}   \* the keys of AudioEngine::streams

Older(a, b) == a < b

Init ==
  /\ state = "Stopped" /\ currentId = 0 /\ queuedId = 0 /\ lastId = 0
  /\ shownFrame = 0 /\ finishReported = FALSE
  /\ sourceFormat = FALSE /\ queuedFormat = FALSE
  /\ polling = FALSE /\ snapshot = Silence /\ device = FALSE
  /\ generation = 0 /\ allowedNext = 0
  /\ available = [s \in Stream |-> 0] /\ complete = [s \in Stream |-> FALSE]
  /\ commands = <<>> /\ events = <<>>
  /\ decGeneration = 0 /\ decCurrent = NoSource /\ chainedFrom = NoSource
  /\ decQueued = 0 /\ marker = NoMarker /\ decEnded = FALSE
  /\ blocks = <<>> /\ frontSeen = FALSE /\ frontOffset = 0
  /\ callback = "idle" /\ callbackGen = 0
  /\ playing = Silence /\ published = Silence
  /\ heard = [gen |-> 0, stream |-> 0, from |-> 0, to |-> 0]

-----------------------------------------------------------------------------
(* UI thread: helpers *)

\* Mutant: a command jumps the queue.
SendFirst(kind, stream, gen, frame) ==
  commands' = <<[kind |-> kind, stream |-> stream, gen |-> gen, frame |-> frame]>>
                \o commands

Send(kind, stream, gen, frame) ==
  commands' = Append(commands,
                [kind |-> kind, stream |-> stream, gen |-> gen, frame |-> frame])

\* newGeneration(frame); the width of the counter is abstracted.
NewGeneration(frame) ==
  /\ generation' = generation + 1
  /\ shownFrame' = frame
  /\ finishReported' = FALSE

\* dropStaleBlocks(): pops from the front while it is older than gen.
DropStaleBlocks(gen) ==
  \E n \in 0..Len(blocks) :
    /\ \A i \in 1..n : Older(blocks[i].gen, gen)
    /\ n < Len(blocks) => ~ Older(blocks[n + 1].gen, gen)
    /\ blocks' = SubSeq(blocks, n + 1, Len(blocks))
    /\ frontSeen' = (frontSeen /\ n = 0)

\* startDevice(): a device that does not run loses its stale blocks first.
StartDevice ==
  /\ device' = TRUE
  /\ IF device THEN UNCHANGED queueVars ELSE DropStaleBlocks(generation')

\* ma_device_stop() returns only once the callback is out of play().
DeviceCanStop == device => callback = "idle"

\* A public method runs on the UI thread, never inside poll().
UiFree == ~ polling
MayStartGeneration == generation < MaxGen

-----------------------------------------------------------------------------
(* UI thread: the public methods *)

\* beginStream(startSeconds)
BeginStream(start) ==
  /\ UiFree /\ MayStartGeneration /\ lastId < MaxStream
  /\ NewGeneration(start)
  /\ lastId' = lastId + 1 /\ currentId' = lastId' /\ queuedId' = 0
  /\ allowedNext' = 0 /\ sourceFormat' = FALSE /\ queuedFormat' = FALSE
  /\ Send("Start", currentId', generation', start)
  /\ StartDevice
  /\ state' = "Buffering"
  /\ UNCHANGED <<polling, snapshot, byteVars, events, decVars, callbackVars>>

\* attachSource(): a file, all there.  Player attaches before any byte of the
\* stream arrived, so the source it replaces has nothing in it.
AttachSource(frames) ==
  /\ UiFree /\ currentId # 0 /\ queuedId = 0
  /\ available[currentId] = 0 /\ ~ complete[currentId]
  /\ available' = [available EXCEPT ![currentId] = frames]
  /\ complete' = [complete EXCEPT ![currentId] = TRUE]
  /\ Send("Start", currentId, generation, shownFrame)
  /\ UNCHANGED <<uiVars, events, decVars, queueVars, callbackVars>>

\* queueStream(): it calls clearQueued() first, then takes the next id.
QueueStream ==
  /\ UiFree /\ currentId # 0 /\ lastId < MaxStream
  /\ lastId' = lastId + 1 /\ queuedId' = lastId' /\ allowedNext' = lastId'
  /\ queuedFormat' = FALSE
  /\ LET cleared == IF queuedId = 0 THEN <<>>
                    ELSE <<[kind |-> "ClearQueued", stream |-> queuedId,
                            gen |-> 0, frame |-> 0]>>
     IN commands' = commands \o cleared \o
          <<[kind |-> "Queue", stream |-> lastId', gen |-> 0, frame |-> 0]>>
  /\ UNCHANGED <<state, currentId, shownFrame, finishReported, sourceFormat,
                 polling, snapshot, device, generation,
                 byteVars, events, decVars, queueVars, callbackVars>>

ClearQueued ==
  /\ UiFree /\ queuedId # 0
  /\ queuedId' = 0 /\ allowedNext' = 0 /\ queuedFormat' = FALSE
  /\ Send("ClearQueued", queuedId, 0, 0)
  /\ UNCHANGED <<state, currentId, lastId, shownFrame, finishReported,
                 sourceFormat, polling, snapshot, device, generation,
                 byteVars, events, decVars, queueVars, callbackVars>>

\* Mutant: the callback may still go on to the stream that is current now.
PlayQueuedNowKeepsAllowed ==
  /\ UiFree /\ MayStartGeneration /\ queuedId # 0
  /\ currentId' = queuedId /\ queuedId' = 0 /\ allowedNext' = allowedNext
  /\ sourceFormat' = FALSE /\ queuedFormat' = FALSE
  /\ NewGeneration(0)
  /\ Send("Start", queuedId, generation', 0)
  /\ StartDevice
  /\ state' = "Buffering"
  /\ UNCHANGED <<lastId, polling, snapshot, byteVars, events, decVars, callbackVars>>

PlayQueuedNow ==
  /\ UiFree /\ MayStartGeneration /\ queuedId # 0
  /\ currentId' = queuedId /\ queuedId' = 0 /\ allowedNext' = 0
  /\ sourceFormat' = FALSE /\ queuedFormat' = FALSE
  /\ NewGeneration(0)
  /\ Send("Start", queuedId, generation', 0)
  /\ StartDevice
  /\ state' = "Buffering"
  /\ UNCHANGED <<lastId, polling, snapshot, byteVars, events, decVars, callbackVars>>

\* appendData() and finishData()/failData() reach the streams still held.
AppendData(s) ==
  /\ s \in Held /\ ~ complete[s] /\ available[s] < MaxFrames
  /\ available' = [available EXCEPT ![s] = @ + 1]
  /\ UNCHANGED <<complete, uiVars, commands, events, decVars, queueVars, callbackVars>>

FinishData(s) ==
  /\ s \in Held /\ ~ complete[s]
  /\ complete' = [complete EXCEPT ![s] = TRUE]
  /\ UNCHANGED <<available, uiVars, commands, events, decVars, queueVars, callbackVars>>

Pause ==
  /\ UiFree /\ state \in {"Playing", "Buffering"} /\ DeviceCanStop
  /\ device' = FALSE
  /\ DropStaleBlocks(generation)
  /\ state' = "Paused"
  /\ UNCHANGED <<currentId, queuedId, lastId, shownFrame, finishReported,
                 sourceFormat, queuedFormat, polling, snapshot, generation,
                 allowedNext, byteVars, commands, events, decVars, callbackVars>>

Resume ==
  /\ UiFree /\ state = "Paused"
  /\ DropStaleBlocks(generation)
  /\ LET played == published.gen = generation
         ready == blocks' # <<>> /\ blocks'[1].gen = generation
     IN state' = IF played \/ ready THEN "Playing" ELSE "Buffering"
  /\ device' = TRUE
  /\ UNCHANGED <<currentId, queuedId, lastId, shownFrame, finishReported,
                 sourceFormat, queuedFormat, polling, snapshot, generation,
                 allowedNext, byteVars, commands, events, decVars, callbackVars>>

\* What stop() does, from a caller or from poll().
StopEngine ==
  /\ DeviceCanStop
  /\ NewGeneration(0)
  /\ Send("Stop", 0, 0, 0)
  /\ currentId' = 0 /\ queuedId' = 0 /\ allowedNext' = 0
  /\ sourceFormat' = FALSE /\ queuedFormat' = FALSE
  /\ device' = FALSE
  /\ DropStaleBlocks(generation')
  /\ state' = "Stopped"
  /\ UNCHANGED <<lastId, byteVars, decVars, callbackVars>>

Stop ==
  /\ UiFree /\ MayStartGeneration
  /\ StopEngine
  /\ UNCHANGED <<polling, snapshot, events>>

\* seek(seconds): the target is not clamped to the track.
Seek(target) ==
  /\ UiFree /\ MayStartGeneration /\ currentId # 0
  /\ NewGeneration(target)
  /\ Send("Seek", currentId, generation', target)
  /\ IF device THEN UNCHANGED queueVars ELSE DropStaleBlocks(generation')
  /\ UNCHANGED <<state, currentId, queuedId, lastId, sourceFormat, queuedFormat,
                 polling, snapshot, device, allowedNext,
                 byteVars, events, decVars, callbackVars>>

\* positionSeconds(): a read that remembers what it showed.
PositionSeconds ==
  /\ UiFree /\ currentId # 0
  /\ published.gen = generation /\ published.stream = currentId
  /\ shownFrame' = published.frame
  /\ UNCHANGED <<state, currentId, queuedId, lastId, finishReported, sourceFormat,
                 queuedFormat, polling, snapshot, device, generation, allowedNext,
                 byteVars, commands, events, decVars, queueVars, callbackVars>>

-----------------------------------------------------------------------------
(* UI thread: poll(), every 100 ms unless stopped.  The playback state is  *)
(* read before the events; the other threads may move in between.          *)

PollRead ==
  /\ ~ polling /\ state # "Stopped"
  /\ polling' = TRUE /\ snapshot' = published
  /\ UNCHANGED <<state, currentId, queuedId, lastId, shownFrame, finishReported,
                 sourceFormat, queuedFormat, device, generation, allowedNext,
                 byteVars, commands, events, decVars, queueVars, callbackVars>>

Reported(kind, s) == \E i \in 1..Len(events) : events[i] = [kind |-> kind, stream |-> s]

\* What poll()'s loop over takeEvents() leaves of the queued stream.
QueuedAfterEvents == IF Reported("OpenFailed", queuedId) THEN 0 ELSE queuedId
CurrentFormatAfterEvents == sourceFormat \/ Reported("Opened", currentId)
\* Mutant: the events of this poll are looked at only after the advance.
QueuedFormatBeforeEvents == QueuedAfterEvents # 0 /\ queuedFormat

QueuedFormatAfterEvents ==
  QueuedAfterEvents # 0 /\ (queuedFormat \/ Reported("Opened", queuedId))

EventsTaken ==
  /\ polling /\ polling' = FALSE /\ snapshot' = Silence
  /\ events' = <<>>
  /\ UNCHANGED <<lastId, byteVars, decVars, callbackVars>>

\* OpenFailed of the current stream: the engine stops and reports it.
PollUndecodable ==
  /\ polling /\ Reported("OpenFailed", currentId)
  /\ StopEngine
  /\ polling' = FALSE /\ snapshot' = Silence /\ events' = <<>>

EventsHandled ==
  /\ ~ Reported("OpenFailed", currentId)
  /\ EventsTaken
  /\ UNCHANGED <<device, queueVars>>

QueuedKept ==
  /\ queuedId' = QueuedAfterEvents
  /\ allowedNext' = IF QueuedAfterEvents = queuedId THEN allowedNext ELSE 0
  /\ queuedFormat' = QueuedFormatAfterEvents
  /\ sourceFormat' = CurrentFormatAfterEvents

\* The callback plays no block of the current start or seek yet.
PollNothingPlayed ==
  /\ EventsHandled /\ QueuedKept
  /\ snapshot.gen # generation
  /\ UNCHANGED <<state, currentId, shownFrame, finishReported, generation, commands>>

\* It plays the current stream: Buffering ends, or the track's end is reported.
PollCurrent ==
  /\ EventsHandled /\ QueuedKept
  /\ snapshot.gen = generation /\ snapshot.stream = currentId
  /\ shownFrame' = snapshot.frame
  /\ state' = IF state = "Buffering" THEN "Playing" ELSE state
  /\ finishReported' = (finishReported \/ (state = "Playing" /\ snapshot.ended))
  /\ UNCHANGED <<currentId, generation, commands>>

\* It has gone on into the queued stream: trackAdvanced.
PollAdvanced ==
  /\ EventsHandled
  /\ snapshot.gen = generation /\ snapshot.stream # currentId
  /\ QueuedAfterEvents # 0 /\ snapshot.stream = QueuedAfterEvents
  /\ currentId' = queuedId /\ queuedId' = 0 /\ allowedNext' = 0
  /\ sourceFormat' = QueuedFormatAfterEvents /\ queuedFormat' = FALSE
  /\ shownFrame' = snapshot.frame /\ finishReported' = FALSE
  /\ Send("Advanced", queuedId, 0, 0)
  /\ UNCHANGED <<state, generation>>

\* It had gone on into a stream cleared meanwhile: trackFinished, once.
PollCleared ==
  /\ EventsHandled /\ QueuedKept
  /\ snapshot.gen = generation /\ snapshot.stream \notin {currentId, QueuedAfterEvents}
  /\ IF finishReported
       THEN UNCHANGED <<generation, shownFrame, finishReported>>
       ELSE generation' = generation + 1 /\ finishReported' = TRUE /\ UNCHANGED shownFrame
  /\ UNCHANGED <<state, currentId, commands>>

Poll == PollUndecodable \/ PollNothingPlayed \/ PollCurrent \/ PollAdvanced \/ PollCleared

-----------------------------------------------------------------------------
(* Decoder thread.  run() swaps out the waiting commands and applies them, *)
(* then takes one step.  Here it applies one command at a time and may     *)
(* step in between: that is a step begun before the next command was sent. *)

\* A waiting Start, Seek or Stop interrupts every read of the decoder.
Urgent == \E i \in 1..Len(commands) : commands[i].kind \in {"Start", "Seek", "Stop"}

NewSource(s, frame) ==
  [NoSource EXCEPT !.stream = s, !.nextFrame = frame,
                   !.seekTo = IF frame > 0 THEN frame ELSE NoFrame]

Apply(kind) ==
  /\ commands # <<>> /\ Head(commands).kind = kind
  /\ commands' = Tail(commands)
  /\ UNCHANGED <<uiVars, byteVars, events, queueVars, callbackVars>>

ApplyStart ==
  /\ Apply("Start")
  /\ LET c == Head(commands) IN
       /\ decGeneration' = c.gen
       /\ decCurrent' = NewSource(c.stream, c.frame)
  /\ chainedFrom' = NoSource /\ decQueued' = 0 /\ marker' = NoMarker /\ decEnded' = FALSE

ApplyQueue ==
  /\ Apply("Queue")
  /\ decQueued' = Head(commands).stream
  /\ UNCHANGED <<decGeneration, decCurrent, chainedFrom, marker, decEnded>>

\* Mutant: the end marker carries the id of the track that ends.
ApplyClearQueuedMarksCurrent ==
  /\ Apply("ClearQueued")
  /\ LET s == Head(commands).stream
         chained == chainedFrom.stream # 0 /\ decCurrent.stream = s
     IN IF decQueued = s
          THEN decQueued' = 0 /\ UNCHANGED <<decCurrent, chainedFrom, marker>>
          ELSE /\ marker' = IF chained THEN [stream |-> chainedFrom.stream, frame |-> 0]
                                       ELSE marker
               /\ decCurrent' = IF chained THEN chainedFrom ELSE decCurrent
               /\ chainedFrom' = IF chained THEN NoSource ELSE chainedFrom
               /\ UNCHANGED decQueued
  /\ UNCHANGED <<decGeneration, decEnded>>

ApplyClearQueued ==
  /\ Apply("ClearQueued")
  /\ LET s == Head(commands).stream
         chained == chainedFrom.stream # 0 /\ decCurrent.stream = s
     IN IF decQueued = s
          THEN decQueued' = 0 /\ UNCHANGED <<decCurrent, chainedFrom, marker>>
          ELSE /\ marker' = IF chained THEN [stream |-> s, frame |-> 0] ELSE marker
               /\ decCurrent' = IF chained THEN chainedFrom ELSE decCurrent
               /\ chainedFrom' = IF chained THEN NoSource ELSE chainedFrom
               /\ UNCHANGED decQueued
  /\ UNCHANGED <<decGeneration, decEnded>>

\* Seek in the track the UI shows: a chained stream goes back to the queue.
ApplySeek ==
  /\ Apply("Seek")
  /\ LET c == Head(commands)
         undo == chainedFrom.stream # 0 /\ chainedFrom.stream = c.stream
         source == IF undo THEN chainedFrom ELSE decCurrent
     IN IF decCurrent.stream = 0 \/ source.stream # c.stream
          THEN UNCHANGED decVars
          ELSE /\ decQueued' = IF undo THEN decCurrent.stream ELSE decQueued
               /\ decGeneration' = c.gen
               /\ decCurrent' = [source EXCEPT !.seekTo = c.frame, !.atEnd = FALSE]
               /\ chainedFrom' = NoSource /\ marker' = NoMarker /\ decEnded' = FALSE

ApplyAdvanced ==
  /\ Apply("Advanced")
  /\ chainedFrom' = IF decCurrent.stream = Head(commands).stream THEN NoSource ELSE chainedFrom
  /\ UNCHANGED <<decGeneration, decCurrent, decQueued, marker, decEnded>>

ApplyStop ==
  /\ Apply("Stop")
  /\ decCurrent' = NoSource /\ chainedFrom' = NoSource
  /\ decQueued' = 0 /\ marker' = NoMarker /\ decEnded' = FALSE
  /\ UNCHANGED decGeneration

ApplyCommand == ApplyStart \/ ApplyQueue \/ ApplyClearQueued \/ ApplySeek
                  \/ ApplyAdvanced \/ ApplyStop

\* step(): its early returns, in order.
Stepping ==
  /\ decCurrent.stream # 0 /\ ~ decEnded
  /\ UNCHANGED <<uiVars, byteVars, commands, frontSeen, callbackVars>>
Working == Stepping /\ marker.stream = 0
Ready == Working /\ decCurrent.opened /\ ~ decCurrent.interrupted

\* Mutant: back() is off by one at a full queue.
HasSpaceOffByOne == Len(blocks) <= Capacity

HasSpace == Len(blocks) < Capacity   \* BlockQueue::back() returns a slot
Push(block) == blocks' = Append(blocks, block)

\* Mutant: the decoder opens a stream only beyond its first frame.
OpenSucceedsLate(s) == s \notin Undecodable /\ available[s] > 1

\* How reading the head of a stream can end, with what has arrived of it.  An
\* empty one does not open.
OpenSucceeds(s) == s \notin Undecodable /\ available[s] > 0
OpenFails(s) ==
  \/ s \in Undecodable /\ available[s] > 0
  \/ complete[s] /\ available[s] = 0

WriteMarker ==
  /\ Stepping /\ marker.stream # 0 /\ HasSpace
  /\ Push([gen |-> decGeneration, stream |-> marker.stream, frame |-> marker.frame,
           count |-> 0, end |-> TRUE])
  /\ marker' = NoMarker /\ decEnded' = TRUE
  /\ UNCHANGED <<events, decGeneration, decCurrent, chainedFrom, decQueued>>

Open ==
  /\ Working /\ ~ decCurrent.opened
  /\ \/ /\ Urgent
        /\ decCurrent' = [decCurrent EXCEPT !.interrupted = TRUE]
        /\ UNCHANGED events
     \/ /\ ~ Urgent /\ OpenSucceeds(decCurrent.stream)
        /\ decCurrent' = [decCurrent EXCEPT !.opened = TRUE, !.interrupted = FALSE]
        /\ events' = Append(events, [kind |-> "Opened", stream |-> decCurrent.stream])
     \/ /\ ~ Urgent /\ OpenFails(decCurrent.stream)
        /\ decCurrent' = NoSource
        /\ events' = Append(events, [kind |-> "OpenFailed", stream |-> decCurrent.stream])
  /\ UNCHANGED <<blocks, decGeneration, chainedFrom, decQueued, marker, decEnded>>

\* An interrupted source is closed and seeks back to where it was.
Recover ==
  /\ Working /\ decCurrent.opened /\ decCurrent.interrupted
  /\ decCurrent' = [decCurrent EXCEPT !.opened = FALSE,
                      !.seekTo = IF @ = NoFrame THEN decCurrent.nextFrame ELSE @]
  /\ UNCHANGED <<blocks, events, decGeneration, chainedFrom, decQueued, marker, decEnded>>

Interrupted ==
  /\ Urgent
  /\ decCurrent' = [decCurrent EXCEPT !.interrupted = TRUE]
  /\ UNCHANGED blocks

\* Mutant: a read does not wait, so an underrun looks like the end.
ReadsAtOnce(upTo) == TRUE

\* waitFor(): a read waits for its bytes, or for the last ones.
ReadReturns(upTo) == available[decCurrent.stream] >= upTo \/ complete[decCurrent.stream]

\* A failed seek ends the source at its target: past the last frame, or at a fault.
SeekSource ==
  /\ Ready /\ decCurrent.seekTo # NoFrame
  /\ \/ Interrupted
     \/ LET target == decCurrent.seekTo
            s == decCurrent.stream
        IN \E failed \in BOOLEAN :
             /\ \/ ReadReturns(target) /\ failed = (target > available[s])
                \/ <<s, target>> \in Faults /\ failed
             /\ decCurrent' = [decCurrent EXCEPT !.seekTo = NoFrame, !.nextFrame = target,
                                                 !.atEnd = failed]
             /\ UNCHANGED blocks
  /\ UNCHANGED <<events, decGeneration, chainedFrom, decQueued, marker, decEnded>>

\* A read from frame `from` of stream s gives count frames: a whole block, or
\* those up to a fault or to the last one.
Gives(s, from, count) ==
  LET to == from + count IN
  /\ count > 0 => to <= available[s]
  /\ \A f \in (from + 1)..(to - 1) : <<s, f>> \notin Faults
  /\ \/ count = BlockFrames
     \/ <<s, to>> \in Faults
     \/ to >= available[s] /\ ReadReturns(from + BlockFrames)

\* decodeBlock(): miniaudio tells the end of a stream, or an error, with its last
\* frames, when they fill no whole block, or with the read after them.
DecodeBlock ==
  /\ Ready /\ decCurrent.seekTo = NoFrame /\ ~ decCurrent.atEnd
  /\ HasSpace
  /\ \/ Interrupted
     \/ \E count \in 0..BlockFrames, last \in BOOLEAN :
          /\ Gives(decCurrent.stream, decCurrent.nextFrame, count)
          /\ last => count < BlockFrames
          /\ count = 0 => last
          /\ IF count = 0 THEN UNCHANGED blocks
             ELSE Push([gen |-> decGeneration, stream |-> decCurrent.stream,
                        frame |-> decCurrent.nextFrame, count |-> count, end |-> FALSE])
          /\ decCurrent' = [decCurrent EXCEPT !.nextFrame = @ + count, !.atEnd = last]
  /\ UNCHANGED <<events, decGeneration, chainedFrom, decQueued, marker, decEnded>>

AtEnd == Ready /\ decCurrent.seekTo = NoFrame /\ decCurrent.atEnd
\* Mutant: a stream still arriving is chained, too.
MayChainIncomplete == chainedFrom.stream = 0 /\ decQueued # 0
MayChain == chainedFrom.stream = 0 /\ decQueued # 0 /\ complete[decQueued]

\* Only a complete stream is chained.  Interrupted, it stays queued.
Chain ==
  /\ AtEnd /\ MayChain /\ ~ Urgent
  /\ \/ /\ OpenSucceeds(decQueued)
        /\ chainedFrom' = decCurrent
        /\ decCurrent' = [NewSource(decQueued, 0) EXCEPT !.opened = TRUE]
        /\ events' = Append(events, [kind |-> "Opened", stream |-> decQueued])
     \/ /\ OpenFails(decQueued)
        /\ events' = Append(events, [kind |-> "OpenFailed", stream |-> decQueued])
        /\ UNCHANGED <<chainedFrom, decCurrent>>
  /\ decQueued' = 0
  /\ UNCHANGED <<blocks, decGeneration, marker, decEnded>>

EndStream ==
  /\ AtEnd /\ ~ MayChain /\ Len(blocks) <= EndWait
  /\ marker' = [stream |-> decCurrent.stream, frame |-> decCurrent.nextFrame]
  /\ UNCHANGED <<blocks, events, decGeneration, decCurrent, chainedFrom, decQueued, decEnded>>

Step == WriteMarker \/ Open \/ Recover \/ SeekSource \/ DecodeBlock \/ Chain \/ EndStream

-----------------------------------------------------------------------------
(* Device thread: play(), one block per action.  The callback ends when    *)
(* its buffer is full, which is after any number of frames here.           *)

InCallback == UNCHANGED <<uiVars, byteVars, commands, events, decVars>>

CallbackStart ==
  /\ device /\ callback = "idle"
  /\ callback' = "running" /\ callbackGen' = generation
  /\ UNCHANGED <<playing, published, frontOffset, heard, queueVars>>
  /\ InCallback

PopFront == blocks' = Tail(blocks) /\ frontSeen' = FALSE

DropOlder ==
  /\ callback = "running" /\ blocks # <<>>
  /\ Older(blocks[1].gen, callbackGen)
  /\ PopFront
  /\ UNCHANGED <<callbackVars>>
  /\ InCallback

\* Mutant: the offset is kept for whatever block comes to the front.
OffsetKept == frontOffset

Offset == IF frontSeen THEN frontOffset ELSE 0   \* frontIndex: reset by any pop

\* Mutant: the callback goes on into any stream.
RefusedOnlyAfterEnd(block) == block.gen = playing.gen /\ playing.ended

\* A block the callback may not go on to: the track has ended.
Refused(block) ==
  /\ block.gen = playing.gen
  /\ playing.ended \/ block.stream \notin {playing.stream, allowedNext}

Refuse ==
  /\ callback = "running" /\ blocks # <<>>
  /\ ~ Older(blocks[1].gen, callbackGen) /\ Refused(blocks[1])
  /\ playing' = [playing EXCEPT !.ended = TRUE]
  /\ callback' = "ending"
  /\ frontSeen' = TRUE /\ frontOffset' = Offset
  /\ UNCHANGED <<blocks, callbackGen, published, heard>>
  /\ InCallback

PlayBlock ==
  /\ callback = "running" /\ blocks # <<>>
  /\ ~ Older(blocks[1].gen, callbackGen) /\ ~ Refused(blocks[1])
  /\ LET block == blocks[1] IN
     \E upTo \in Offset..block.count :
       LET whole == upTo = block.count IN
       /\ upTo > Offset \/ whole
       /\ playing' = [gen |-> block.gen, stream |-> block.stream,
                      frame |-> block.frame + upTo, ended |-> whole /\ block.end]
       /\ frontOffset' = upTo
       /\ IF whole THEN PopFront ELSE frontSeen' = TRUE /\ UNCHANGED blocks
       /\ heard' = IF upTo = Offset THEN heard
                   ELSE [gen |-> block.gen, stream |-> block.stream,
                         from |-> block.frame + Offset, to |-> block.frame + upTo]
       /\ callback' \in IF whole /\ ~ block.end THEN {"running", "ending"} ELSE {"ending"}
  /\ UNCHANGED <<callbackGen, published>>
  /\ InCallback

CallbackEnd ==
  /\ callback = "ending" \/ (callback = "running" /\ blocks = <<>>)
  /\ callback' = "idle" /\ published' = playing
  /\ UNCHANGED <<callbackGen, playing, frontOffset, heard, queueVars>>
  /\ InCallback

Play == CallbackStart \/ DropOlder \/ Refuse \/ PlayBlock \/ CallbackEnd

-----------------------------------------------------------------------------
Call ==
  \/ \E f \in Targets : BeginStream(f)
  \/ \E n \in 0..MaxFrames : AttachSource(n)
  \/ QueueStream \/ ClearQueued \/ PlayQueuedNow
  \/ Pause \/ Resume \/ Stop \/ PositionSeconds
  \/ \E f \in Targets : Seek(f)

Arrive == \E s \in Stream : AppendData(s) \/ FinishData(s)

Next == Call \/ Arrive \/ PollRead \/ Poll \/ ApplyCommand \/ Step \/ Play

Spec == Init /\ [][Next]_vars

\* Player's timer polls, miniaudio calls back while the device runs, and the
\* decoder thread runs.  Strong for poll(): ma_device_stop(), which it may
\* reach, waits for the callback and lets no other in.  Nothing
\* makes callers call or bytes arrive.
Fairness ==
  /\ WF_vars(PollRead) /\ SF_vars(Poll)
  /\ WF_vars(ApplyCommand) /\ WF_vars(Step) /\ WF_vars(Play)

FairSpec == Spec /\ Fairness

-----------------------------------------------------------------------------
(* Properties *)

\* Every variable has its type, and the block queue never overflows.
UiType ==
  /\ state \in {"Stopped", "Buffering", "Playing", "Paused"}
  /\ currentId \in StreamId /\ queuedId \in StreamId /\ lastId \in StreamId
  /\ shownFrame \in Frame /\ finishReported \in BOOLEAN
  /\ sourceFormat \in BOOLEAN /\ queuedFormat \in BOOLEAN
  /\ polling \in BOOLEAN /\ snapshot \in Playback /\ device \in BOOLEAN
  /\ generation \in Nat /\ allowedNext \in StreamId
ByteType == available \in [Stream -> Nat] /\ complete \in [Stream -> BOOLEAN]
ChannelType == commands \in Seq(Command) /\ events \in Seq(Event)
DecoderType ==
  /\ decGeneration \in Nat /\ decCurrent \in Source /\ chainedFrom \in Source
  /\ decQueued \in StreamId /\ marker \in Marker /\ decEnded \in BOOLEAN
QueueType == blocks \in Seq(Block) /\ Len(blocks) <= Capacity /\ frontSeen \in BOOLEAN
CallbackType ==
  /\ callback \in {"idle", "running", "ending"} /\ callbackGen \in Nat
  /\ playing \in Playback /\ published \in Playback
  /\ frontOffset \in Nat /\ heard \in Sound
TypeOK == UiType /\ ByteType /\ ChannelType /\ DecoderType /\ QueueType /\ CallbackType

\* The UI's view agrees with what it told the other threads: the callback may
\* go on only to the queued stream, a queued stream follows a current one and
\* is younger, no stream is stopped, and nothing plays while paused or stopped.
UiConsistent ==
  /\ allowedNext = queuedId
  /\ queuedId # 0 => currentId # 0 /\ currentId < queuedId
  /\ currentId <= lastId /\ queuedId <= lastId
  /\ state = "Stopped" <=> currentId = 0
  /\ device <=> state \in {"Playing", "Buffering"}

\* "Older blocks are never heard": generations only grow along the way from
\* the UI over the commands, the decoder and the queue to the callback, so the
\* sound never returns to an earlier start or seek.
GenerationsInOrder ==
  /\ \A i, j \in 1..Len(blocks) : i <= j => blocks[i].gen <= blocks[j].gen
  /\ \A i \in 1..Len(blocks) : playing.gen <= blocks[i].gen /\ blocks[i].gen <= decGeneration
  /\ playing.gen <= decGeneration /\ published.gen <= playing.gen
  /\ \A i \in 1..Len(commands) :
       commands[i].kind \in {"Start", "Seek"} =>
         /\ decGeneration <= commands[i].gen /\ commands[i].gen <= generation
         /\ \A j \in 1..i : commands[j].kind \in {"Start", "Seek"} =>
              commands[j].gen <= commands[i].gen
  /\ decGeneration <= generation

\* Where a stream's sound may be over: at the last frame of a complete one, or at
\* a fault.  Never where the next frame has just not arrived.
SoundOver(s, frame) == (complete[s] /\ available[s] <= frame) \/ <<s, frame>> \in Faults

Faulty == {fault[1] : fault \in Faults}
MayBeOver(s) == complete[s] \/ s \in Faulty

\* What the device is given: within a start or seek, each frame follows the
\* last one; the only other step is from the frame where a stream's sound is over
\* to the first of the queued one; a new start or seek begins at its target.
Continues ==
  IF heard'.gen # heard.gen
    THEN /\ heard.gen < heard'.gen
         /\ heard'.gen = generation =>
              heard'.from = (IF heard'.stream = currentId THEN shownFrame ELSE 0)
    ELSE IF heard'.stream = heard.stream
      THEN heard'.from = heard.to
      ELSE /\ heard'.from = 0 /\ heard'.stream = queuedId
           /\ SoundOver(heard.stream, heard.to)
Gapless == [][heard' # heard => Continues]_vars

\* trackFinished means the current stream was played to where its sound is over:
\* of a stream without faults that is the last frame of a complete one, so never
\* an underrun, and of one that the callback left for a stream cleared meanwhile
\* its sound was over somewhere.
FinishedWasPlayedOut ==
  [][~ finishReported /\ finishReported' =>
       IF snapshot.stream = currentId THEN SoundOver(currentId, snapshot.frame)
       ELSE MayBeOver(currentId)]_vars

\* When trackAdvanced is reported the new track's format is already known,
\* because poll() reads the playback state before the decoder's events.
AdvanceKnowsFormat ==
  [][currentId' # currentId /\ currentId' = queuedId /\ generation' = generation
       => sourceFormat']_vars

\* The position shown of a stream never jumps back without a start or seek.
PositionMovesForward ==
  [][generation' = generation /\ currentId' = currentId => shownFrame <= shownFrame']_vars

\* A complete current stream that is not paused does not play on for ever:
\* its end is reported (or it could not be decoded and the engine stopped).
EndsAreReported ==
  []<>(\/ currentId = 0 \/ state = "Paused" \/ finishReported
       \/ ~ complete[currentId])

\* src/audio/README.md, "Cancel": a chained stream that clearQueued() dropped
\* "is dropped, and an end marker with its id ends the track where it would
\* have begun": a stream is entered only while it is current or queued.
ClearedIsNotEntered ==
  [][heard' # heard /\ heard'.stream # heard.stream /\ heard'.gen = generation
       => heard'.stream \in {currentId, queuedId}]_vars
=============================================================================
