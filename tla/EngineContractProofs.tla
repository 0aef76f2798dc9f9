------------------------ MODULE EngineContractProofs ------------------------
(***************************************************************************)
(* What every caller of an engine that keeps EngineContract may rely on.   *)
(***************************************************************************)
EXTENDS EngineContract, TLAPS

EngineRecord ==
  [state : {"Stopped", "Playing", "Paused", "Buffering"}, current : Nat, queued : Nat,
   full : SUBSET Nat, finished : BOOLEAN, givenUp : BOOLEAN]

IdsInOrder(e, highest) ==
  /\ e.current <= highest /\ e.queued <= highest
  /\ e.queued # 0 => e.current # 0 /\ e.current < e.queued
OnlyHeld(e) == e.full \subseteq {e.current, e.queued} \ {0}
SilentIsStopped(e) == e.state = "Stopped" <=> e.current = 0
EndIsHeeded(e) == e.finished => MayHaveEnded(e)

Sound(e, highest) ==
  /\ e \in EngineRecord /\ IdsInOrder(e, highest)
  /\ OnlyHeld(e) /\ SilentIsStopped(e) /\ EndIsHeeded(e)

\* The engine has a stream exactly while it is not stopped; the stream queued
\* behind it is a younger one; only those two count as complete; and the end
\* that was reported is, as long as that stream is held, one of a complete stream
\* or of a damaged one, whatever is queued, cleared or refused behind it.
Orderly == last \in Nat /\ Sound(engine, last)

-----------------------------------------------------------------------------
(* What the operators keep *)

\* A stream the engine has alone, complete or not, is in order.
LEMMA AloneSound ==
  ASSUME NEW h \in Nat, NEW s \in {"Playing", "Paused", "Buffering"},
         NEW c \in Nat, c # 0, c <= h, NEW f \in SUBSET {c}
  PROVE  Sound([state |-> s, current |-> c, queued |-> 0, full |-> f,
                finished |-> FALSE, givenUp |-> FALSE], h)
<1> DEFINE e == [state |-> s, current |-> c, queued |-> 0, full |-> f,
                 finished |-> FALSE, givenUp |-> FALSE]
<1>1. e \in EngineRecord
  BY DEF EngineRecord
<1>2. IdsInOrder(e, h) /\ OnlyHeld(e) /\ SilentIsStopped(e) /\ EndIsHeeded(e)
  BY DEF IdsInOrder, OnlyHeld, SilentIsStopped, EndIsHeeded
<1> QED BY <1>1, <1>2 DEF Sound

\* A stream begun is alone and has nothing yet.
LEMMA BegunIs ==
  ASSUME NEW e, NEW id, NEW n, n = Begun(e, id)
  PROVE  n = [state |-> "Buffering", current |-> id, queued |-> 0, full |-> {},
              finished |-> FALSE, givenUp |-> FALSE]
BY DEF Begun, StoppedEngine

\* Clearing keeps the engine sound and leaves at most the current stream whole.
LEMMA ClearedSound ==
  ASSUME NEW h \in Nat, NEW e, Sound(e, h)
  PROVE  /\ Sound(QueueCleared(e), h)
         /\ QueueCleared(e).queued = 0 /\ QueueCleared(e).current = e.current
         /\ QueueCleared(e).full \subseteq {e.current}
<1> DEFINE c == QueueCleared(e)
<1>1. e \in EngineRecord /\ IdsInOrder(e, h) /\ OnlyHeld(e) /\ SilentIsStopped(e) /\ EndIsHeeded(e)
  BY DEF Sound
<1>2. c.state = e.state /\ c.current = e.current /\ c.queued = 0
      /\ c.full = e.full \ {e.queued} /\ c.finished = e.finished
  BY <1>1 DEF QueueCleared, EngineRecord
<1>3. c \in EngineRecord
  <2> DEFINE g == e.givenUp \/ e.queued # 0
             f == e.full \ {e.queued}
  <2>1. g \in BOOLEAN /\ f \in SUBSET Nat
    BY <1>1 DEF EngineRecord
  <2>2. c = [e EXCEPT !.queued = 0, !.full = f, !.givenUp = g]
    BY DEF QueueCleared
  <2> HIDE DEF c, f, g
  <2> QED BY <1>1, <2>1, <2>2 DEF EngineRecord
<1>4. IdsInOrder(c, h) /\ SilentIsStopped(c)
  <2>1. e.current \in Nat /\ e.current <= h
    BY <1>1 DEF EngineRecord, IdsInOrder
  <2>2. e.state = "Stopped" <=> e.current = 0
    BY <1>1 DEF SilentIsStopped
  <2> HIDE DEF c
  <2> QED BY <1>2, <2>1, <2>2 DEF IdsInOrder, SilentIsStopped
<1>5. OnlyHeld(c) /\ c.full \subseteq {e.current}
  <2>1. e.full \subseteq {e.current, e.queued} \ {0}
    BY <1>1 DEF OnlyHeld
  <2> HIDE DEF c
  <2> QED BY <1>2, <2>1 DEF OnlyHeld
<1>6. EndIsHeeded(c)
  <2>1. e.current \in e.full => e.current # e.queued
    BY <1>1 DEF IdsInOrder, OnlyHeld, EngineRecord
  <2>2. e.finished => e.current \in e.full \cup Damaged
    BY <1>1 DEF EndIsHeeded, MayHaveEnded
  <2> HIDE DEF c
  <2> QED BY <1>2, <2>1, <2>2 DEF EndIsHeeded, MayHaveEnded
<1>7. Sound(c, h)
  BY <1>3, <1>4, <1>5, <1>6 DEF Sound
<1> HIDE DEF c
<1>8. c.queued = 0 /\ c.current = e.current /\ c.full \subseteq {e.current}
  BY <1>2, <1>5
<1> QED BY <1>7, <1>8 DEF c

-----------------------------------------------------------------------------
USE DEF EngineRecord, IdsInOrder, OnlyHeld, SilentIsStopped, EndIsHeeded, MayHaveEnded, Sound

\* A new engine is stopped and holds no stream.
LEMMA InitOrderly == Init => Orderly
BY DEF Init, Orderly, StoppedEngine

\* Calls that give out a stream id.
LEMMA NewIdOrderly ==
  ASSUME Orderly, BeginStream \/ QueueStream PROVE Orderly'
<1>1. CASE BeginStream
  <2>1. last' \in Nat /\ last' # 0
    BY <1>1 DEF BeginStream, Orderly
  <2>2. engine' = [state |-> "Buffering", current |-> last', queued |-> 0, full |-> {},
                   finished |-> FALSE, givenUp |-> FALSE]
    BY <1>1, <2>1, BegunIs DEF BeginStream
  <2>3. Sound(engine', last')
    BY <2>1, <2>2, AloneSound
  <2> QED BY <2>1, <2>3 DEF Orderly
<1>2. CASE QueueStream
  <2> DEFINE c == QueueCleared(engine)
  <2>1. last \in Nat /\ last' = last + 1 /\ engine.current # 0
    BY <1>2 DEF QueueStream, Orderly
  <2>2. Sound(c, last) /\ c.queued = 0 /\ c.current = engine.current
    BY ClearedSound DEF Orderly
  <2>3. engine' = [c EXCEPT !.queued = last', !.full = @ \cup {}]
    BY <1>2 DEF QueueStream, WithQueued
  <2> HIDE DEF c
  <2>4. /\ engine' \in EngineRecord
        /\ engine'.state = c.state /\ engine'.current = c.current /\ engine'.queued = last'
        /\ engine'.full = c.full /\ engine'.finished = c.finished
    <3>1. c \in EngineRecord /\ last' \in Nat
      BY <2>1, <2>2
    <3>2. c.full \cup {} = c.full
      OBVIOUS
    <3>3. engine' = [c EXCEPT !.queued = last']
      BY <2>3, <3>1, <3>2
    <3> QED BY <3>1, <3>3
  <2>5. c.full \subseteq {c.current}
    BY <2>2
  <2> QED BY <2>1, <2>2, <2>4, <2>5 DEF Orderly
<1> QED BY <1>1, <1>2

\* The other calls.
LEMMA CallOrderly ==
  ASSUME Orderly,
         AttachSource \/ ClearQueued \/ PlayQueuedNow \/ EndData \/ Pause \/ Resume \/ Stop \/ Seek
  PROVE  Orderly'
<1>1. CASE AttachSource
  BY <1>1 DEF AttachSource, Become, Attached, Orderly
<1>2. CASE ClearQueued
  BY <1>2, ClearedSound DEF ClearQueued, Become, Orderly
<1>3. CASE PlayQueuedNow
  <2>1. engine' = [state |-> "Buffering", current |-> engine.queued, queued |-> 0,
                   full |-> engine.full \cap {engine.queued},
                   finished |-> FALSE, givenUp |-> FALSE]
    BY <1>3 DEF PlayQueuedNow, Become, QueuedPlaysNow, Begun, StoppedEngine
  <2>2. engine.queued # 0 /\ last' = last
    BY <1>3 DEF PlayQueuedNow, Become
  <2>3. engine.queued \in Nat /\ engine.queued <= last
    BY DEF Orderly
  <2>4. Sound(engine', last')
    BY <2>1, <2>2, <2>3, AloneSound DEF Orderly
  <2> QED BY <2>2, <2>4 DEF Orderly
<1>4. CASE EndData
  BY <1>4 DEF EndData, Become, DataEnded, Orderly
<1>5. CASE Pause
  BY <1>5 DEF Pause, Become, PausedEngine, Orderly
<1>6. CASE Resume
  BY <1>6 DEF Resume, Become, Resumed, Orderly
<1>7. CASE Stop
  BY <1>7 DEF Stop, Become, StoppedEngine, Orderly
<1>8. CASE Seek
  BY <1>8 DEF Seek, Become, Sought, Orderly
<1> QED BY <1>1, <1>2, <1>3, <1>4, <1>5, <1>6, <1>7, <1>8

\* What poll() finds of an engine whose queued stream it may have refused.
LEMMA PollOrderly == ASSUME Orderly, Poll PROVE Orderly'
<1>1. PICK e \in {engine} \cup
                 (IF MayRefuseQueued(engine) THEN {QueuedRefused(engine)} ELSE {}) :
        \/ Polls(e) /\ Become(e)
        \/ MayBeUndecodable(e) /\ Become(StoppedEngine)
        \/ MayBeHeard(e) /\ Become(Heard(e))
        \/ MayFinish(e) /\ Become(Finished(e))
        \/ MayAdvance(e) /\ Become(Advanced(e))
  BY DEF Poll
<1>2. Sound(e, last) /\ last \in Nat
  <2>1. CASE e = engine
    BY <2>1 DEF Orderly
  <2>2. CASE e = QueuedRefused(engine)
    BY <2>2, ClearedSound DEF Orderly, QueuedRefused
  <2> QED BY <1>1, <2>1, <2>2
<1>3. CASE Polls(e) /\ Become(e)
  BY <1>2, <1>3 DEF Become, Orderly
<1>4. CASE MayBeUndecodable(e) /\ Become(StoppedEngine)
  BY <1>2, <1>4 DEF Become, StoppedEngine, Orderly
<1>5. CASE MayBeHeard(e) /\ Become(Heard(e))
  BY <1>2, <1>5 DEF Become, MayBeHeard, Heard, Orderly
<1>6. CASE MayFinish(e) /\ Become(Finished(e))
  BY <1>2, <1>6 DEF Become, MayFinish, Finished, Orderly
<1>7. CASE MayAdvance(e) /\ Become(Advanced(e))
  <2>1. engine' = [state |-> e.state, current |-> e.queued, queued |-> 0,
                   full |-> {e.queued}, finished |-> FALSE, givenUp |-> FALSE]
    BY <1>7 DEF Become, Advanced, StoppedEngine
  <2>2. /\ e.state \in {"Playing", "Paused", "Buffering"}
        /\ e.queued \in Nat /\ e.queued # 0 /\ e.queued <= last /\ last' = last
    BY <1>2, <1>7 DEF Become, MayAdvance, Polls
  <2>3. Sound(engine', last')
    BY <1>2, <2>1, <2>2, AloneSound
  <2> QED BY <1>2, <2>2, <2>3 DEF Orderly
<1> QED BY <1>1, <1>3, <1>4, <1>5, <1>6, <1>7

\* Every caller of the contract finds the engine in order.
THEOREM ContractOrderly == Spec => []Orderly
<1>1. Orderly /\ [Next]_vars => Orderly'
  <2> SUFFICES ASSUME Orderly, [Next]_vars PROVE Orderly'
    OBVIOUS
  <2>1. CASE Next
    BY <2>1, NewIdOrderly, CallOrderly, PollOrderly DEF Next
  <2>2. CASE UNCHANGED vars
    BY <2>2 DEF vars, Orderly
  <2> QED BY <2>1, <2>2
<1> QED BY <1>1, InitOrderly, PTL DEF Spec
=============================================================================
