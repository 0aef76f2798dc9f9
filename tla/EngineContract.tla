--------------------------- MODULE EngineContract ---------------------------
(***************************************************************************)
(* What the audio engine promises its caller, without its threads: the     *)
(* operators of EngineCalls in any order.  AudioEngineRefinement shows     *)
(* that AudioEngine keeps it; Player is built on it.                       *)
(***************************************************************************)
EXTENDS EngineCalls

VARIABLES engine, last   \* last: the highest stream id given out
vars == <<engine, last>>

Init == engine = StoppedEngine /\ last = 0

Become(e) == engine' = e /\ UNCHANGED last
BeginStream == last' = last + 1 /\ engine' = Begun(engine, last')
AttachSource == engine.current # 0 /\ engine.queued = 0 /\ Become(Attached(engine))
QueueStream ==
  /\ engine.current # 0 /\ last' = last + 1
  /\ engine' = WithQueued(engine, last', FALSE)
ClearQueued == engine.queued # 0 /\ Become(QueueCleared(engine))
PlayQueuedNow == engine.queued # 0 /\ Become(QueuedPlaysNow(engine))
EndData == \E s \in {engine.current, engine.queued} \ {0} : Become(DataEnded(engine, s))
Pause == Become(PausedEngine(engine))
Resume == engine.state = "Paused" /\ \E audio \in BOOLEAN : Become(Resumed(engine, audio))
Stop == Become(StoppedEngine)
Seek == engine.current # 0 /\ Become(Sought(engine))

\* One poll() may lose the queued stream and find something of the current one.
Poll ==
  \E e \in {engine} \cup (IF MayRefuseQueued(engine) THEN {QueuedRefused(engine)} ELSE {}) :
    \/ Polls(e) /\ Become(e)
    \/ MayBeUndecodable(e) /\ Become(StoppedEngine)
    \/ MayBeHeard(e) /\ Become(Heard(e))
    \/ MayFinish(e) /\ Become(Finished(e))
    \/ MayAdvance(e) /\ Become(Advanced(e))

Next ==
  \/ BeginStream \/ AttachSource \/ QueueStream \/ ClearQueued \/ PlayQueuedNow \/ EndData
  \/ Pause \/ Resume \/ Stop \/ Seek \/ Poll

Spec == Init /\ [][Next]_vars
=============================================================================
