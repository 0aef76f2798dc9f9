---------------------------- MODULE EngineCalls ----------------------------
(***************************************************************************)
(* What a caller on the UI thread knows of the audio engine, as a record:  *)
(* its state, its current and its queued stream (0 is none), which of the  *)
(* two are complete, whether the end of the current one was reported, and  *)
(* whether a stream queued behind it was given up since it began.          *)
(*                                                                         *)
(* Each public method is an operator from a record to a record, each thing *)
(* poll() may find is one, too, with the condition under which it may.     *)
(***************************************************************************)
EXTENDS Integers

CONSTANT Damaged   \* ids of the streams whose sound may end, or not begin at
                   \* all, before their bytes are complete

ASSUME DamagedAssumption == Damaged \subseteq Nat \ {0}

StoppedEngine ==
  [state |-> "Stopped", current |-> 0, queued |-> 0, full |-> {}, finished |-> FALSE,
   givenUp |-> FALSE]

\* beginStream(), attachSource(), queueStream(), clearQueued(), ...  An id given
\* to a stream is one no other stream has.
Begun(e, id) == [StoppedEngine EXCEPT !.state = "Buffering", !.current = id]

Attached(e) == [e EXCEPT !.full = @ \cup {e.current}]

QueueCleared(e) ==
  [e EXCEPT !.queued = 0, !.full = @ \ {e.queued}, !.givenUp = @ \/ e.queued # 0]

WithQueued(e, id, file) ==
  [QueueCleared(e) EXCEPT !.queued = id, !.full = @ \cup (IF file THEN {id} ELSE {})]

QueuedPlaysNow(e) ==
  [Begun(e, e.queued) EXCEPT !.full = e.full \cap {e.queued}]

\* finishData(), failData(): of a stream no longer held they are ignored.
DataEnded(e, s) == [e EXCEPT !.full = @ \cup ({s} \cap {e.current, e.queued})]

PausedEngine(e) ==
  [e EXCEPT !.state = IF @ \in {"Playing", "Buffering"} THEN "Paused" ELSE @]

\* audio: there is some of the current start or seek.
Resumed(e, audio) ==
  [e EXCEPT !.state = IF @ # "Paused" THEN @ ELSE IF audio THEN "Playing" ELSE "Buffering"]

Sought(e) == [e EXCEPT !.finished = FALSE]

-----------------------------------------------------------------------------
(* What poll() finds *)

Polls(e) == e.state # "Stopped"

\* The current stream may have ended: an underrun of a sound stream is no end.
MayHaveEnded(e) == e.current \in e.full \cup Damaged

\* The current stream has no sound anyone can decode: stop, streamUndecodable.
MayBeUndecodable(e) ==
  Polls(e) /\ MayHaveEnded(e) /\ e.state \in {"Buffering", "Paused"}

\* So has the queued one, which is opened only when it is complete: it is
\* forgotten without a word.
MayRefuseQueued(e) == Polls(e) /\ e.queued \in e.full
QueuedRefused(e) == QueueCleared(e)

MayBeHeard(e) == e.state = "Buffering"
Heard(e) == [e EXCEPT !.state = "Playing"]

\* trackFinished: once, and only when there was no more to come.
MayFinish(e) ==
  /\ Polls(e) /\ MayHaveEnded(e) /\ ~ e.finished
  /\ e.state = "Playing" \/ e.givenUp
Finished(e) == [e EXCEPT !.finished = TRUE]

\* trackAdvanced: the queued stream went on where the current one ended.
MayAdvance(e) == Polls(e) /\ MayHaveEnded(e) /\ e.queued \in e.full /\ ~ e.finished
Advanced(e) ==
  [StoppedEngine EXCEPT !.state = e.state, !.current = e.queued, !.full = {e.queued}]
=============================================================================
