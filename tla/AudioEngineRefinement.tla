----------------------- MODULE AudioEngineRefinement -----------------------
(***************************************************************************)
(* AudioEngine implements EngineContract: whatever the three threads do,   *)
(* the UI thread sees only what the contract allows.                       *)
(***************************************************************************)
EXTENDS AudioEngine

\* Ids grow, so a stream queued behind the current one and given up since is
\* an id between that is neither.
Seen ==
  [state |-> state, current |-> currentId, queued |-> queuedId,
   full |-> {s \in Held : complete[s]}, finished |-> finishReported,
   givenUp |-> currentId # 0 /\ lastId > (IF queuedId = 0 THEN currentId ELSE currentId + 1)]

\* A stream no decoder opens or that has a fault.
Bad == Undecodable \cup Faulty

Contract == INSTANCE EngineContract WITH engine <- Seen, last <- lastId, Damaged <- Bad

\* Every step of the threads is one the contract allows, or none it sees: the
\* end is reported once per start or seek, of an undamaged stream only once it
\* is complete; an advance needs the queued stream complete; the state follows
\* the calls.
KeepsContract == Contract!Spec
=============================================================================
