--------------------------- MODULE MCAudioEngine ---------------------------
(* Values for the constants of AudioEngine. *)
EXTENDS AudioEngineRefinement

\* The first stream may be over at once, or right after its first frame.
HeadFault == {<<1, 0>>}
EarlyFault == {<<1, 1>>}
NoFaults == {}
=============================================================================
