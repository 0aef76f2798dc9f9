--------------------------- MODULE BlockSequence ----------------------------
(***************************************************************************)
(* What the decoder and the device callback take the block queue for: a    *)
(* sequence of whole blocks with room for Capacity of them, as the engine's *)
(* model uses it (blocks in AudioEngine).  A block is its number.          *)
(***************************************************************************)
EXTENDS Naturals, Sequences

CONSTANT Capacity

VARIABLES blocks, pushed
vars == <<blocks, pushed>>

Init == blocks = <<>> /\ pushed = 0

Push == Len(blocks) < Capacity /\ blocks' = Append(blocks, pushed) /\ pushed' = pushed + 1
Pop == blocks # <<>> /\ blocks' = Tail(blocks) /\ UNCHANGED pushed

Spec == Init /\ [][Push \/ Pop]_vars
=============================================================================
