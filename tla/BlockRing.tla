----------------------------- MODULE BlockRing ------------------------------
(***************************************************************************)
(* The block queue between the decoder and the device callback             *)
(* (BlockQueue in src/audio/blocks.h): slots in a ring, an index for each  *)
(* side, no lock.  The decoder fills the slot back() gave it over several  *)
(* steps (decodeBlock() and writeMarker() in decoder.cpp).  The callback   *)
(* reads the slot front() gave it for as long as it is at the head, so     *)
(* what it reads is what the slots in the queue hold.  A block is its      *)
(* number, in two words.                                                   *)
(***************************************************************************)
EXTENDS Naturals, Sequences

CONSTANTS
  Capacity,   \* slots: two seconds of blocks
  MaxPushed   \* bound: blocks pushed

VARIABLES
  ring, head, tail,
  room,      \* back() gave the decoder the slot at tail
  filled     \* words of it that are written
vars == <<ring, head, tail, room, filled>>

Place(index) == index % Capacity
NoBlock == MaxPushed

Init ==
  /\ ring = [i \in 0..(Capacity - 1) |-> <<NoBlock, NoBlock>>]
  /\ head = 0 /\ tail = 0 /\ room = FALSE /\ filled = 0

-----------------------------------------------------------------------------
(* Decoder thread *)

\* Mutant: the slot at the head counts as free.
BackOverHead ==
  /\ ~ room /\ tail < MaxPushed
  /\ tail - head <= Capacity
  /\ room' = TRUE /\ filled' = 0
  /\ UNCHANGED <<ring, head, tail>>

\* back()
Back ==
  /\ ~ room /\ tail < MaxPushed
  /\ tail - head < Capacity
  /\ room' = TRUE /\ filled' = 0
  /\ UNCHANGED <<ring, head, tail>>

Fill ==
  /\ room /\ filled < 2
  /\ ring' = [ring EXCEPT ![Place(tail)][filled + 1] = tail]
  /\ filled' = filled + 1
  /\ UNCHANGED <<head, tail, room>>

\* An interrupted or empty read leaves the slot as it is, not pushed.
Abandon ==
  /\ room /\ room' = FALSE
  /\ UNCHANGED <<ring, head, tail, filled>>

\* push()
Push ==
  /\ room /\ filled = 2
  /\ tail' = tail + 1 /\ room' = FALSE
  /\ UNCHANGED <<ring, head, filled>>

-----------------------------------------------------------------------------
(* Device thread *)

\* front() and pop(): the block at the head is played out, or of a generation
\* that is over.
Pop ==
  /\ head # tail
  /\ head' = head + 1
  /\ UNCHANGED <<ring, tail, room, filled>>

Next == Back \/ Fill \/ Abandon \/ Push \/ Pop

Spec == Init /\ [][Next]_vars

-----------------------------------------------------------------------------

BlockAt(index) ==
  LET words == ring[Place(index)] IN IF words[1] = words[2] THEN words[1] ELSE NoBlock
Queued == INSTANCE BlockSequence
            WITH blocks <- [n \in 1..(tail - head) |-> BlockAt(head + n - 1)], pushed <- tail

\* To its two threads the ring is a sequence of whole blocks, in the order they
\* were pushed: nothing that is queued is written into or lost, and only the
\* callback takes from it.
RingIsSequence == Queued!Spec
=============================================================================
