--------------------------- MODULE EqualizerSlots ---------------------------
(***************************************************************************)
(* The triple buffer that hands the equaliser's coefficients to the device *)
(* thread (src/audio/equalizer.cpp), one atomic access or one word of a    *)
(* slot at a time.  Coefficients are the number of the publish() that      *)
(* computed them, in two words, since copying them is not atomic: 0 is     *)
(* what a slot is constructed with, 1 what the constructor computes.       *)
(***************************************************************************)
EXTENDS Naturals

CONSTANT MaxPublished   \* bound: the number of the last publish()

VARIABLES
  slots, middle,
  back, newest, written,   \* the UI thread: words of slots[back] it wrote in publish()
  front, reading, heard,   \* the device thread: its place in process(), the words it read
  ready                    \* init() called setSampleRate(): the device may start
vars == <<slots, middle, back, newest, written, front, reading, heard, ready>>

Slot == 0..2
Whole(n) == <<n, n>>

Init ==
  /\ back = 0 /\ front = 1 /\ middle = [slot |-> 2, dirty |-> FALSE]
  /\ slots = [i \in Slot |-> Whole(IF i = front THEN 1 ELSE 0)]
  /\ newest = 1 /\ written = 0
  /\ reading = "no" /\ heard = Whole(1) /\ ready = FALSE

-----------------------------------------------------------------------------
(* UI thread *)

Publishing == newest < MaxPublished

\* setSampleRate(), once, before process() can run: publish(), and middle into front.
SetSampleRate ==
  /\ ~ ready /\ written = 0 /\ Publishing
  /\ slots' = [slots EXCEPT ![back] = Whole(newest + 1)]
  /\ newest' = newest + 1
  /\ back' = middle.slot
  /\ middle' = [slot |-> front, dirty |-> FALSE]
  /\ front' = back
  /\ ready' = TRUE
  /\ UNCHANGED <<written, reading, heard>>

\* publish(), word by word
WriteWord ==
  /\ Publishing /\ written < 2
  /\ slots' = [slots EXCEPT ![back][written + 1] = newest + 1]
  /\ written' = written + 1
  /\ UNCHANGED <<middle, back, newest, front, reading, heard, ready>>

\* Mutant: the exchange does not mark middle.
HandOverClean ==
  /\ written = 2
  /\ middle' = [slot |-> back, dirty |-> FALSE]
  /\ back' = middle.slot
  /\ newest' = newest + 1 /\ written' = 0
  /\ UNCHANGED <<slots, front, reading, heard, ready>>

HandOver ==
  /\ written = 2
  /\ middle' = [slot |-> back, dirty |-> TRUE]
  /\ back' = middle.slot
  /\ newest' = newest + 1 /\ written' = 0
  /\ UNCHANGED <<slots, front, reading, heard, ready>>

-----------------------------------------------------------------------------
(* Device thread: process() *)

LookAtMiddle ==
  /\ ready /\ reading = "no"
  /\ reading' = IF middle.dirty THEN "take" ELSE "first"
  /\ UNCHANGED <<slots, middle, back, newest, written, front, heard, ready>>

\* Mutant: the slot given back stays in use.
TakeMiddleKeepsFront ==
  /\ reading = "take"
  /\ middle' = [slot |-> front, dirty |-> FALSE]
  /\ reading' = "first"
  /\ UNCHANGED <<slots, back, newest, written, front, heard, ready>>

TakeMiddle ==
  /\ reading = "take"
  /\ middle' = [slot |-> front, dirty |-> FALSE]
  /\ front' = middle.slot
  /\ reading' = "first"
  /\ UNCHANGED <<slots, back, newest, written, heard, ready>>

ReadFirst ==
  /\ reading = "first"
  /\ heard' = [heard EXCEPT ![1] = slots[front][1]]
  /\ reading' = "second"
  /\ UNCHANGED <<slots, middle, back, newest, written, front, ready>>

ReadSecond ==
  /\ reading = "second"
  /\ heard' = [heard EXCEPT ![2] = slots[front][2]]
  /\ reading' = "no"
  /\ UNCHANGED <<slots, middle, back, newest, written, front, ready>>

Next ==
  \/ SetSampleRate \/ WriteWord \/ HandOver
  \/ LookAtMiddle \/ TakeMiddle \/ ReadFirst \/ ReadSecond

Spec == Init /\ [][Next]_vars

-----------------------------------------------------------------------------

\* A block is filtered with coefficients that were published together, never
\* with a slot publish() is writing, though neither thread waits for the other;
\* and "several publishes between two blocks leave only the last"
\* (src/audio/README.md:595), but do leave it: what was published last is in
\* use, or the next process() finds it.
CoefficientsArrive ==
  /\ reading = "no" => heard[1] = heard[2]
  /\ slots[IF middle.dirty THEN middle.slot ELSE front] = Whole(newest)
=============================================================================
