----------------------------- MODULE PartsProofs -----------------------------
(***************************************************************************)
(* What the parts promise, for every value of the bounds: each part's      *)
(* invariant is kept by its own steps, and a step of another part leaves   *)
(* it alone.                                                               *)
(***************************************************************************)
EXTENDS Parts, FiniteSetTheorems, SequenceTheorems, WellFoundedInduction, TLAPS

\* A value in two words, which are written and read one at a time.
Words == [1..2 -> Nat]
IsWhole(words) == words[1] = words[2]
Holds(words, n) == words[1] = n /\ words[2] = n

-----------------------------------------------------------------------------
(* Coefficients: the three slots *)

CoefficientsTyped ==
  /\ slots \in [Coefficients!Slot -> Words]
  /\ middle \in [slot : Coefficients!Slot, dirty : BOOLEAN]
  /\ back \in Coefficients!Slot /\ front \in Coefficients!Slot
  /\ newest \in Nat /\ written \in 0..2
  /\ reading \in {"no", "take", "first", "second"}
  /\ heard \in Words /\ ready \in BOOLEAN

\* The UI, the device and the middle each have a slot of their own.
OwnSlots == back # front /\ back # middle.slot /\ front # middle.slot

\* What publish() wrote so far is of the coefficients to come.
BackFilled == \A w \in 1..2 : w <= written => slots[back][w] = newest + 1

\* What the device uses, and what it will find, were published as one.
FrontWhole == IsWhole(slots[front])
LastArrives == IF middle.dirty THEN Holds(slots[middle.slot], newest)
                               ELSE Holds(slots[front], newest)

\* The device's place in process(): only process() takes the mark away, and
\* setSampleRate() comes before it.
DeviceReads ==
  /\ reading = "take" => middle.dirty
  /\ reading # "no" => ready
  /\ reading = "second" => heard[1] = slots[front][1]
  /\ reading = "no" => IsWhole(heard)

CoefficientsInv ==
  /\ CoefficientsTyped /\ OwnSlots /\ BackFilled /\ FrontWhole /\ LastArrives
  /\ DeviceReads

-----------------------------------------------------------------------------

\* Two equal words are the pair the model writes.
LEMMA WholeIs ==
  ASSUME NEW s \in Words, NEW n \in Nat, Holds(s, n)
  PROVE  s = Coefficients!Whole(n)
BY DEF Words, Holds, Coefficients!Whole

LEMMA WholeHolds ==
  ASSUME NEW n \in Nat
  PROVE  Coefficients!Whole(n) \in Words /\ Holds(Coefficients!Whole(n), n)
        /\ IsWhole(Coefficients!Whole(n))
BY DEF Words, Holds, Coefficients!Whole, IsWhole

LEMMA CoefficientsBegin == Coefficients!Init => CoefficientsInv
<1> SUFFICES ASSUME Coefficients!Init PROVE CoefficientsInv
  OBVIOUS
<1>1. /\ Coefficients!Whole(0) \in Words /\ Coefficients!Whole(1) \in Words
      /\ Holds(Coefficients!Whole(1), 1) /\ IsWhole(Coefficients!Whole(1))
  BY WholeHolds
<1>2. slots \in [Coefficients!Slot -> Words] /\ slots[front] = Coefficients!Whole(1)
  BY <1>1 DEF Coefficients!Init, Coefficients!Slot
<1>3. CoefficientsTyped
  <2>1. middle \in [slot : Coefficients!Slot, dirty : BOOLEAN]
    BY DEF Coefficients!Init, Coefficients!Slot
  <2>2. heard \in Words
    BY <1>1 DEF Coefficients!Init
  <2>3. back \in Coefficients!Slot /\ front \in Coefficients!Slot /\ newest \in Nat
        /\ written \in 0..2
    BY DEF Coefficients!Init, Coefficients!Slot
  <2>4. reading \in {"no", "take", "first", "second"} /\ ready \in BOOLEAN
    BY DEF Coefficients!Init
  <2> QED BY <1>2, <2>1, <2>2, <2>3, <2>4 DEF CoefficientsTyped
<1>4. OwnSlots /\ BackFilled
  BY DEF Coefficients!Init, OwnSlots, BackFilled
<1>5. FrontWhole /\ LastArrives /\ DeviceReads
  BY <1>1, <1>2 DEF Coefficients!Init, FrontWhole, LastArrives, DeviceReads
<1> QED BY <1>3, <1>4, <1>5 DEF CoefficientsInv

-----------------------------------------------------------------------------
(* The UI thread *)

\* Before the device starts, setSampleRate() turns all three slots.
LEMMA SetSampleRateKeeps ==
  CoefficientsInv /\ Coefficients!SetSampleRate => CoefficientsInv'
<1> SUFFICES ASSUME CoefficientsInv, Coefficients!SetSampleRate PROVE CoefficientsInv'
  OBVIOUS
<1> DEFINE w == Coefficients!Whole(newest + 1)
<1>1. w \in Words /\ Holds(w, newest + 1) /\ IsWhole(w)
  BY WholeHolds DEF CoefficientsInv, CoefficientsTyped
<1>2. slots'[front'] = w /\ slots' \in [Coefficients!Slot -> Words]
  BY <1>1 DEF CoefficientsInv, CoefficientsTyped, Coefficients!SetSampleRate
<1> HIDE DEF w
<1>3. CoefficientsTyped'
  BY <1>2 DEF CoefficientsInv, CoefficientsTyped, Coefficients!SetSampleRate
<1>4. OwnSlots' /\ BackFilled'
  BY DEF CoefficientsInv, CoefficientsTyped, OwnSlots, BackFilled,
         Coefficients!SetSampleRate
<1>5. FrontWhole' /\ LastArrives'
  BY <1>1, <1>2 DEF Coefficients!SetSampleRate, FrontWhole, LastArrives
<1>6. DeviceReads'
  BY DEF CoefficientsInv, DeviceReads, Coefficients!SetSampleRate
<1> QED BY <1>3, <1>4, <1>5, <1>6 DEF CoefficientsInv

\* publish() writes where nobody else looks.
LEMMA WriteWordKeeps == CoefficientsInv /\ Coefficients!WriteWord => CoefficientsInv'
<1> SUFFICES ASSUME CoefficientsInv, Coefficients!WriteWord PROVE CoefficientsInv'
  OBVIOUS
<1>1. /\ slots \in [Coefficients!Slot -> Words] /\ back \in Coefficients!Slot
      /\ newest \in Nat
      /\ written \in 0..2 /\ written < 2 /\ written' = written + 1
      /\ slots' = [slots EXCEPT ![back] =
               [slots[back] EXCEPT ![written + 1] = newest + 1]]
  BY DEF CoefficientsInv, CoefficientsTyped, Coefficients!WriteWord
<1>2. slots' \in [Coefficients!Slot -> Words]
  BY <1>1 DEF Words
<1>3. \A i \in Coefficients!Slot : i # back => slots'[i] = slots[i]
  BY <1>1
<1>4. \A w \in 1..2 : slots'[back][w] =
             IF w = written + 1 THEN newest + 1 ELSE slots[back][w]
  BY <1>1 DEF Words
<1>5. CoefficientsTyped'
  BY <1>1, <1>2 DEF CoefficientsInv, CoefficientsTyped, Coefficients!WriteWord
<1>6. OwnSlots'
  BY DEF CoefficientsInv, OwnSlots, Coefficients!WriteWord
<1>7. BackFilled'
  BY <1>1, <1>4 DEF CoefficientsInv, BackFilled, Coefficients!WriteWord
<1>8. slots'[front] = slots[front] /\ slots'[middle.slot] = slots[middle.slot]
  BY <1>3 DEF CoefficientsInv, CoefficientsTyped, OwnSlots
<1>9. FrontWhole' /\ LastArrives' /\ DeviceReads'
  BY <1>8 DEF CoefficientsInv, FrontWhole, LastArrives, DeviceReads,
         Coefficients!WriteWord
<1> QED BY <1>5, <1>6, <1>7, <1>9 DEF CoefficientsInv

\* The exchange hands over a slot with both words written.
LEMMA HandOverKeeps == CoefficientsInv /\ Coefficients!HandOver => CoefficientsInv'
<1> SUFFICES ASSUME CoefficientsInv, Coefficients!HandOver PROVE CoefficientsInv'
  OBVIOUS
<1>1. Holds(slots[back], newest + 1)
  BY DEF CoefficientsInv, BackFilled, Coefficients!HandOver, Holds
<1>2. CoefficientsTyped' /\ OwnSlots' /\ BackFilled'
  BY DEF CoefficientsInv, CoefficientsTyped, OwnSlots, BackFilled, Coefficients!HandOver
<1>3. FrontWhole' /\ LastArrives'
  BY <1>1 DEF CoefficientsInv, FrontWhole, LastArrives, Coefficients!HandOver
<1>4. DeviceReads'
  BY DEF CoefficientsInv, DeviceReads, Coefficients!HandOver
<1> QED BY <1>2, <1>3, <1>4 DEF CoefficientsInv

-----------------------------------------------------------------------------
(* The device thread *)

LEMMA LookAtMiddleKeeps ==
  CoefficientsInv /\ Coefficients!LookAtMiddle => CoefficientsInv'
<1> SUFFICES ASSUME CoefficientsInv, Coefficients!LookAtMiddle PROVE CoefficientsInv'
  OBVIOUS
<1>1. CoefficientsTyped' /\ OwnSlots' /\ BackFilled' /\ FrontWhole' /\ LastArrives'
  BY DEF CoefficientsInv, CoefficientsTyped, OwnSlots, BackFilled, FrontWhole,
         LastArrives, Coefficients!LookAtMiddle
<1>2. DeviceReads'
  BY DEF CoefficientsInv, DeviceReads, Coefficients!LookAtMiddle
<1> QED BY <1>1, <1>2 DEF CoefficientsInv

\* Only a marked middle is taken, and it holds the last coefficients.
LEMMA TakeMiddleKeeps == CoefficientsInv /\ Coefficients!TakeMiddle => CoefficientsInv'
<1> SUFFICES ASSUME CoefficientsInv, Coefficients!TakeMiddle PROVE CoefficientsInv'
  OBVIOUS
<1>1. middle.dirty /\ Holds(slots[middle.slot], newest)
  BY DEF CoefficientsInv, DeviceReads, LastArrives, Coefficients!TakeMiddle
<1>2. CoefficientsTyped' /\ OwnSlots' /\ BackFilled'
  BY DEF CoefficientsInv, CoefficientsTyped, OwnSlots, BackFilled,
         Coefficients!TakeMiddle
<1>3. FrontWhole' /\ LastArrives'
  BY <1>1 DEF Coefficients!TakeMiddle, FrontWhole, LastArrives, IsWhole, Holds
<1>4. DeviceReads'
  BY DEF CoefficientsInv, DeviceReads, Coefficients!TakeMiddle
<1> QED BY <1>2, <1>3, <1>4 DEF CoefficientsInv

LEMMA ReadFirstKeeps == CoefficientsInv /\ Coefficients!ReadFirst => CoefficientsInv'
<1> SUFFICES ASSUME CoefficientsInv, Coefficients!ReadFirst PROVE CoefficientsInv'
  OBVIOUS
<1>1. heard' \in Words /\ heard'[1] = slots[front][1]
  BY DEF CoefficientsInv, CoefficientsTyped, Coefficients!ReadFirst, Words
<1>2. CoefficientsTyped' /\ OwnSlots' /\ BackFilled' /\ FrontWhole' /\ LastArrives'
  BY <1>1 DEF CoefficientsInv, CoefficientsTyped, OwnSlots, BackFilled, FrontWhole,
         LastArrives, Coefficients!ReadFirst
<1>3. DeviceReads'
  BY <1>1 DEF CoefficientsInv, DeviceReads, Coefficients!ReadFirst
<1> QED BY <1>2, <1>3 DEF CoefficientsInv

\* The slot did not change since the first word was read.
LEMMA ReadSecondKeeps == CoefficientsInv /\ Coefficients!ReadSecond => CoefficientsInv'
<1> SUFFICES ASSUME CoefficientsInv, Coefficients!ReadSecond PROVE CoefficientsInv'
  OBVIOUS
<1>1. heard' \in Words /\ IsWhole(heard')
  BY DEF CoefficientsInv, CoefficientsTyped, FrontWhole, DeviceReads,
         Coefficients!ReadSecond, Words, IsWhole
<1>2. CoefficientsTyped' /\ OwnSlots' /\ BackFilled' /\ FrontWhole' /\ LastArrives'
  BY <1>1 DEF CoefficientsInv, CoefficientsTyped, OwnSlots, BackFilled, FrontWhole,
         LastArrives, Coefficients!ReadSecond
<1>3. DeviceReads'
  BY <1>1 DEF CoefficientsInv, DeviceReads, Coefficients!ReadSecond
<1> QED BY <1>2, <1>3 DEF CoefficientsInv

-----------------------------------------------------------------------------

LEMMA CoefficientsStay ==
  CoefficientsInv /\ [Coefficients!Next]_(Coefficients!vars) => CoefficientsInv'
<1> SUFFICES ASSUME CoefficientsInv, [Coefficients!Next]_(Coefficients!vars)
         PROVE CoefficientsInv'
  OBVIOUS
<1>1. CASE Coefficients!SetSampleRate BY <1>1, SetSampleRateKeeps
<1>2. CASE Coefficients!WriteWord BY <1>2, WriteWordKeeps
<1>3. CASE Coefficients!HandOver BY <1>3, HandOverKeeps
<1>4. CASE Coefficients!LookAtMiddle BY <1>4, LookAtMiddleKeeps
<1>5. CASE Coefficients!TakeMiddle BY <1>5, TakeMiddleKeeps
<1>6. CASE Coefficients!ReadFirst BY <1>6, ReadFirstKeeps
<1>7. CASE Coefficients!ReadSecond BY <1>7, ReadSecondKeeps
<1>8. CASE UNCHANGED Coefficients!vars
  BY <1>8 DEF Coefficients!vars, CoefficientsInv, CoefficientsTyped, OwnSlots,
         BackFilled, FrontWhole, LastArrives, DeviceReads
<1> QED BY <1>1, <1>2, <1>3, <1>4, <1>5, <1>6, <1>7, <1>8 DEF Coefficients!Next

LEMMA CoefficientsInvImplies == CoefficientsInv => Coefficients!CoefficientsArrive
<1> SUFFICES ASSUME CoefficientsInv PROVE Coefficients!CoefficientsArrive
  OBVIOUS
<1>1. reading = "no" => heard[1] = heard[2]
  BY DEF CoefficientsInv, DeviceReads, IsWhole
<1>2. CASE middle.dirty
  <2>1. slots[middle.slot] = Coefficients!Whole(newest)
    BY <1>2, WholeIs DEF CoefficientsInv, CoefficientsTyped, LastArrives
  <2> QED BY <1>1, <1>2, <2>1 DEF Coefficients!CoefficientsArrive
<1>3. CASE ~ middle.dirty
  <2>1. slots[front] = Coefficients!Whole(newest)
    BY <1>3, WholeIs DEF CoefficientsInv, CoefficientsTyped, LastArrives
  <2> QED BY <1>1, <1>3, <2>1 DEF Coefficients!CoefficientsArrive
<1> QED BY <1>2, <1>3

LEMMA CoefficientsMove == [Next]_vars => [Coefficients!Next]_(Coefficients!vars)
BY DEF Coefficients!vars, Next, SpotifyStep, TelemetryStep, CoefficientsStep,
       SnapshotsStep, BlocksStep, vars, coefficientVars, snapshotVars, blockVars

\* However often the user moves the sliders, and wherever the device's callback
\* comes between, a block is filtered with coefficients published together and
\* the last ones are never lost (Equalizer in src/audio/equalizer.cpp).
THEOREM CoefficientsAlwaysArrive == Spec => []CoefficientsArrive
<1>1. Init => CoefficientsInv
  BY CoefficientsBegin DEF Init
<1>2. CoefficientsInv => CoefficientsArrive
  BY CoefficientsInvImplies DEF CoefficientsArrive
<1> QED BY <1>1, <1>2, CoefficientsMove, CoefficientsStay, PTL DEF Spec

-----------------------------------------------------------------------------
(* Snapshots: the sequence lock *)

SnapshotsTyped ==
  /\ sequence \in Nat /\ published \in Nat /\ before \in Nat /\ since \in Nat
  /\ stored \in 0..5 /\ loading \in 0..5
  /\ fields \in [Snapshots!Field -> Nat] /\ got \in [Snapshots!Field -> Nat]
  /\ result \in [fields : [Snapshots!Field -> Nat], since : Nat]

\* The sequence tells how far the callback is.
SequenceCounts == sequence = 2 * published + (IF stored = 0 THEN 0 ELSE 1)

\* The fields that publish() passed are of the snapshot to come.
FieldsInOrder ==
  \A f \in Snapshots!Field : fields[f] = IF f < stored THEN published + 1 ELSE published

\* As long as the sequence is still the even one that read() began with, every
\* field it loaded is of the snapshot of then.
LoadedSince == loading # 0 =>
  /\ before <= sequence /\ since <= published
  /\ before % 2 = 0 /\ sequence = before =>
       since = published /\ \A f \in Snapshots!Field : f < loading => got[f] = published

SnapshotsInv ==
  /\ SnapshotsTyped /\ SequenceCounts /\ FieldsInOrder /\ LoadedSince
  /\ Snapshots!SnapshotsAreWhole

-----------------------------------------------------------------------------

\* An even sequence means that no publish() is under way.
LEMMA EvenMeansIdle ==
  ASSUME SnapshotsTyped, SequenceCounts, sequence % 2 = 0
  PROVE  stored = 0 /\ sequence = 2 * published
BY DEF SnapshotsTyped, SequenceCounts

\* A step that adds snapshots and leaves the result leaves it right.
LEMMA ResultStays ==
  ASSUME SnapshotsTyped, Snapshots!SnapshotsAreWhole, result' = result,
         published' \in Nat, published <= published'
  PROVE  Snapshots!SnapshotsAreWhole'
<1>1. PICK n \in result.since..published : result.fields = Snapshots!All(n)
  BY DEF Snapshots!SnapshotsAreWhole
<1>2. n \in result.since..published'
  BY <1>1 DEF SnapshotsTyped
<1> QED BY <1>1, <1>2 DEF Snapshots!SnapshotsAreWhole, Snapshots!All

LEMMA SnapshotsBegin == Snapshots!Init => SnapshotsInv
<1> SUFFICES ASSUME Snapshots!Init PROVE SnapshotsInv
  OBVIOUS
<1>1. SnapshotsTyped
  BY DEF Snapshots!Init, SnapshotsTyped, Snapshots!All, Snapshots!Field
<1>2. SequenceCounts /\ FieldsInOrder /\ LoadedSince
  BY DEF Snapshots!Init, SequenceCounts, FieldsInOrder, LoadedSince, Snapshots!All,
         Snapshots!Field
<1>3. Snapshots!SnapshotsAreWhole
  BY DEF Snapshots!Init, Snapshots!SnapshotsAreWhole
<1> QED BY <1>1, <1>2, <1>3 DEF SnapshotsInv

-----------------------------------------------------------------------------
(* publish() *)

LEMMA StoreOddKeeps == SnapshotsInv /\ Snapshots!StoreOdd => SnapshotsInv'
<1> SUFFICES ASSUME SnapshotsInv, Snapshots!StoreOdd PROVE SnapshotsInv'
  OBVIOUS
<1>1. SnapshotsTyped' /\ SequenceCounts'
  BY DEF SnapshotsInv, SnapshotsTyped, SequenceCounts, Snapshots!StoreOdd
<1>2. FieldsInOrder'
  BY DEF SnapshotsInv, SnapshotsTyped, FieldsInOrder, Snapshots!StoreOdd,
         Snapshots!Field
<1>3. LoadedSince'
  BY DEF SnapshotsInv, SnapshotsTyped, LoadedSince, Snapshots!StoreOdd
<1>4. Snapshots!SnapshotsAreWhole'
  BY ResultStays DEF SnapshotsInv, SnapshotsTyped, Snapshots!StoreOdd
<1> QED BY <1>1, <1>2, <1>3, <1>4 DEF SnapshotsInv

\* The sequence is odd, so nothing is promised of what read() has.
LEMMA StoreFieldKeeps == SnapshotsInv /\ Snapshots!StoreField => SnapshotsInv'
<1> SUFFICES ASSUME SnapshotsInv, Snapshots!StoreField PROVE SnapshotsInv'
  OBVIOUS
<1>1. fields' \in [Snapshots!Field -> Nat] /\ stored' \in 0..5
  BY DEF SnapshotsInv, SnapshotsTyped, Snapshots!StoreField, Snapshots!Field
<1>2. SnapshotsTyped'
  BY <1>1 DEF SnapshotsInv, SnapshotsTyped, Snapshots!StoreField
<1>3. SequenceCounts'
  BY DEF SnapshotsInv, SequenceCounts, Snapshots!StoreField, Snapshots!Field
<1>4. FieldsInOrder'
  BY DEF SnapshotsInv, SnapshotsTyped, FieldsInOrder, Snapshots!StoreField,
         Snapshots!Field
<1>5. sequence % 2 = 1
  BY DEF SnapshotsInv, SnapshotsTyped, SequenceCounts, Snapshots!StoreField,
         Snapshots!Field
<1>6. LoadedSince'
  BY <1>5 DEF SnapshotsInv, SnapshotsTyped, LoadedSince, Snapshots!StoreField
<1>7. Snapshots!SnapshotsAreWhole'
  BY ResultStays DEF SnapshotsInv, SnapshotsTyped, Snapshots!StoreField
<1> QED BY <1>2, <1>3, <1>4, <1>6, <1>7 DEF SnapshotsInv

\* The sequence becomes an even one that no read() can have begun with.
LEMMA StoreEvenKeeps == SnapshotsInv /\ Snapshots!StoreEven => SnapshotsInv'
<1> SUFFICES ASSUME SnapshotsInv, Snapshots!StoreEven PROVE SnapshotsInv'
  OBVIOUS
<1>1. SnapshotsTyped' /\ SequenceCounts'
  BY DEF SnapshotsInv, SnapshotsTyped, SequenceCounts, Snapshots!StoreEven
<1>2. FieldsInOrder'
  BY DEF SnapshotsInv, SnapshotsTyped, FieldsInOrder, Snapshots!StoreEven,
         Snapshots!Field
<1>3. LoadedSince'
  BY DEF SnapshotsInv, SnapshotsTyped, LoadedSince, Snapshots!StoreEven
<1>4. Snapshots!SnapshotsAreWhole'
  BY ResultStays DEF SnapshotsInv, SnapshotsTyped, Snapshots!StoreEven
<1> QED BY <1>1, <1>2, <1>3, <1>4 DEF SnapshotsInv

-----------------------------------------------------------------------------
(* read() *)

LEMMA LoadBeforeKeeps == SnapshotsInv /\ Snapshots!LoadBefore => SnapshotsInv'
<1> SUFFICES ASSUME SnapshotsInv, Snapshots!LoadBefore PROVE SnapshotsInv'
  OBVIOUS
<1>1. SnapshotsTyped' /\ SequenceCounts' /\ FieldsInOrder'
  BY DEF SnapshotsInv, SnapshotsTyped, SequenceCounts, FieldsInOrder,
         Snapshots!LoadBefore
<1>2. LoadedSince'
  BY DEF SnapshotsInv, SnapshotsTyped, LoadedSince, Snapshots!LoadBefore,
         Snapshots!Field
<1>3. Snapshots!SnapshotsAreWhole'
  BY ResultStays DEF SnapshotsInv, SnapshotsTyped, Snapshots!LoadBefore
<1> QED BY <1>1, <1>2, <1>3 DEF SnapshotsInv

\* With the sequence even all fields are of one snapshot, this one too.
LEMMA LoadFieldKeeps == SnapshotsInv /\ Snapshots!LoadField => SnapshotsInv'
<1> SUFFICES ASSUME SnapshotsInv, Snapshots!LoadField PROVE SnapshotsInv'
  OBVIOUS
<1>1. /\ got' = [got EXCEPT ![loading] = fields[loading]]
      /\ loading \in Snapshots!Field /\ loading' = loading + 1
      /\ got \in [Snapshots!Field -> Nat] /\ fields \in [Snapshots!Field -> Nat]
            /\ loading' \in 0..5
  BY DEF SnapshotsInv, SnapshotsTyped, Snapshots!LoadField, Snapshots!Field
<1>2. SnapshotsTyped' /\ SequenceCounts' /\ FieldsInOrder'
  BY <1>1 DEF SnapshotsInv, SnapshotsTyped, SequenceCounts, FieldsInOrder,
         Snapshots!LoadField
<1>3. ASSUME before % 2 = 0, sequence = before
      PROVE  since = published /\ \A f \in Snapshots!Field : f < loading' =>
               got'[f] = published
  <2>1. stored = 0
    BY <1>3, EvenMeansIdle DEF SnapshotsInv
  <2>2. fields[loading] = published
    BY <1>1, <2>1 DEF SnapshotsInv, FieldsInOrder, Snapshots!Field
  <2>3. since = published /\ \A f \in Snapshots!Field : f < loading =>
           got[f] = published
    BY <1>1, <1>3 DEF SnapshotsInv, LoadedSince, Snapshots!Field
  <2> QED BY <1>1, <2>2, <2>3 DEF Snapshots!Field
<1>4. LoadedSince'
  BY <1>1, <1>3 DEF SnapshotsInv, LoadedSince, Snapshots!LoadField, Snapshots!Field
<1>5. Snapshots!SnapshotsAreWhole'
  BY ResultStays DEF SnapshotsInv, SnapshotsTyped, Snapshots!LoadField
<1> QED BY <1>2, <1>4, <1>5 DEF SnapshotsInv

\* What read() returns was loaded under one even sequence.
LEMMA LoadAfterKeeps == SnapshotsInv /\ Snapshots!LoadAfter => SnapshotsInv'
<1> SUFFICES ASSUME SnapshotsInv, Snapshots!LoadAfter PROVE SnapshotsInv'
  OBVIOUS
<1>1. SnapshotsTyped' /\ SequenceCounts' /\ FieldsInOrder' /\ LoadedSince'
  BY DEF SnapshotsInv, SnapshotsTyped, SequenceCounts, FieldsInOrder, LoadedSince,
         Snapshots!LoadAfter
<1>2. CASE ~ Snapshots!Unchanged
  <2>1. Snapshots!SnapshotsAreWhole'
    BY <1>2, ResultStays DEF SnapshotsInv, SnapshotsTyped, Snapshots!LoadAfter
  <2> QED BY <1>1, <2>1 DEF SnapshotsInv
<1>3. CASE Snapshots!Unchanged
  <2>1. since = published /\ \A f \in Snapshots!Field : got[f] = published
    BY <1>3 DEF SnapshotsInv, LoadedSince, Snapshots!LoadAfter, Snapshots!Unchanged,
           Snapshots!Field
  <2>2. got = Snapshots!All(published)
    BY <2>1 DEF SnapshotsInv, SnapshotsTyped, Snapshots!All
  <2>3. result' = [fields |-> Snapshots!All(published), since |-> published]
        /\ published' = published
    BY <1>3, <2>1, <2>2 DEF Snapshots!LoadAfter
  <2>4. published \in result'.since..published'
    BY <2>3 DEF SnapshotsInv, SnapshotsTyped
  <2>5. result'.fields = Snapshots!All(published)
    BY <2>3
  <2>6. Snapshots!SnapshotsAreWhole'
    BY <2>4, <2>5 DEF Snapshots!SnapshotsAreWhole, Snapshots!All
  <2> QED BY <1>1, <2>6 DEF SnapshotsInv
<1> QED BY <1>2, <1>3

-----------------------------------------------------------------------------

LEMMA SnapshotsStay ==
  SnapshotsInv /\ [Snapshots!Next]_(Snapshots!vars) => SnapshotsInv'
<1> SUFFICES ASSUME SnapshotsInv, [Snapshots!Next]_(Snapshots!vars) PROVE SnapshotsInv'
  OBVIOUS
<1>1. CASE Snapshots!StoreOdd BY <1>1, StoreOddKeeps
<1>2. CASE Snapshots!StoreField BY <1>2, StoreFieldKeeps
<1>3. CASE Snapshots!StoreEven BY <1>3, StoreEvenKeeps
<1>4. CASE Snapshots!LoadBefore BY <1>4, LoadBeforeKeeps
<1>5. CASE Snapshots!LoadField BY <1>5, LoadFieldKeeps
<1>6. CASE Snapshots!LoadAfter BY <1>6, LoadAfterKeeps
<1>7. CASE UNCHANGED Snapshots!vars
  BY <1>7 DEF Snapshots!vars, SnapshotsInv, SnapshotsTyped, SequenceCounts,
         FieldsInOrder, LoadedSince,
              Snapshots!SnapshotsAreWhole
<1> QED BY <1>1, <1>2, <1>3, <1>4, <1>5, <1>6, <1>7 DEF Snapshots!Next

LEMMA SnapshotsMove == [Next]_vars => [Snapshots!Next]_(Snapshots!vars)
BY DEF Snapshots!vars, Next, SpotifyStep, TelemetryStep, CoefficientsStep,
       SnapshotsStep, BlocksStep, vars, coefficientVars, snapshotVars, blockVars

\* Whatever publish() calls a read() overlaps, it returns a snapshot published
\* as one and not older than the last when it looked (PlaybackState in
\* src/audio/blocks.h).
THEOREM SnapshotsAlwaysWhole == Spec => []SnapshotsAreWhole
<1>1. Init => SnapshotsInv
  BY SnapshotsBegin DEF Init
<1>2. SnapshotsInv => SnapshotsAreWhole
  BY DEF SnapshotsInv, SnapshotsAreWhole
<1> QED BY <1>1, <1>2, SnapshotsMove, SnapshotsStay, PTL DEF Spec

-----------------------------------------------------------------------------
(* Blocks: the ring *)

Bounds == Capacity \in Nat \ {0} /\ MaxPushed \in Nat

BlocksTyped ==
  /\ ring \in [0..(Capacity - 1) -> Words]
  /\ head \in Nat /\ tail \in Nat
  /\ room \in BOOLEAN /\ filled \in 0..2

\* The indices are at most a ring apart, and less while a slot is given out.
InBounds == head <= tail /\ tail - head <= Capacity /\ (room => tail - head < Capacity)

\* Each slot in the queue holds the block of its index.
QueueHolds == \A index \in Nat : head <= index /\ index < tail
    => Holds(ring[Blocks!Place(index)], index)

\* What is written of the slot at the tail.
TailFilled == room => \A w \in 1..2 : w <= filled => ring[Blocks!Place(tail)][w] = tail

BlocksInv == BlocksTyped /\ InBounds /\ QueueHolds /\ TailFilled

-----------------------------------------------------------------------------
(* The places of the ring *)

LEMMA PlaceIn ==
  ASSUME Bounds, NEW index \in Nat
  PROVE  Blocks!Place(index) \in 0..(Capacity - 1)
BY DEF Bounds, Blocks!Place

\* Less than a multiple of a positive number is a smaller multiple.
LEMMA NoMultipleBetween ==
  ASSUME NEW c \in Nat \ {0}, NEW k \in Int, 0 <= c * k, c * k < c
  PROVE  k = 0
<1>1. k >= 1 => c * k >= c
  <2> SUFFICES ASSUME k >= 1 PROVE c * k >= c
    OBVIOUS
  <2>1. c * k = c * (k - 1) + c
    OBVIOUS
  <2>2. c * (k - 1) >= 0
    OBVIOUS
  <2> QED BY <2>1, <2>2
<1>2. k <= -1 => c * k < 0
  OBVIOUS
<1> QED BY <1>1, <1>2

\* Indices less than a ring apart have different places.
LEMMA PlacesDiffer ==
  ASSUME Bounds, NEW a \in Nat, NEW b \in Nat, a < b, b - a < Capacity
  PROVE  Blocks!Place(a) # Blocks!Place(b)
<1> SUFFICES ASSUME a % Capacity = b % Capacity PROVE FALSE
  BY DEF Blocks!Place
<1> DEFINE p == a \div Capacity
           q == b \div Capacity
<1>1. p \in Int /\ q \in Int
  BY DEF Bounds
<1>2. a = Capacity * p + (a % Capacity) /\ b = Capacity * q + (b % Capacity)
  BY DEF Bounds
<1>3. a % Capacity \in Int /\ b % Capacity \in Int
  BY DEF Bounds
<1> HIDE DEF p, q
<1>4. b - a = Capacity * q - Capacity * p
  BY <1>1, <1>2, <1>3 DEF Bounds
<1>5. Capacity * q - Capacity * p = Capacity * (q - p)
  BY <1>1 DEF Bounds
<1>6. q - p = 0
  BY <1>1, <1>4, <1>5, NoMultipleBetween DEF Bounds
<1> QED BY <1>1, <1>4, <1>5, <1>6 DEF Bounds

-----------------------------------------------------------------------------
(* The invariant *)

LEMMA BlocksBegin == ASSUME Bounds PROVE Blocks!Init => BlocksInv
<1> SUFFICES ASSUME Blocks!Init PROVE BlocksInv
  OBVIOUS
<1>1. <<Blocks!NoBlock, Blocks!NoBlock>> \in Words
  BY DEF Bounds, Blocks!NoBlock, Words
<1>2. BlocksTyped
  <2>1. ring \in [0..(Capacity - 1) -> Words]
    BY <1>1 DEF Blocks!Init
  <2>2. head \in Nat /\ tail \in Nat /\ filled \in 0..2
    BY DEF Blocks!Init
  <2>3. room \in BOOLEAN
    BY DEF Blocks!Init
  <2> QED BY <2>1, <2>2, <2>3 DEF BlocksTyped
<1>3. InBounds /\ QueueHolds /\ TailFilled
  BY DEF Bounds, Blocks!Init, InBounds, QueueHolds, TailFilled
<1> QED BY <1>2, <1>3 DEF BlocksInv

LEMMA BackKeeps == ASSUME Bounds PROVE BlocksInv /\ Blocks!Back => BlocksInv'
<1> SUFFICES ASSUME BlocksInv, Blocks!Back PROVE BlocksInv'
  OBVIOUS
<1> QED BY DEF BlocksInv, Blocks!Back, BlocksTyped, InBounds, QueueHolds, TailFilled

\* The decoder writes a slot that is not in the queue.
LEMMA FillIs ==
  ASSUME Bounds, BlocksInv, Blocks!Fill
  PROVE  /\ ring' \in [0..(Capacity - 1) -> Words]
         /\ \A index \in Nat : head <= index /\ index < tail =>
              ring'[Blocks!Place(index)] = ring[Blocks!Place(index)]
         /\ \A w \in 1..2 : ring'[Blocks!Place(tail)][w] =
              IF w = filled + 1 THEN tail ELSE ring[Blocks!Place(tail)][w]
<1>1. /\ ring \in [0..(Capacity - 1) -> Words] /\ tail \in Nat /\ head \in Nat
      /\ filled \in 0..2 /\ filled < 2 /\ tail - head < Capacity
      /\ ring' = [ring EXCEPT ![Blocks!Place(tail)] =
               [ring[Blocks!Place(tail)] EXCEPT ![filled + 1] = tail]]
  BY DEF BlocksInv, BlocksTyped, InBounds, Blocks!Fill
<1>2. Blocks!Place(tail) \in 0..(Capacity - 1)
  BY <1>1, PlaceIn
<1> DEFINE w == [ring[Blocks!Place(tail)] EXCEPT ![filled + 1] = tail]
<1>3. w \in Words
  BY <1>1, <1>2 DEF Words
<1>4. ring' \in [0..(Capacity - 1) -> Words]
  BY <1>1, <1>2, <1>3
<1>5. ASSUME NEW index \in Nat, head <= index, index < tail
      PROVE  ring'[Blocks!Place(index)] = ring[Blocks!Place(index)]
  <2>1. Blocks!Place(index) \in 0..(Capacity - 1)
    BY PlaceIn
  <2>2. tail - index < Capacity
    BY <1>1, <1>5 DEF Bounds
  <2>3. Blocks!Place(index) # Blocks!Place(tail)
    BY <1>1, <1>5, <2>2, PlacesDiffer
  <2> QED BY <1>1, <2>1, <2>3
<1>6. ASSUME NEW i \in 1..2
      PROVE  ring'[Blocks!Place(tail)][i] =
                   IF i = filled + 1 THEN tail ELSE ring[Blocks!Place(tail)][i]
  BY <1>1, <1>2 DEF Words
<1> QED BY <1>4, <1>5, <1>6

LEMMA FillKeeps == ASSUME Bounds PROVE BlocksInv /\ Blocks!Fill => BlocksInv'
<1> SUFFICES ASSUME BlocksInv, Blocks!Fill PROVE BlocksInv'
  OBVIOUS
<1>1. BlocksTyped'
  BY FillIs DEF BlocksInv, BlocksTyped, Blocks!Fill
<1>2. InBounds'
  BY DEF BlocksInv, InBounds, Blocks!Fill
<1>3. QueueHolds'
  BY FillIs DEF BlocksInv, QueueHolds, Blocks!Fill, Blocks!Place
<1>4. TailFilled'
  <2>1. \A w \in 1..2 : w <= filled + 1 => ring'[Blocks!Place(tail)][w] = tail
    BY FillIs DEF BlocksInv, BlocksTyped, TailFilled, Blocks!Fill
  <2> QED BY <2>1 DEF TailFilled, Blocks!Fill, Blocks!Place
<1> QED BY <1>1, <1>2, <1>3, <1>4 DEF BlocksInv

LEMMA AbandonKeeps == ASSUME Bounds PROVE BlocksInv /\ Blocks!Abandon => BlocksInv'
<1> SUFFICES ASSUME BlocksInv, Blocks!Abandon PROVE BlocksInv'
  OBVIOUS
<1> QED BY DEF BlocksInv, Blocks!Abandon, BlocksTyped, InBounds, QueueHolds, TailFilled

\* A slot is pushed with both words written.
LEMMA PushKeeps == ASSUME Bounds PROVE BlocksInv /\ Blocks!Push => BlocksInv'
<1> SUFFICES ASSUME BlocksInv, Blocks!Push PROVE BlocksInv'
  OBVIOUS
<1>1. BlocksTyped'
  <2>1. room' \in BOOLEAN
    BY DEF Blocks!Push
  <2>2. tail' \in Nat
    BY DEF BlocksInv, BlocksTyped, Blocks!Push
  <2> QED BY <2>1, <2>2 DEF BlocksInv, BlocksTyped, Blocks!Push
<1>2. InBounds'
  <2>1. tail - head < Capacity /\ head <= tail
    BY DEF BlocksInv, InBounds, Blocks!Push
  <2>2. head <= tail' /\ tail' - head <= Capacity
    BY <2>1 DEF Bounds, BlocksInv, BlocksTyped, Blocks!Push
  <2> QED BY <2>2 DEF InBounds, Blocks!Push
<1>3. Holds(ring[Blocks!Place(tail)], tail)
  BY DEF BlocksInv, TailFilled, Holds, Blocks!Push
<1>4. QueueHolds'
  BY <1>3 DEF BlocksInv, BlocksTyped, QueueHolds, Blocks!Push, Blocks!Place
<1>5. TailFilled'
  BY DEF TailFilled, Blocks!Push
<1> QED BY <1>1, <1>2, <1>4, <1>5 DEF BlocksInv

LEMMA PopKeeps == ASSUME Bounds PROVE BlocksInv /\ Blocks!Pop => BlocksInv'
<1> SUFFICES ASSUME BlocksInv, Blocks!Pop PROVE BlocksInv'
  OBVIOUS
<1>1. BlocksTyped'
  <2>1. head' \in Nat
    BY DEF BlocksInv, BlocksTyped, Blocks!Pop
  <2> QED BY <2>1 DEF BlocksInv, BlocksTyped, Blocks!Pop
<1>2. InBounds'
  <2>1. head' <= tail /\ tail - head' < Capacity
    BY DEF Bounds, BlocksInv, BlocksTyped, InBounds, Blocks!Pop
  <2> QED BY <2>1 DEF Bounds, BlocksInv, BlocksTyped, InBounds, Blocks!Pop
<1>3. QueueHolds' /\ TailFilled'
  BY DEF BlocksInv, BlocksTyped, QueueHolds, TailFilled, Blocks!Pop, Blocks!Place
<1> QED BY <1>1, <1>2, <1>3 DEF BlocksInv

LEMMA BlocksStay ==
  ASSUME Bounds PROVE BlocksInv /\ [Blocks!Next]_(Blocks!vars) => BlocksInv'
<1> SUFFICES ASSUME BlocksInv, [Blocks!Next]_(Blocks!vars) PROVE BlocksInv'
  OBVIOUS
<1>1. CASE Blocks!Back BY <1>1, BackKeeps
<1>2. CASE Blocks!Fill BY <1>2, FillKeeps
<1>3. CASE Blocks!Abandon BY <1>3, AbandonKeeps
<1>4. CASE Blocks!Push BY <1>4, PushKeeps
<1>5. CASE Blocks!Pop BY <1>5, PopKeeps
<1>6. CASE UNCHANGED Blocks!vars
  BY <1>6 DEF Blocks!vars, BlocksInv, BlocksTyped, InBounds, QueueHolds, TailFilled,
         Blocks!Place
<1> QED BY <1>1, <1>2, <1>3, <1>4, <1>5, <1>6 DEF Blocks!Next

-----------------------------------------------------------------------------
(* The refinement *)

\* What the queue is to its threads: the indices from head to tail.
Contents == [n \in 1..(tail - head) |-> Blocks!BlockAt(head + n - 1)]
Indices(first, next) == [n \in 1..(next - first) |-> first + n - 1]

ContentsInOrder == Contents = Indices(head, tail)

LEMMA ContentsAre == ASSUME Bounds PROVE BlocksInv => ContentsInOrder
<1> SUFFICES ASSUME BlocksInv PROVE ContentsInOrder
  OBVIOUS
<1>1. ASSUME NEW n \in 1..(tail - head)
      PROVE  Blocks!BlockAt(head + n - 1) = head + n - 1
  <2>1. /\ head + n - 1 \in Nat /\ head <= head + n - 1 /\ head + n - 1 < tail
    BY DEF BlocksInv, BlocksTyped
  <2>2. Holds(ring[Blocks!Place(head + n - 1)], head + n - 1)
    BY <2>1 DEF BlocksInv, QueueHolds
  <2> QED BY <2>2 DEF Blocks!BlockAt, Holds
<1> QED BY <1>1 DEF ContentsInOrder, Contents, Indices

LEMMA IndicesSeq ==
  ASSUME NEW a \in Nat, NEW b \in Nat, a <= b
  PROVE  Indices(a, b) \in Seq(Nat) /\ Len(Indices(a, b)) = b - a
<1>1. b - a \in Nat /\ \A n \in 1..(b - a) : a + n - 1 \in Nat
  OBVIOUS
<1>2. Indices(a, b) \in [1..(b - a) -> Nat]
  BY <1>1 DEF Indices
<1> QED BY <1>1, <1>2

\* push() appends the index of the tail.
LEMMA IndicesAppend ==
  ASSUME NEW a \in Nat, NEW b \in Nat, a <= b
  PROVE  Indices(a, b + 1) = Append(Indices(a, b), b)
<1> DEFINE s == Indices(a, b)
           t == Indices(a, b + 1)
<1>1. /\ s \in Seq(Nat) /\ Len(s) = b - a
      /\ t \in Seq(Nat) /\ Len(t) = b + 1 - a
  <2>1. s \in Seq(Nat) /\ Len(s) = b - a
    BY IndicesSeq
  <2>2. b + 1 \in Nat /\ a <= b + 1
    OBVIOUS
  <2>3. t \in Seq(Nat) /\ Len(t) = b + 1 - a
    BY <2>2, IndicesSeq
  <2> QED BY <2>1, <2>3
<1> HIDE DEF s, t
<1>2. Append(s, b) \in Seq(Nat) /\ Len(Append(s, b)) = b + 1 - a
  <2>1. Append(s, b) \in Seq(Nat) /\ Len(Append(s, b)) = Len(s) + 1
    BY <1>1, AppendProperties
  <2> QED BY <1>1, <2>1
<1>3. ASSUME NEW i \in 1..(b + 1 - a) PROVE t[i] = Append(s, b)[i]
  <2>1. t[i] = a + i - 1
    BY DEF Indices, t
  <2>2. CASE i <= b - a
    <3>1. Append(s, b)[i] = s[i]
      BY <1>1, <2>2, AppendProperties
    <3> QED BY <2>1, <2>2, <3>1 DEF Indices, s
  <2>3. CASE i = b - a + 1
    BY <1>1, <2>1, <2>3, AppendProperties
  <2>4. i <= b - a \/ i = b - a + 1
    OBVIOUS
  <2> QED BY <2>2, <2>3, <2>4
<1>4. t = Append(s, b)
  BY <1>1, <1>2, <1>3, SeqEqual
<1> QED BY <1>4 DEF s, t

\* pop() takes the first.
LEMMA IndicesTail ==
  ASSUME NEW a \in Nat, NEW b \in Nat, a < b
  PROVE  Indices(a + 1, b) = Tail(Indices(a, b)) /\ Indices(a, b) # <<>>
<1> DEFINE s == Indices(a, b)
           t == Indices(a + 1, b)
<1>1. /\ s \in Seq(Nat) /\ Len(s) = b - a
      /\ t \in Seq(Nat) /\ Len(t) = b - a - 1
  <2>1. a + 1 \in Nat /\ a + 1 <= b /\ a <= b
    OBVIOUS
  <2>2. b - (a + 1) = b - a - 1
    OBVIOUS
  <2> QED BY <2>1, <2>2, IndicesSeq
<1>2. s # <<>>
  BY <1>1
<1>3. Tail(s) \in Seq(Nat) /\ Len(Tail(s)) = b - a - 1
  BY <1>1, <1>2, HeadTailProperties
<1>4. ASSUME NEW i \in 1..(b - a - 1) PROVE t[i] = Tail(s)[i]
  <2>1. Tail(s)[i] = s[i + 1]
    BY <1>1, <1>2, HeadTailProperties
  <2>2. t[i] = a + i /\ s[i + 1] = a + i
    BY DEF Indices
  <2> QED BY <2>1, <2>2
<1> HIDE DEF s, t
<1>5. t = Tail(s)
  BY <1>1, <1>3, <1>4, SeqEqual
<1> QED BY <1>2, <1>5 DEF s, t

LEMMA InitRefines == ASSUME Bounds PROVE Blocks!Init => Blocks!Queued!Init
<1> SUFFICES ASSUME Blocks!Init PROVE Blocks!Queued!Init
  OBVIOUS
<1>1. Contents = Indices(0, 0)
  BY BlocksBegin, ContentsAre DEF ContentsInOrder, Blocks!Init
<1>2. Indices(0, 0) \in Seq(Nat) /\ Len(Indices(0, 0)) = 0
  BY IndicesSeq
<1>3. Contents = <<>>
  BY <1>1, <1>2
<1> QED BY <1>3 DEF Contents, Blocks!Queued!Init, Blocks!Init

LEMMA StepRefines ==
  ASSUME Bounds, BlocksInv, [Blocks!Next]_(Blocks!vars), ContentsInOrder,
         ContentsInOrder'
  PROVE  [Blocks!Queued!Push \/ Blocks!Queued!Pop]_(Blocks!Queued!vars)
<1>1. Contents = Indices(head, tail) /\ Contents' = Indices(head', tail')
  BY DEF ContentsInOrder
<1>2. head \in Nat /\ tail \in Nat /\ head <= tail
  BY DEF BlocksInv, BlocksTyped, InBounds
<1>3. CASE Blocks!Push
  <2>1. Contents' = Append(Contents, tail) /\ tail' = tail + 1
    BY <1>1, <1>2, <1>3, IndicesAppend DEF Blocks!Push
  <2>2. Len(Contents) < Capacity
    BY <1>1, <1>2, <1>3, IndicesSeq DEF BlocksInv, InBounds, Blocks!Push
  <2> QED BY <2>1, <2>2 DEF Contents, Blocks!Queued!Push
<1>4. CASE Blocks!Pop
  <2>1. head < tail
    BY <1>2, <1>4 DEF Blocks!Pop
  <2>2. Contents' = Tail(Contents) /\ Contents # <<>> /\ tail' = tail
    BY <1>1, <1>2, <1>4, <2>1, IndicesTail DEF Blocks!Pop
  <2> QED BY <2>2 DEF Contents, Blocks!Queued!Pop
<1>5. CASE Blocks!Back \/ Blocks!Fill \/ Blocks!Abandon \/ UNCHANGED Blocks!vars
  <2>1. Contents' = Contents /\ tail' = tail
    BY <1>1, <1>5 DEF Blocks!Back, Blocks!Fill, Blocks!Abandon, Blocks!vars
  <2> QED BY <2>1 DEF Contents, Blocks!Queued!vars
<1> QED BY <1>3, <1>4, <1>5 DEF Blocks!Next

LEMMA BlocksMove == [Next]_vars => [Blocks!Next]_(Blocks!vars)
BY DEF Blocks!vars, Next, SpotifyStep, TelemetryStep, CoefficientsStep,
       SnapshotsStep, BlocksStep, vars, coefficientVars, snapshotVars, blockVars

\* For a ring of any size the decoder and the device callback may take the block
\* queue for a sequence of whole blocks (BlockQueue in src/audio/blocks.h).
THEOREM RingImplementsSequence == Spec => RingIsSequence
<1>0. Bounds
  BY PartsAssumption DEF Bounds
<1>1. Init => BlocksInv /\ Blocks!Queued!Init
  BY <1>0, BlocksBegin, InitRefines DEF Init
<1>2. BlocksInv => ContentsInOrder
  BY <1>0, ContentsAre
<1>3. BlocksInv /\ [Blocks!Next]_(Blocks!vars) => BlocksInv'
  BY <1>0, BlocksStay
<1>4. BlocksInv /\ [Blocks!Next]_(Blocks!vars) /\ ContentsInOrder /\ ContentsInOrder'
        => [Blocks!Queued!Push \/ Blocks!Queued!Pop]_(Blocks!Queued!vars)
  BY <1>0, StepRefines
<1> QED
  BY <1>1, <1>2, <1>3, <1>4, BlocksMove, PTL
  DEF Spec, RingIsSequence, Blocks!RingIsSequence, Blocks!Queued!Spec

-----------------------------------------------------------------------------
(* Telemetry: runs and their files *)

Kinds == {"start", "error", "exit", "crash", "unclean_exit"}
Ends == {"none", "closed", "killed", "crash", "begin", "forgotten"}
Events == [run : Nat, kind : Kinds, n : Nat]
Phases == {"off", "adopting", "live", "finished", "gone"}
RemoveSteps == {"remove json", "remove crash", "remove rest"}
Steps == {"none", "crash", "json"} \cup RemoveSteps
RunRecord ==
  [phase : Phases, queue : Seq(Events), inFlight : Nat, reply : Seq(Events),
   blocked : BOOLEAN, todo : SUBSET Telemetry!Runs,
   reading : [of : 0..MaxRuns, step : Steps]]
FileRecord ==
  [lock : {"none", "held", "stale"}, json : BOOLEAN, crash : BOOLEAN, queue : Seq(Events)]
SeenRecord ==
  [owed : SUBSET Events, told : SUBSET [of : Nat, as : Kinds], extras : Nat,
   ends : [Telemetry!Runs -> Ends]]

\* What a run's methods pass on
Call == [x : RunRecord, f : FileRecord, seen : SeenRecord]

TelemetryTyped ==
  /\ runs \in [Telemetry!Runs -> RunRecord]
  /\ files \in [Telemetry!Runs -> FileRecord]
  /\ seen \in SeenRecord

\* A run's place in its life and what it has on disk
Life(x, f, end) ==
  /\ f.lock = "held" <=> x.phase \in {"adopting", "live", "finished"}
  /\ x.phase = "off" => x.queue = <<>> /\ f = Telemetry!NoFiles
  /\ x.phase \in {"off", "adopting"} => ~ f.json /\ ~ f.crash /\ f.queue = <<>>
  /\ x.phase \in {"live", "finished"} => ~ f.crash /\ f.queue = x.queue
  /\ f.json <=> x.phase = "live" \/ (x.phase = "gone" /\ f.json)
  /\ x.phase = "gone" <=> end # "none"

\* What is still in flight of the batch that is out
InFlight(x) ==
  /\ x.phase \notin {"live", "finished"} => x.reply = <<>>
  /\ x.inFlight <= Len(x.queue)
  /\ \A k \in 1..x.inFlight : x.queue[k] \in Telemetry!ToSet(x.reply)

\* While a run takes the files of another away, it has the events of that one.
ReadsAnother(r) ==
  LET j == runs[r].reading.of
  IN /\ j = 0 <=> runs[r].reading.step = "none"
     /\ j # 0 => /\ runs[r].phase = "adopting" /\ runs[j].phase = "gone"
                 /\ Telemetry!ToSet(files[j].queue) \subseteq Telemetry!ToSet(runs[r].queue)
     /\ runs[r].phase = "adopting" =>
          \A i \in runs[r].todo : runs[i].phase # "off"

\* What is on disk of a run that is gone tells how it ended, or that was told.
EndOnDisk(j) ==
  LET end == seen.ends[j]
  IN /\ files[j].crash => end = "crash"
     /\ runs[j].phase = "gone" /\ files[j].json => end \in {"killed", "crash"}
     /\ end = "killed" => files[j].json \/ Telemetry!Told(j, "unclean_exit")
     /\ end = "crash" => files[j].crash \/ (Telemetry!Told(j, "crash") /\ ~ files[j].json)
     /\ Telemetry!Told(j, "crash") => end \in {"crash", "forgotten"}
     /\ Telemetry!Told(j, "unclean_exit") => end \in {"killed", "forgotten"}

\* How far a run is with the files of another
EndRead(r) ==
  LET j == runs[r].reading.of
      step == runs[r].reading.step
      end == seen.ends[j]
  IN j # 0 =>
     /\ step = "json" => ~ files[j].crash
     /\ step \in {"remove crash", "remove rest"} => ~ files[j].json
     /\ step = "remove rest" => ~ files[j].crash
     /\ step \in RemoveSteps => /\ end = "killed" => Telemetry!Told(j, "unclean_exit")
                                /\ end = "crash" => Telemetry!Told(j, "crash")

LivesAndFiles == \A r \in Telemetry!Runs : Life(runs[r], files[r], seen.ends[r])
Batches == \A r \in Telemetry!Runs : InFlight(runs[r])
Readings == \A r \in Telemetry!Runs : ReadsAnother(r) /\ EndRead(r)
EndsOnDisk == \A j \in Telemetry!Runs : EndOnDisk(j)

TelemetryInv ==
  /\ TelemetryTyped /\ LivesAndFiles /\ Batches /\ Readings /\ EndsOnDisk
  /\ Telemetry!EventsAreKept

-----------------------------------------------------------------------------
(* The events of a queue *)

LEMMA SetIs ==
  ASSUME NEW s \in Seq(Events), NEW e
  PROVE  e \in Telemetry!ToSet(s) <=> \E i \in 1..Len(s) : s[i] = e
BY DEF Telemetry!ToSet

LEMMA SetOfNone == Telemetry!ToSet(<<>>) = {}
BY DEF Telemetry!ToSet

LEMMA SetOfAppend ==
  ASSUME NEW s \in Seq(Events), NEW e \in Events
  PROVE  Telemetry!ToSet(Append(s, e)) = Telemetry!ToSet(s) \cup {e}
<1> DEFINE t == Append(s, e)
<1>1. /\ t \in Seq(Events) /\ Len(t) = Len(s) + 1 /\ Len(s) \in Nat
      /\ \A i \in 1..Len(s) : t[i] = s[i]
      /\ t[Len(s) + 1] = e
  BY AppendProperties
<1> HIDE DEF t
<1>2. ASSUME NEW d PROVE d \in Telemetry!ToSet(t) <=> d \in Telemetry!ToSet(s) \cup {e}
  <2>1. d \in Telemetry!ToSet(t) <=> \E i \in 1..(Len(s) + 1) : t[i] = d
    BY <1>1, SetIs
  <2>2. d \in Telemetry!ToSet(s) <=> \E i \in 1..Len(s) : s[i] = d
    BY SetIs
  <2> QED BY <1>1, <2>1, <2>2
<1> QED BY <1>2 DEF t

LEMMA SetOfConcat ==
  ASSUME NEW s \in Seq(Events), NEW t \in Seq(Events)
  PROVE  Telemetry!ToSet(s \o t) = Telemetry!ToSet(s) \cup Telemetry!ToSet(t)
<1> DEFINE c == s \o t
<1>1. /\ c \in Seq(Events) /\ Len(c) = Len(s) + Len(t) /\ Len(s) \in Nat /\ Len(t) \in Nat
      /\ \A i \in 1..Len(s) : c[i] = s[i]
      /\ \A i \in 1..Len(t) : c[Len(s) + i] = t[i]
  BY ConcatProperties
<1> HIDE DEF c
<1>2. ASSUME NEW d
      PROVE  d \in Telemetry!ToSet(c) <=> d \in Telemetry!ToSet(s) \cup Telemetry!ToSet(t)
  <2>1. /\ d \in Telemetry!ToSet(c) <=> \E i \in 1..(Len(s) + Len(t)) : c[i] = d
        /\ d \in Telemetry!ToSet(s) <=> \E i \in 1..Len(s) : s[i] = d
        /\ d \in Telemetry!ToSet(t) <=> \E i \in 1..Len(t) : t[i] = d
    BY <1>1, SetIs
  <2>2. ASSUME d \in Telemetry!ToSet(c)
        PROVE  d \in Telemetry!ToSet(s) \cup Telemetry!ToSet(t)
    <3>1. PICK i \in 1..(Len(s) + Len(t)) : c[i] = d
      BY <2>1, <2>2
    <3>2. CASE i <= Len(s)
      BY <1>1, <2>1, <3>1, <3>2
    <3>3. CASE i > Len(s)
      <4>1. i - Len(s) \in 1..Len(t) /\ i = Len(s) + (i - Len(s))
        BY <1>1, <3>3
      <4> QED BY <1>1, <2>1, <3>1, <4>1
    <3> QED BY <1>1, <3>2, <3>3
  <2>3. ASSUME d \in Telemetry!ToSet(s) PROVE d \in Telemetry!ToSet(c)
    BY <1>1, <2>1, <2>3
  <2>4. ASSUME d \in Telemetry!ToSet(t) PROVE d \in Telemetry!ToSet(c)
    <3>1. PICK i \in 1..Len(t) : t[i] = d
      BY <2>1, <2>4
    <3>2. Len(s) + i \in 1..(Len(s) + Len(t)) /\ c[Len(s) + i] = d
      BY <1>1, <3>1
    <3> QED BY <2>1, <3>2
  <2> QED BY <2>2, <2>3, <2>4
<1> QED BY <1>2 DEF c

LEMMA ConcatIs ==
  ASSUME NEW s \in Seq(Events), NEW t \in Seq(Events)
  PROVE  /\ s \o t \in Seq(Events) /\ Len(s \o t) \in Nat /\ Len(s) <= Len(s \o t)
         /\ \A i \in 1..Len(s) : (s \o t)[i] = s[i]
<1> DEFINE c == s \o t
<1>1. /\ c \in Seq(Events) /\ Len(c) = Len(s) + Len(t) /\ Len(s) \in Nat /\ Len(t) \in Nat
      /\ \A i \in 1..Len(s) : c[i] = s[i]
  BY ConcatProperties
<1> HIDE DEF c
<1>2. Len(s) <= Len(c)
  BY <1>1
<1> QED BY <1>1, <1>2 DEF c

\* What is left of a queue when its first n are gone
Rest(s, n) == SubSeq(s, n + 1, Len(s))

LEMMA RestIs ==
  ASSUME NEW s \in Seq(Events), NEW n \in 0..Len(s)
  PROVE  /\ Rest(s, n) \in Seq(Events) /\ Len(Rest(s, n)) = Len(s) - n
         /\ \A i \in 1..(Len(s) - n) : Rest(s, n)[i] = s[i + n]
<1>1. Len(s) \in Nat
  OBVIOUS
<1>2. \A i \in (n + 1)..Len(s) : s[i] \in Events
  BY <1>1
<1>3. SubSeq(s, n + 1, Len(s)) \in Seq(Events)
  BY <1>1, <1>2, SubSeqProperties
<1>4. /\ Len(SubSeq(s, n + 1, Len(s))) =
              IF n + 1 <= Len(s) THEN Len(s) - (n + 1) + 1 ELSE 0
      /\ \A i \in 1..(Len(s) - (n + 1) + 1) :
           SubSeq(s, n + 1, Len(s))[i] = s[n + 1 + i - 1]
  <2> DEFINE m == n + 1
             l == Len(s)
  <2>1. m \in Int /\ l \in Int /\ \A i \in m..l : s[i] \in Events
    BY <1>1, <1>2
  <2> HIDE DEF m, l
  <2>2. /\ Len(SubSeq(s, m, l)) = IF m <= l THEN l - m + 1 ELSE 0
        /\ \A i \in 1..(l - m + 1) : SubSeq(s, m, l)[i] = s[m + i - 1]
    BY <2>1, SubSeqProperties
  <2> QED BY <2>2 DEF m, l
<1> DEFINE t == Rest(s, n)
<1>5. /\ t \in Seq(Events) /\ Len(t) = IF n + 1 <= Len(s) THEN Len(s) - (n + 1) + 1 ELSE 0
      /\ \A i \in 1..(Len(s) - (n + 1) + 1) : t[i] = s[n + 1 + i - 1]
  BY <1>3, <1>4 DEF Rest
<1> HIDE DEF t
<1>6. Len(t) = Len(s) - n
  BY <1>1, <1>5
<1>7. \A i \in 1..(Len(s) - n) : t[i] = s[i + n]
  BY <1>1, <1>5
<1> QED BY <1>5, <1>6, <1>7 DEF t

\* What goes with the first n is not kept any more, the others are.
LEMMA RestHas ==
  ASSUME NEW s \in Seq(Events), NEW n \in 0..Len(s), NEW D,
         \A k \in 1..n : s[k] \in D
  PROVE  Telemetry!ToSet(s) \subseteq D \cup Telemetry!ToSet(Rest(s, n))
<1> SUFFICES ASSUME NEW e \in Telemetry!ToSet(s), e \notin D
             PROVE  e \in Telemetry!ToSet(Rest(s, n))
  OBVIOUS
<1>1. PICK i \in 1..Len(s) : s[i] = e
  BY SetIs
<1>2. Len(s) \in Nat /\ i > n
  BY <1>1
<1>3. i - n \in 1..(Len(s) - n) /\ i = (i - n) + n
  BY <1>2
<1> DEFINE t == Rest(s, n)
<1>4. /\ t \in Seq(Events) /\ Len(t) = Len(s) - n
      /\ \A k \in 1..(Len(s) - n) : t[k] = s[k + n]
  BY RestIs
<1> HIDE DEF t
<1>5. t[i - n] = e
  BY <1>1, <1>3, <1>4
<1> QED BY <1>3, <1>4, <1>5, SetIs DEF t

-----------------------------------------------------------------------------
(* The calls *)

\* A call that may go on: what is owed is with the others or in this queue.
Sound(b, others) ==
  b \in Call /\ InFlight(b.x) /\ b.seen.owed \subseteq others \cup Telemetry!ToSet(b.x.queue)

\* What the calls on the queue leave alone
SameRest(b, c) ==
  /\ c.x.phase = b.x.phase /\ c.x.reading = b.x.reading
  /\ c.f.lock = b.f.lock /\ c.f.json = b.f.json /\ c.f.crash = b.f.crash
  /\ c.seen.told = b.seen.told /\ c.seen.ends = b.seen.ends

LEMMA CallFields ==
  ASSUME NEW b \in Call
  PROVE  /\ b.x \in RunRecord /\ b.f \in FileRecord /\ b.seen \in SeenRecord
         /\ b.x.queue \in Seq(Events) /\ b.x.reply \in Seq(Events) /\ b.x.inFlight \in Nat
         /\ b.seen.owed \in SUBSET Events /\ Len(b.x.queue) \in Nat
BY DEF Call, RunRecord, SeenRecord

LEMMA QueuedIs ==
  ASSUME NEW b \in Call, NEW e \in Events
  PROVE  /\ Telemetry!Queued(b, e) \in Call
         /\ Telemetry!Queued(b, e).x = [b.x EXCEPT !.queue = Append(b.x.queue, e)]
         /\ Telemetry!Queued(b, e).f = b.f
         /\ Telemetry!Queued(b, e).seen = [b.seen EXCEPT !.owed = b.seen.owed \cup {e}]
<1> DEFINE q == Append(b.x.queue, e)
           o == b.seen.owed \cup {e}
<1>1. q \in Seq(Events) /\ o \in SUBSET Events
  BY CallFields
<1>2. Telemetry!Queued(b, e) = [b EXCEPT !.x.queue = q, !.seen.owed = o]
  BY DEF Call, RunRecord, FileRecord, SeenRecord, Telemetry!Queued
<1> HIDE DEF q, o
<1>3. [b EXCEPT !.x.queue = q, !.seen.owed = o] \in Call
  BY <1>1 DEF Call, RunRecord, FileRecord, SeenRecord
<1> QED BY <1>2, <1>3 DEF q, o, Call, RunRecord, FileRecord, SeenRecord

LEMMA QueuedSound ==
  ASSUME NEW b, NEW others, NEW e \in Events, Sound(b, others)
  PROVE  /\ Sound(Telemetry!Queued(b, e), others)
         /\ SameRest(b, Telemetry!Queued(b, e))
         /\ Telemetry!Queued(b, e).f = b.f
<1> DEFINE c == Telemetry!Queued(b, e)
           q == Append(b.x.queue, e)
<1>1. b \in Call
  BY DEF Sound
<1>2. /\ c \in Call /\ c.x = [b.x EXCEPT !.queue = q] /\ c.f = b.f
      /\ c.seen = [b.seen EXCEPT !.owed = b.seen.owed \cup {e}]
  BY <1>1, QueuedIs
<1>3. /\ Len(q) = Len(b.x.queue) + 1 /\ \A i \in 1..Len(b.x.queue) : q[i] = b.x.queue[i]
      /\ Telemetry!ToSet(q) = Telemetry!ToSet(b.x.queue) \cup {e}
  BY <1>1, CallFields, AppendProperties, SetOfAppend
<1> HIDE DEF c, q
<1>4. /\ c.x.queue = q /\ c.x.reply = b.x.reply /\ c.x.inFlight = b.x.inFlight
      /\ c.x.phase = b.x.phase /\ c.x.reading = b.x.reading
      /\ c.seen.owed = b.seen.owed \cup {e} /\ c.seen.told = b.seen.told
      /\ c.seen.ends = b.seen.ends
  BY <1>1, <1>2 DEF Call, RunRecord, SeenRecord
<1>5. InFlight(c.x)
  <2>1. b.x.inFlight \in Nat /\ b.x.inFlight <= Len(b.x.queue) /\ Len(b.x.queue) \in Nat
    BY <1>1, CallFields DEF Sound, InFlight
  <2>2. \A k \in 1..b.x.inFlight : q[k] \in Telemetry!ToSet(b.x.reply)
    BY <1>3, <2>1 DEF Sound, InFlight
  <2>3. b.x.inFlight <= Len(q)
    BY <1>3, <2>1
  <2> QED BY <1>4, <2>2, <2>3 DEF Sound, InFlight
<1>6. Sound(c, others)
  BY <1>2, <1>3, <1>4, <1>5 DEF Sound
<1> QED BY <1>2, <1>4, <1>6 DEF SameRest, c

LEMMA SaveQueueIs ==
  ASSUME NEW b \in Call
  PROVE  /\ Telemetry!SaveQueue(b) \in Call
         /\ Telemetry!SaveQueue(b).x = b.x /\ Telemetry!SaveQueue(b).seen = b.seen
         /\ Telemetry!SaveQueue(b).f = [b.f EXCEPT !.queue = b.x.queue]
BY DEF Call, RunRecord, FileRecord, SeenRecord, Telemetry!SaveQueue

LEMMA SaveQueueSound ==
  ASSUME NEW b, NEW others, Sound(b, others)
  PROVE  /\ Sound(Telemetry!SaveQueue(b), others)
         /\ SameRest(b, Telemetry!SaveQueue(b))
         /\ Telemetry!SaveQueue(b).x = b.x
         /\ Telemetry!SaveQueue(b).f.queue = b.x.queue
<1> DEFINE c == Telemetry!SaveQueue(b)
<1>1. b \in Call
  BY DEF Sound
<1>2. /\ c \in Call /\ c.x = b.x /\ c.seen = b.seen
      /\ c.f = [b.f EXCEPT !.queue = b.x.queue]
  BY <1>1, SaveQueueIs
<1> HIDE DEF c
<1>3. /\ c.f.queue = b.x.queue /\ c.f.lock = b.f.lock /\ c.f.json = b.f.json
      /\ c.f.crash = b.f.crash
  BY <1>1, <1>2 DEF Call, FileRecord
<1> QED BY <1>2, <1>3 DEF Sound, SameRest, c

\* The queue without its first n events, which are dropped or were in the batch:
\* what is in flight is less by as much.
LEMMA ShorterSound ==
  ASSUME NEW b, NEW others, Sound(b, others), NEW c \in Call,
         NEW n \in 0..Len(b.x.queue), NEW gone,
         \A k \in 1..n : b.x.queue[k] \in gone,
         c.x.queue = Rest(b.x.queue, n), c.seen.owed = b.seen.owed \ gone,
         c.x.phase = b.x.phase, c.x.reply = b.x.reply,
         c.x.inFlight = (IF b.x.inFlight > n THEN b.x.inFlight - n ELSE 0)
  PROVE  Sound(c, others)
<1> DEFINE s == b.x.queue
           t == Rest(s, n)
<1>1. b \in Call /\ s \in Seq(Events) /\ b.x.inFlight \in Nat /\ Len(s) \in Nat
  BY CallFields DEF Sound
<1>2. /\ t \in Seq(Events) /\ Len(t) = Len(s) - n
      /\ \A i \in 1..(Len(s) - n) : t[i] = s[i + n]
      /\ Telemetry!ToSet(s) \subseteq gone \cup Telemetry!ToSet(t)
  BY <1>1, RestIs, RestHas
<1>3. /\ b.x.inFlight <= Len(s)
      /\ \A k \in 1..b.x.inFlight : s[k] \in Telemetry!ToSet(b.x.reply)
      /\ b.seen.owed \subseteq others \cup Telemetry!ToSet(s)
  BY DEF Sound, InFlight
<1> HIDE DEF s, t
<1>4. c.x.inFlight <= Len(t)
  BY <1>1, <1>2, <1>3
<1>5. ASSUME NEW k \in 1..c.x.inFlight PROVE t[k] \in Telemetry!ToSet(c.x.reply)
  <2>1. k + n \in 1..b.x.inFlight /\ k \in 1..(Len(s) - n)
    BY <1>1, <1>3, <1>5
  <2> QED BY <1>2, <1>3, <2>1
<1>6. c.seen.owed \subseteq others \cup Telemetry!ToSet(t)
  BY <1>2, <1>3
<1>7. c.x.phase \notin {"live", "finished"} => c.x.reply = <<>>
  BY DEF Sound, InFlight
<1>8. c.x.queue = t
  BY DEF s, t
<1> QED BY <1>4, <1>5, <1>6, <1>7, <1>8 DEF Sound, InFlight

TelemetryBounds ==
  MaxRuns \in Nat \ {0} /\ MaxQueued \in Nat /\ MaxBatch \in Nat

\* The first n of a queue are what is not left of it.
LEMMA FirstIn ==
  ASSUME NEW s \in Seq(Events), NEW n \in 0..Len(s)
  PROVE  /\ SubSeq(s, 1, n) \in Seq(Events)
         /\ \A k \in 1..n : s[k] \in Telemetry!ToSet(SubSeq(s, 1, n))
<1> DEFINE t == SubSeq(s, 1, n)
<1>1. Len(s) \in Nat /\ 1 \in Int /\ n \in Int /\ \A i \in 1..n : s[i] \in Events
  OBVIOUS
<1>2. /\ t \in Seq(Events) /\ Len(t) = IF 1 <= n THEN n - 1 + 1 ELSE 0
      /\ \A i \in 1..(n - 1 + 1) : t[i] = s[1 + i - 1]
  BY <1>1, SubSeqProperties
<1> HIDE DEF t
<1>3. Len(t) = n /\ \A i \in 1..n : t[i] = s[i]
  BY <1>1, <1>2
<1> QED BY <1>2, <1>3, SetIs DEF t

\* The loop that drops the oldest events of a full queue
LEMMA OverflowSound ==
  ASSUME TelemetryBounds, NEW b, NEW others, Sound(b, others)
  PROVE  /\ Sound(Telemetry!Overflow(b), others)
         /\ SameRest(b, Telemetry!Overflow(b))
         /\ Telemetry!Overflow(b).f = b.f
<1> DEFINE excess == Len(b.x.queue) - MaxQueued
<1>1. b \in Call /\ b.x.queue \in Seq(Events) /\ Len(b.x.queue) \in Nat /\ b.x.inFlight \in Nat
  BY CallFields DEF Sound
<1>2. CASE excess <= 0
  <2>1. Telemetry!Overflow(b) = b
    BY <1>2 DEF Telemetry!Overflow
  <2> QED BY <2>1 DEF SameRest
<1>3. CASE ~ excess <= 0
  <2>1. excess \in 0..Len(b.x.queue)
    BY <1>1, <1>3 DEF TelemetryBounds
  <2> DEFINE gone == Telemetry!ToSet(SubSeq(b.x.queue, 1, excess))
             q == Rest(b.x.queue, excess)
             n == IF b.x.inFlight > excess THEN b.x.inFlight - excess ELSE 0
             o == b.seen.owed \ gone
             c == Telemetry!Overflow(b)
  <2>2. c = [b EXCEPT !.x.queue = q, !.x.inFlight = n, !.seen.owed = o]
    BY <1>1, <1>3 DEF Telemetry!Overflow, Rest, Call, RunRecord, FileRecord, SeenRecord
  <2>3. q \in Seq(Events) /\ n \in Nat /\ o \in SUBSET Events
    BY <1>1, <2>1, RestIs, CallFields
  <2>4. \A k \in 1..excess : b.x.queue[k] \in gone
    BY <1>1, <2>1, FirstIn
  <2> HIDE DEF gone, q, n, o, c, excess
  <2>5. c \in Call
    BY <1>1, <2>2, <2>3 DEF Call, RunRecord, FileRecord, SeenRecord
  <2>6. /\ c.x.queue = q /\ c.x.inFlight = n /\ c.seen.owed = o /\ c.f = b.f
        /\ c.x.phase = b.x.phase /\ c.x.reply = b.x.reply /\ c.x.reading = b.x.reading
        /\ c.seen.told = b.seen.told /\ c.seen.ends = b.seen.ends
    BY <1>1, <2>2, <2>3 DEF Call, RunRecord, FileRecord, SeenRecord
  <2>7. Sound(c, others)
    BY <2>1, <2>4, <2>5, <2>6, ShorterSound DEF q, n, o
  <2> QED BY <2>6, <2>7 DEF SameRest, c
<1> QED BY <1>2, <1>3

LEMMA RecordSound ==
  ASSUME TelemetryBounds, NEW b, NEW others, NEW e \in Events, Sound(b, others)
  PROVE  /\ Sound(Telemetry!Record(b, e), others)
         /\ SameRest(b, Telemetry!Record(b, e))
         /\ Telemetry!Record(b, e).f.queue = Telemetry!Record(b, e).x.queue
<1>1. PICK c : c = Telemetry!Queued(b, e)
  OBVIOUS
<1>2. PICK d : d = Telemetry!Overflow(c)
  OBVIOUS
<1>3. PICK g : g = Telemetry!SaveQueue(d)
  OBVIOUS
<1>4. Sound(c, others) /\ SameRest(b, c)
  BY <1>1, QueuedSound
<1>5. Sound(d, others) /\ SameRest(c, d)
  BY <1>2, <1>4, OverflowSound
<1>6. Sound(g, others) /\ SameRest(d, g) /\ g.f.queue = g.x.queue
  BY <1>3, <1>5, SaveQueueSound
<1>7. Telemetry!Record(b, e) = g
  BY <1>1, <1>2, <1>3 DEF Telemetry!Record
<1> QED BY <1>4, <1>5, <1>6, <1>7 DEF SameRest

SetBatch(b, n, p) == [b EXCEPT !.x.inFlight = n, !.x.reply = p]

LEMMA WithBatch ==
  ASSUME NEW b \in Call, NEW n \in Nat, NEW p \in Seq(Events)
  PROVE  /\ SetBatch(b, n, p) \in Call
         /\ SetBatch(b, n, p).x.inFlight = n /\ SetBatch(b, n, p).x.reply = p
         /\ SetBatch(b, n, p).x.queue = b.x.queue
         /\ SetBatch(b, n, p).x.phase = b.x.phase
         /\ SetBatch(b, n, p).x.reading = b.x.reading
         /\ SetBatch(b, n, p).f = b.f /\ SetBatch(b, n, p).seen = b.seen
BY DEF SetBatch, Call, RunRecord, FileRecord, SeenRecord

\* A batch goes out when none is.
LEMMA SendSound ==
  ASSUME TelemetryBounds, NEW b, NEW others, Sound(b, others),
         b.x.phase \in {"live", "finished"}
  PROVE  /\ Sound(Telemetry!Send(b), others)
         /\ SameRest(b, Telemetry!Send(b))
         /\ Telemetry!Send(b).f = b.f /\ Telemetry!Send(b).x.queue = b.x.queue
<1> DEFINE c == Telemetry!Send(b)
           n == IF Len(b.x.queue) < MaxBatch THEN Len(b.x.queue) ELSE MaxBatch
           p == SubSeq(b.x.queue, 1, n)
<1>1. b \in Call /\ b.x.queue \in Seq(Events) /\ Len(b.x.queue) \in Nat
  BY CallFields DEF Sound
<1>2. CASE c = b
  BY <1>2 DEF SameRest
<1>3. CASE c # b
  <2>1. c = SetBatch(b, n, p)
    BY <1>3 DEF Telemetry!Send, SetBatch
  <2>2. n \in 0..Len(b.x.queue)
    BY <1>1 DEF TelemetryBounds
  <2>3. p \in Seq(Events) /\ \A k \in 1..n : b.x.queue[k] \in Telemetry!ToSet(p)
    BY <1>1, <2>2, FirstIn
  <2>9. n \in Nat
    BY <1>1, <2>2
  <2> HIDE DEF c, n, p
  <2>10. b \in Call /\ n \in Nat /\ p \in Seq(Events)
    BY <1>1, <2>3, <2>9
  <2>4. c \in Call
    BY <2>1, <2>10, WithBatch
  <2>5. /\ c.x.queue = b.x.queue /\ c.x.inFlight = n /\ c.x.reply = p /\ c.f = b.f
        /\ c.seen = b.seen /\ c.x.phase = b.x.phase /\ c.x.reading = b.x.reading
    BY <2>1, <2>10, WithBatch
  <2>6. InFlight(c.x)
    BY <1>1, <2>2, <2>3, <2>5 DEF InFlight
  <2>7. Sound(c, others)
    BY <2>4, <2>5, <2>6 DEF Sound
  <2> QED BY <2>5, <2>7 DEF SameRest, c
<1> QED BY <1>2, <1>3

\* What the server took is not owed any more.
NotOwed(b, taken) == [b EXCEPT !.seen.owed = @ \ taken]

\* An answer that drops the batch: what the server took or refused is not owed,
\* and only what is still in flight of it leaves the queue.
LEMMA AnsweredSound ==
  ASSUME NEW b, NEW others, Sound(b, others), NEW c,
         c = Telemetry!Answered(Telemetry!SentOff(NotOwed(b, Telemetry!ToSet(b.x.reply))))
  PROVE  /\ Sound(c, others) /\ SameRest(b, c) /\ c.f.queue = c.x.queue
<1> DEFINE n == b.x.inFlight
           q == Rest(b.x.queue, n)
           o == b.seen.owed \ Telemetry!ToSet(b.x.reply)
<1>1. b \in Call /\ b.x.queue \in Seq(Events) /\ n \in 0..Len(b.x.queue)
  BY CallFields DEF Sound, InFlight
<1>2. q \in Seq(Events) /\ o \in SUBSET Events /\ Len(q) \in Nat
  BY <1>1, RestIs, CallFields
<1>3. PICK d : d = [b EXCEPT !.seen.owed = o, !.x.queue = q, !.x.inFlight = 0]
  OBVIOUS
<1>4. \A k \in 1..n : b.x.queue[k] \in Telemetry!ToSet(b.x.reply)
  BY DEF Sound, InFlight
<1> DEFINE none == <<>>
<1>5. none \in Seq(Events)
  OBVIOUS
<1>6. PICK g : g = [b EXCEPT !.seen.owed = o]
  OBVIOUS
<1>7. PICK h : h = [g EXCEPT !.x.queue = q, !.x.blocked = FALSE]
  OBVIOUS
<1>8. PICK k : k = Telemetry!SaveQueue(h)
  OBVIOUS
<1>14. /\ g \in Call /\ g.x = b.x /\ g.f = b.f /\ g.seen = [b.seen EXCEPT !.owed = o]
       /\ g.seen.owed = o /\ g.seen.told = b.seen.told /\ g.seen.ends = b.seen.ends
  BY <1>1, <1>2, <1>6 DEF Call, RunRecord, FileRecord, SeenRecord
<1>15. c = SetBatch(k, 0, none)
  <2>1. g.x.inFlight = n /\ g.x.queue = b.x.queue
    BY <1>14
  <2>2. h = [g EXCEPT !.x.queue = SubSeq(@, g.x.inFlight + 1, Len(@)), !.x.blocked = FALSE]
    BY <1>7, <1>14, <2>1 DEF Rest, Call, RunRecord
  <2>3. Telemetry!SentOff(g) = k
    BY <1>8, <2>2 DEF Telemetry!SentOff
  <2>4. g = NotOwed(b, Telemetry!ToSet(b.x.reply))
    BY <1>1, <1>6 DEF Call, SeenRecord, NotOwed
  <2> QED BY <2>3, <2>4 DEF Telemetry!Answered, SetBatch
<1> HIDE DEF n, q, o, none
<1>16. /\ h \in Call /\ h.x.queue = q /\ h.x.phase = b.x.phase /\ h.x.reading = b.x.reading
       /\ h.f = b.f /\ h.seen = g.seen
  BY <1>2, <1>7, <1>14 DEF Call, RunRecord, FileRecord, SeenRecord
<1>17. /\ k \in Call /\ k.x = h.x /\ k.seen = g.seen /\ k.f = [b.f EXCEPT !.queue = q]
  BY <1>8, <1>16, SaveQueueIs
<1>18. /\ k.f.queue = q /\ k.f.lock = b.f.lock /\ k.f.json = b.f.json
       /\ k.f.crash = b.f.crash
  BY <1>1, <1>17 DEF Call, FileRecord
<1>21. k \in Call /\ 0 \in Nat
  BY <1>17
<1>22. /\ SetBatch(k, 0, none) \in Call
       /\ SetBatch(k, 0, none).x.inFlight = 0 /\ SetBatch(k, 0, none).x.reply = none
       /\ SetBatch(k, 0, none).x.queue = k.x.queue
       /\ SetBatch(k, 0, none).x.phase = k.x.phase
       /\ SetBatch(k, 0, none).x.reading = k.x.reading
       /\ SetBatch(k, 0, none).f = k.f /\ SetBatch(k, 0, none).seen = k.seen
  BY <1>5, <1>21, WithBatch
<1>10. c \in Call
  BY <1>15, <1>22
<1>19. /\ c.x.queue = k.x.queue /\ c.x.inFlight = 0 /\ c.x.reply = none /\ c.f = k.f
       /\ c.x.phase = k.x.phase /\ c.x.reading = k.x.reading /\ c.seen = k.seen
  BY <1>15, <1>22
<1>9. /\ c.x.queue = q /\ c.x.inFlight = 0 /\ c.x.reply = none /\ c.f.queue = q
      /\ c.x.phase = b.x.phase /\ c.x.reading = b.x.reading /\ c.seen.owed = o
      /\ c.f.lock = b.f.lock /\ c.f.json = b.f.json /\ c.f.crash = b.f.crash
      /\ c.seen.told = b.seen.told /\ c.seen.ends = b.seen.ends
  BY <1>14, <1>16, <1>17, <1>18, <1>19
<1>20. /\ d.x.queue = q /\ d.x.inFlight = 0 /\ d.x.reply = b.x.reply
       /\ d.x.phase = b.x.phase /\ d.seen.owed = o /\ d \in Call
  BY <1>1, <1>2, <1>3 DEF Call, RunRecord, FileRecord, SeenRecord
<1>11. Sound(d, others)
  <2>1. d.x.inFlight = (IF b.x.inFlight > n THEN b.x.inFlight - n ELSE 0)
    BY <1>1, <1>20 DEF n
  <2> QED BY <1>1, <1>4, <1>20, <2>1, ShorterSound DEF q, o
<1>12. c.seen.owed \subseteq others \cup Telemetry!ToSet(c.x.queue)
  BY <1>9, <1>11, <1>20 DEF Sound
<1>13. InFlight(c.x)
  <2>3. c.x.inFlight = 0 /\ Len(c.x.queue) \in Nat
    BY <1>2, <1>9
  <2>1. c.x.inFlight <= Len(c.x.queue) /\ \A i \in 1..c.x.inFlight : FALSE
    BY <2>3
  <2> QED BY <1>9, <2>1 DEF InFlight, none
<1> QED BY <1>9, <1>10, <1>12, <1>13 DEF Sound, SameRest

-----------------------------------------------------------------------------
(* A run's own steps *)

\* The events the others have, in memory or on disk
Others(r) ==
  UNION {Telemetry!ToSet(runs[j].queue) \cup Telemetry!ToSet(files[j].queue) :
         j \in Telemetry!Runs \ {r}}

\* What the end of a run leaves on disk
EndLeft(x, f, end) ==
  /\ f.crash => end = "crash"
  /\ x.phase = "gone" /\ f.json => end \in {"killed", "crash"}
  /\ end = "killed" => f.json
  /\ end = "crash" => f.crash

SomeoneHas(e) == \E j \in Telemetry!Runs :
  e \in Telemetry!ToSet(runs[j].queue) \cup Telemetry!ToSet(files[j].queue)
AllHeld == \A e \in seen.owed : SomeoneHas(e)

LEMMA KeptIs == Telemetry!EventsAreKept <=> AllHeld
<1>1. ASSUME NEW e PROVE e \in Telemetry!Queues <=> SomeoneHas(e)
  BY DEF Telemetry!Queues, SomeoneHas
<1> QED BY <1>1 DEF Telemetry!EventsAreKept, AllHeld

LEMMA KeptIsNext == Telemetry!EventsAreKept' <=> AllHeld'
BY KeptIs, PTL

LEMMA Active ==
  ASSUME TelemetryInv, NEW r \in Telemetry!Runs,
         runs[r].phase \in {"adopting", "live", "finished"}
  PROVE  /\ Telemetry!Of(r) \in Call
         /\ Telemetry!Of(r).x = runs[r] /\ Telemetry!Of(r).f = files[r]
         /\ Telemetry!Of(r).seen = seen
         /\ Life(runs[r], files[r], seen.ends[r]) /\ seen.ends[r] = "none"
         /\ Sound(Telemetry!Of(r), Others(r))
<1> DEFINE b == Telemetry!Of(r)
<1>1. /\ runs[r] \in RunRecord /\ files[r] \in FileRecord /\ seen \in SeenRecord
  BY DEF TelemetryInv, TelemetryTyped
<1>2. b \in Call /\ b.x = runs[r] /\ b.f = files[r] /\ b.seen = seen
  BY <1>1 DEF Telemetry!Of, Call
<1>3. Life(runs[r], files[r], seen.ends[r]) /\ InFlight(runs[r])
  BY DEF TelemetryInv, LivesAndFiles, Batches
<1>4. seen.ends[r] = "none"
  BY <1>3 DEF Life
<1>5. Telemetry!ToSet(files[r].queue) \subseteq Telemetry!ToSet(runs[r].queue)
  BY <1>3, SetOfNone DEF Life
<1>6. seen.owed \subseteq Others(r) \cup Telemetry!ToSet(runs[r].queue)
  BY <1>5, KeptIs DEF TelemetryInv, Others, AllHeld, SomeoneHas
<1> HIDE DEF b
<1>7. Sound(b, Others(r))
  BY <1>2, <1>3, <1>6 DEF Sound
<1> QED BY <1>2, <1>3, <1>4, <1>7 DEF b

\* Nobody reads the files of a run that is not gone, so that its steps are
\* between it and what it writes.
LEMMA OwnStep ==
  ASSUME TelemetryInv, NEW r \in Telemetry!Runs,
         runs[r].phase # "gone",
         NEW b \in Call, Telemetry!Becomes(r, b),
         b.x.reading.of = 0, b.x.reading.step = "none", b.x.phase # "off",
         b.x.phase = "adopting" => \A i \in b.x.todo : runs[i].phase # "off",
         b.seen.told = seen.told,
         \A j \in Telemetry!Runs \ {r} : b.seen.ends[j] = seen.ends[j],
         Life(b.x, b.f, b.seen.ends[r]), InFlight(b.x), EndLeft(b.x, b.f, b.seen.ends[r]),
         b.seen.owed \subseteq
           Others(r) \cup Telemetry!ToSet(b.x.queue) \cup Telemetry!ToSet(b.f.queue)
  PROVE  TelemetryInv'
<1>1. /\ runs \in [Telemetry!Runs -> RunRecord] /\ files \in [Telemetry!Runs -> FileRecord]
      /\ seen \in SeenRecord
      /\ b.x \in RunRecord /\ b.f \in FileRecord /\ b.seen \in SeenRecord
  BY CallFields DEF TelemetryInv, TelemetryTyped
<1>2. runs' = [runs EXCEPT ![r] = b.x] /\ files' = [files EXCEPT ![r] = b.f] /\ seen' = b.seen
  BY DEF Telemetry!Becomes
<1>3. TelemetryTyped'
  BY <1>1, <1>2 DEF TelemetryTyped, Telemetry!Runs
<1>4. runs'[r] = b.x /\ files'[r] = b.f /\ seen'.ends[r] = b.seen.ends[r]
  BY <1>1, <1>2
<1>5. ASSUME NEW j \in Telemetry!Runs, j # r
      PROVE  runs'[j] = runs[j] /\ files'[j] = files[j] /\ seen'.ends[j] = seen.ends[j]
  BY <1>1, <1>2, <1>5
<1>6. seen'.told = seen.told /\ seen'.owed = b.seen.owed
  BY <1>2
<1>7. LivesAndFiles'
  <2> SUFFICES ASSUME NEW j \in Telemetry!Runs
               PROVE  Life(runs'[j], files'[j], seen'.ends[j])
    BY DEF LivesAndFiles, Telemetry!Runs
  <2>1. CASE j = r BY <1>4, <2>1
  <2>2. CASE j # r BY <1>5, <2>2 DEF TelemetryInv, LivesAndFiles
  <2> QED BY <2>1, <2>2
<1>8. Batches'
  <2> SUFFICES ASSUME NEW j \in Telemetry!Runs PROVE InFlight(runs'[j])
    BY DEF Batches, Telemetry!Runs
  <2>1. CASE j = r BY <1>4, <2>1
  <2>2. CASE j # r BY <1>5, <2>2 DEF TelemetryInv, Batches
  <2> QED BY <2>1, <2>2
<1>9. seen.ends[r] = "none"
  BY DEF TelemetryInv, LivesAndFiles, Life
<1>10. ASSUME NEW k \in Telemetry!Runs
       PROVE  ~ Telemetry!Told(r, "crash") /\ ~ Telemetry!Told(r, "unclean_exit")
  BY <1>9 DEF TelemetryInv, EndsOnDisk, EndOnDisk
<1>11. EndsOnDisk'
  <2> SUFFICES ASSUME NEW j \in Telemetry!Runs PROVE EndOnDisk(j)'
    BY DEF EndsOnDisk, Telemetry!Runs
  <2>1. CASE j = r
    BY <1>4, <1>6, <1>10, <2>1 DEF EndOnDisk, EndLeft, Telemetry!Told
  <2>2. CASE j # r
    <3>1. EndOnDisk(j)
      BY DEF TelemetryInv, EndsOnDisk
    <3> QED BY <1>5, <1>6, <2>2, <3>1 DEF EndOnDisk, Telemetry!Told
  <2> QED BY <2>1, <2>2
<1>12. Readings'
  <2> SUFFICES ASSUME NEW k \in Telemetry!Runs PROVE ReadsAnother(k)' /\ EndRead(k)'
    BY DEF Readings, Telemetry!Runs
  <2>3. runs'[k].phase = "adopting" => \A i \in runs'[k].todo : runs'[i].phase # "off"
    <3>1. SUFFICES ASSUME NEW i \in runs'[k].todo, runs'[k].phase = "adopting"
                   PROVE  runs'[i].phase # "off"
      OBVIOUS
    <3>2. i \in Telemetry!Runs
      BY <1>3 DEF TelemetryTyped, RunRecord, Telemetry!Runs
    <3>3. i # r => runs[i].phase # "off"
      BY <1>4, <1>5, <3>1 DEF TelemetryInv, Readings, ReadsAnother
    <3> QED BY <1>4, <1>5, <3>2, <3>3
  <2>1. CASE k = r
    BY <1>4, <2>1, <2>3 DEF ReadsAnother, EndRead
  <2>2. CASE k # r
    <3>1. ReadsAnother(k) /\ EndRead(k) /\ runs'[k] = runs[k]
      BY <1>5, <2>2 DEF TelemetryInv, Readings
    <3>2. CASE runs[k].reading.of = 0
      BY <2>3, <3>1, <3>2 DEF ReadsAnother, EndRead
    <3>3. CASE runs[k].reading.of # 0
      <4>1. runs[k].reading.of \in Telemetry!Runs
        BY <1>1, <3>3 DEF RunRecord, Telemetry!Runs
      <4>2. runs[k].reading.of # r
        BY <3>1, <3>3 DEF ReadsAnother
      <4>3. PICK j \in Telemetry!Runs : j = runs[k].reading.of /\ j # r
        BY <4>1, <4>2
      <4>4. runs'[j] = runs[j] /\ files'[j] = files[j] /\ seen'.ends[j] = seen.ends[j]
        BY <1>5, <4>3
      <4>5. ReadsAnother(k)'
        BY <2>3, <3>1, <4>3, <4>4 DEF ReadsAnother
      <4>6. EndRead(k)'
        BY <1>6, <3>1, <4>3, <4>4 DEF EndRead, Telemetry!Told
      <4> QED BY <4>5, <4>6
    <3> QED BY <3>2, <3>3
  <2> QED BY <2>1, <2>2
<1>13. Telemetry!EventsAreKept'
  <2>1. ASSUME NEW e \in seen'.owed
        PROVE  \E j \in Telemetry!Runs :
                 e \in Telemetry!ToSet(runs'[j].queue) \cup Telemetry!ToSet(files'[j].queue)
    <3>1. CASE e \in Telemetry!ToSet(b.x.queue) \cup Telemetry!ToSet(b.f.queue)
      BY <1>4, <3>1
    <3>2. CASE e \in Others(r)
      <4>1. PICK j \in Telemetry!Runs \ {r} :
              e \in Telemetry!ToSet(runs[j].queue) \cup Telemetry!ToSet(files[j].queue)
        BY <3>2 DEF Others
      <4> QED BY <1>5, <4>1
    <3> QED BY <1>6, <2>1, <3>1, <3>2
  <2>2. AllHeld'
    BY <2>1 DEF AllHeld, SomeoneHas, Telemetry!Runs
  <2> QED BY <2>2, KeptIsNext
<1> QED BY <1>3, <1>7, <1>8, <1>11, <1>12, <1>13 DEF TelemetryInv

\* A step on the queue of a run that has begun: what it does besides, it leaves.
LEMMA QueueStep ==
  ASSUME TelemetryInv, NEW r \in Telemetry!Runs, Telemetry!Begun(r), NEW b,
         Sound(b, Others(r)), SameRest(Telemetry!Of(r), b), b.f.queue = b.x.queue,
         Telemetry!Becomes(r, b)
  PROVE  TelemetryInv'
<1>1. /\ Telemetry!Of(r).x = runs[r] /\ Telemetry!Of(r).f = files[r]
      /\ Telemetry!Of(r).seen = seen
      /\ Life(runs[r], files[r], seen.ends[r]) /\ seen.ends[r] = "none"
  BY Active DEF Telemetry!Begun
<1>2. /\ b.x.phase = runs[r].phase /\ b.x.reading = runs[r].reading
      /\ b.f.lock = files[r].lock /\ b.f.json = files[r].json /\ b.f.crash = files[r].crash
      /\ b.seen.told = seen.told /\ b.seen.ends = seen.ends
  BY <1>1 DEF SameRest
<1>3. runs[r].reading.of = 0 /\ runs[r].reading.step = "none"
  BY DEF TelemetryInv, Readings, ReadsAnother, Telemetry!Begun
<1>4. b \in Call /\ InFlight(b.x)
      /\ b.seen.owed \subseteq Others(r) \cup Telemetry!ToSet(b.x.queue)
  BY DEF Sound
<1>5. Life(b.x, b.f, b.seen.ends[r])
  BY <1>1, <1>2 DEF Life, Telemetry!Begun
<1>6. EndLeft(b.x, b.f, b.seen.ends[r])
  BY <1>1, <1>2 DEF EndLeft, Life, Telemetry!Begun
<1> QED BY <1>2, <1>3, <1>4, <1>5, <1>6, OwnStep DEF Telemetry!Begun

\* One more event or answer that the bound counts
LEMMA MoreSound ==
  ASSUME NEW b, NEW others, Sound(b, others)
  PROVE  /\ Sound(Telemetry!More(b), others) /\ SameRest(b, Telemetry!More(b))
         /\ Telemetry!More(b).f = b.f /\ Telemetry!More(b).x = b.x
         /\ Telemetry!More(b).seen.owed = b.seen.owed
<1> DEFINE n == b.seen.extras + 1
           c == Telemetry!More(b)
<1>1. b \in Call /\ n \in Nat
  BY DEF Sound, Call, SeenRecord
<1>2. c = [b EXCEPT !.seen.extras = n]
  BY <1>1 DEF Telemetry!More, Call, SeenRecord
<1> HIDE DEF n, c
<1>3. c \in Call
  BY <1>1, <1>2 DEF Call, RunRecord, FileRecord, SeenRecord
<1>4. /\ c.x = b.x /\ c.f = b.f /\ c.seen.owed = b.seen.owed /\ c.seen.told = b.seen.told
      /\ c.seen.ends = b.seen.ends
  BY <1>1, <1>2 DEF Call, SeenRecord
<1> QED BY <1>3, <1>4 DEF Sound, SameRest, c

LEMMA RecordEventKeeps ==
  ASSUME TelemetryBounds, TelemetryInv, NEW r \in Telemetry!Runs, Telemetry!RecordEvent(r)
  PROVE  TelemetryInv'
<1>1. Telemetry!Begun(r) /\ runs[r].phase \in {"adopting", "live", "finished"}
  BY DEF Telemetry!RecordEvent, Telemetry!Begun
<1>2. Sound(Telemetry!Of(r), Others(r))
  BY <1>1, Active
<1>3. seen.extras \in Nat /\ r \in Nat
  BY DEF TelemetryInv, TelemetryTyped, SeenRecord, TelemetryBounds, Telemetry!Runs
<1>4. PICK e : e = Telemetry!Event(r, "error", seen.extras)
  OBVIOUS
<1>5. e \in Events
  BY <1>3, <1>4 DEF Telemetry!Event, Events, Kinds
<1>6. PICK b : b = Telemetry!More(Telemetry!Of(r))
  OBVIOUS
<1>7. PICK c : c = Telemetry!Record(b, e)
  OBVIOUS
<1>8. Sound(b, Others(r)) /\ SameRest(Telemetry!Of(r), b)
  BY <1>2, <1>6, MoreSound
<1>9. Sound(c, Others(r)) /\ SameRest(b, c) /\ c.f.queue = c.x.queue
  BY <1>5, <1>7, <1>8, RecordSound
<1>10. SameRest(Telemetry!Of(r), c)
  BY <1>8, <1>9 DEF SameRest
<1>11. Telemetry!Becomes(r, c)
  BY <1>4, <1>6, <1>7 DEF Telemetry!RecordEvent
<1> QED BY <1>1, <1>9, <1>10, <1>11, QueueStep

LEMMA BegunSaved ==
  ASSUME TelemetryInv, NEW r \in Telemetry!Runs, Telemetry!Begun(r)
  PROVE  /\ Sound(Telemetry!Of(r), Others(r)) /\ SameRest(Telemetry!Of(r), Telemetry!Of(r))
         /\ Telemetry!Of(r).f.queue = Telemetry!Of(r).x.queue
         /\ Telemetry!Of(r).x.phase \in {"live", "finished"}
         /\ Telemetry!Of(r).x = runs[r] /\ Telemetry!Of(r).seen = seen
         /\ Telemetry!Of(r).f = files[r]
BY Active DEF Telemetry!Begun, Life, SameRest

LEMMA SendTimerKeeps ==
  ASSUME TelemetryBounds, TelemetryInv, NEW r \in Telemetry!Runs, Telemetry!SendTimer(r)
  PROVE  TelemetryInv'
<1>1. Telemetry!Begun(r) /\ Telemetry!Becomes(r, Telemetry!Send(Telemetry!Of(r)))
  BY DEF Telemetry!SendTimer
<1>2. PICK b : b = Telemetry!Send(Telemetry!Of(r))
  OBVIOUS
<1>3. /\ Sound(Telemetry!Of(r), Others(r))
      /\ Telemetry!Of(r).f.queue = Telemetry!Of(r).x.queue
      /\ Telemetry!Of(r).x.phase \in {"live", "finished"}
  BY <1>1, BegunSaved
<1>4. Sound(b, Others(r)) /\ SameRest(Telemetry!Of(r), b) /\ b.f.queue = b.x.queue
  BY <1>2, <1>3, SendSound
<1> QED BY <1>1, <1>2, <1>4, QueueStep

\* blockedUntil
SetBlocked(b, on) == [b EXCEPT !.x.blocked = on]

LEMMA SetBlockedSound ==
  ASSUME NEW b, NEW others, Sound(b, others), NEW on \in BOOLEAN
  PROVE  /\ Sound(SetBlocked(b, on), others) /\ SameRest(b, SetBlocked(b, on))
         /\ SetBlocked(b, on).f = b.f /\ SetBlocked(b, on).x.queue = b.x.queue
<1> DEFINE c == SetBlocked(b, on)
<1>1. b \in Call
  BY DEF Sound
<1>2. c \in Call
  BY <1>1 DEF SetBlocked, Call, RunRecord, FileRecord, SeenRecord
<1>3. /\ c.x.queue = b.x.queue /\ c.x.inFlight = b.x.inFlight /\ c.x.reply = b.x.reply
      /\ c.x.phase = b.x.phase /\ c.x.reading = b.x.reading /\ c.f = b.f /\ c.seen = b.seen
  BY <1>1 DEF SetBlocked, Call, RunRecord
<1> HIDE DEF c
<1>4. InFlight(c.x)
  BY <1>3 DEF Sound, InFlight
<1> QED BY <1>2, <1>3, <1>4 DEF Sound, SameRest, c

LEMMA DelayEndsKeeps ==
  ASSUME TelemetryInv, NEW r \in Telemetry!Runs, Telemetry!DelayEnds(r)
  PROVE  TelemetryInv'
<1>1. Telemetry!Begun(r) /\ Telemetry!Becomes(r, SetBlocked(Telemetry!Of(r), FALSE))
  BY DEF Telemetry!DelayEnds, SetBlocked
<1>2. PICK b : b = SetBlocked(Telemetry!Of(r), FALSE)
  OBVIOUS
<1>3. /\ Sound(Telemetry!Of(r), Others(r))
      /\ Telemetry!Of(r).f.queue = Telemetry!Of(r).x.queue
  BY <1>1, BegunSaved
<1>4. Sound(b, Others(r)) /\ SameRest(Telemetry!Of(r), b) /\ b.f.queue = b.x.queue
  BY <1>2, <1>3, SetBlockedSound
<1> QED BY <1>1, <1>2, <1>4, QueueStep

\* 2xx: the batch goes, and the next is sent.
LEMMA TakenKeeps ==
  ASSUME TelemetryBounds, TelemetryInv, NEW r \in Telemetry!Runs, Telemetry!Taken(r)
  PROVE  TelemetryInv'
<1> DEFINE a == Telemetry!Of(r)
<1>1. Telemetry!Begun(r)
  BY DEF Telemetry!Taken, Telemetry!Waiting
<1>2. /\ Sound(a, Others(r)) /\ a.x = runs[r] /\ a.x.phase \in {"live", "finished"}
  BY <1>1, BegunSaved
<1>3. PICK b : b = Telemetry!Answered(Telemetry!SentOff(
                        NotOwed(a, Telemetry!ToSet(a.x.reply))))
  OBVIOUS
<1>4. PICK c : c = Telemetry!Send(b)
  OBVIOUS
<1>5. Telemetry!Becomes(r, c)
  BY <1>2, <1>3, <1>4 DEF Telemetry!Taken, Telemetry!Batch, NotOwed
<1> HIDE DEF a
<1>6. Sound(b, Others(r)) /\ SameRest(a, b) /\ b.f.queue = b.x.queue
  BY <1>2, <1>3, AnsweredSound
<1>7. b.x.phase \in {"live", "finished"}
  BY <1>2, <1>6 DEF SameRest
<1>8. Sound(c, Others(r)) /\ SameRest(b, c) /\ c.f.queue = c.x.queue
  BY <1>4, <1>6, <1>7, SendSound
<1>9. SameRest(a, c)
  BY <1>6, <1>8 DEF SameRest
<1> QED BY <1>1, <1>5, <1>8, <1>9, QueueStep DEF a

\* 400 and 413: the batch goes.
LEMMA RefusedKeeps ==
  ASSUME TelemetryInv, NEW r \in Telemetry!Runs, Telemetry!Refused(r)
  PROVE  TelemetryInv'
<1> DEFINE a == Telemetry!Of(r)
<1>1. Telemetry!Begun(r)
  BY DEF Telemetry!Refused, Telemetry!Waiting
<1>2. Sound(a, Others(r)) /\ a.x = runs[r]
  BY <1>1, BegunSaved
<1>3. PICK b : b = Telemetry!Answered(Telemetry!SentOff(
                        NotOwed(a, Telemetry!ToSet(a.x.reply))))
  OBVIOUS
<1>4. PICK c : c = Telemetry!More(b)
  OBVIOUS
<1>5. Telemetry!Becomes(r, c)
  BY <1>2, <1>3, <1>4 DEF Telemetry!Refused, Telemetry!Batch, NotOwed
<1> HIDE DEF a
<1>6. Sound(b, Others(r)) /\ SameRest(a, b) /\ b.f.queue = b.x.queue
  BY <1>2, <1>3, AnsweredSound
<1>7. /\ Sound(c, Others(r)) /\ SameRest(b, c) /\ c.f = b.f /\ c.x = b.x
  BY <1>4, <1>6, MoreSound
<1>8. SameRest(a, c) /\ c.f.queue = c.x.queue
  BY <1>6, <1>7 DEF SameRest
<1> QED BY <1>1, <1>5, <1>7, <1>8, QueueStep DEF a

\* What the server took without an answer is not owed; the batch may be sent again.
LEMMA NotOwedSound ==
  ASSUME NEW b, NEW others, Sound(b, others), NEW taken
  PROVE  /\ Sound(NotOwed(b, taken), others) /\ SameRest(b, NotOwed(b, taken))
         /\ NotOwed(b, taken).x = b.x /\ NotOwed(b, taken).f = b.f
<1> DEFINE o == b.seen.owed \ taken
           c == NotOwed(b, taken)
<1>1. b \in Call /\ o \in SUBSET Events /\ o \subseteq b.seen.owed
  BY CallFields DEF Sound
<1>2. c = [b EXCEPT !.seen.owed = o]
  BY <1>1 DEF NotOwed, Call, SeenRecord
<1> HIDE DEF o, c
<1>3. c \in Call
  BY <1>1, <1>2 DEF Call, RunRecord, FileRecord, SeenRecord
<1>4. /\ c.x = b.x /\ c.f = b.f /\ c.seen.owed = o /\ c.seen.told = b.seen.told
      /\ c.seen.ends = b.seen.ends
  BY <1>1, <1>2 DEF Call, SeenRecord
<1>5. c.seen.owed \subseteq others \cup Telemetry!ToSet(c.x.queue)
  BY <1>1, <1>4 DEF Sound
<1> QED BY <1>3, <1>4, <1>5 DEF Sound, SameRest, c

\* Nothing is in flight any more.
LEMMA NoneInFlight ==
  ASSUME NEW b, NEW others, Sound(b, others)
  PROVE  /\ Sound(Telemetry!Answered(b), others) /\ SameRest(b, Telemetry!Answered(b))
         /\ Telemetry!Answered(b).f = b.f /\ Telemetry!Answered(b).x.queue = b.x.queue
<1> DEFINE none == <<>>
<1>1. none \in Seq(Events) /\ 0 \in Nat /\ b \in Call
  BY DEF Sound
<1>2. Telemetry!Answered(b) = SetBatch(b, 0, none)
  BY DEF Telemetry!Answered, SetBatch
<1> HIDE DEF none
<1>3. PICK c : c = SetBatch(b, 0, none)
  OBVIOUS
<1>4. /\ c \in Call /\ c.x.inFlight = 0 /\ c.x.reply = none /\ c.x.queue = b.x.queue
      /\ c.x.phase = b.x.phase /\ c.x.reading = b.x.reading /\ c.f = b.f /\ c.seen = b.seen
  BY <1>1, <1>3, WithBatch
<1>5. InFlight(c.x)
  <2>1. c.x.inFlight = 0 /\ Len(c.x.queue) \in Nat
    BY <1>4, CallFields
  <2>2. c.x.inFlight <= Len(c.x.queue) /\ \A i \in 1..c.x.inFlight : FALSE
    BY <2>1
  <2> QED BY <1>4, <2>2 DEF InFlight, none
<1>6. Sound(c, others) /\ SameRest(b, c)
  BY <1>4, <1>5 DEF Sound, SameRest
<1> QED BY <1>2, <1>3, <1>4, <1>6

LEMMA DelayedKeeps ==
  ASSUME TelemetryInv, NEW r \in Telemetry!Runs, Telemetry!Delayed(r)
  PROVE  TelemetryInv'
<1>1. Telemetry!Begun(r)
  BY DEF Telemetry!Delayed, Telemetry!Waiting
<1>2. PICK taken \in {{}, Telemetry!Batch(r)} :
        Telemetry!Becomes(r, Telemetry!More(Telemetry!Answered(
          [Telemetry!Of(r) EXCEPT !.x.blocked = TRUE, !.seen.owed = @ \ taken])))
  BY DEF Telemetry!Delayed
<1> DEFINE a == Telemetry!Of(r)
<1>3. Sound(a, Others(r)) /\ a.f.queue = a.x.queue
  BY <1>1, BegunSaved
<1>4. PICK b : b = NotOwed(a, taken)
  OBVIOUS
<1>5. PICK c : c = SetBlocked(b, TRUE)
  OBVIOUS
<1>6. PICK d : d = Telemetry!Answered(c)
  OBVIOUS
<1>7. PICK g : g = Telemetry!More(d)
  OBVIOUS
<1>8. c = [a EXCEPT !.x.blocked = TRUE, !.seen.owed = @ \ taken]
  BY <1>3, <1>4, <1>5 DEF NotOwed, SetBlocked, Sound, Call, RunRecord, SeenRecord
<1>9. Telemetry!Becomes(r, g)
  BY <1>2, <1>6, <1>7, <1>8
<1> HIDE DEF a
<1>10. Sound(b, Others(r)) /\ SameRest(a, b) /\ b.x = a.x /\ b.f = a.f
  BY <1>3, <1>4, NotOwedSound
<1>11. Sound(c, Others(r)) /\ SameRest(b, c) /\ c.x.queue = b.x.queue /\ c.f = b.f
  BY <1>5, <1>10, SetBlockedSound
<1>12. Sound(d, Others(r)) /\ SameRest(c, d) /\ d.x.queue = c.x.queue /\ d.f = c.f
  BY <1>6, <1>11, NoneInFlight
<1>13. Sound(g, Others(r)) /\ SameRest(d, g) /\ g.x = d.x /\ g.f = d.f
  BY <1>7, <1>12, MoreSound
<1>14. SameRest(a, g) /\ g.f.queue = g.x.queue
  BY <1>3, <1>10, <1>11, <1>12, <1>13 DEF SameRest
<1> QED BY <1>1, <1>9, <1>13, <1>14, QueueStep DEF a

-----------------------------------------------------------------------------
(* Begins and ends *)

\* The mark of a life that goes on, and the phase of the run
SetLife(b, json, phase) == [b EXCEPT !.f.json = json, !.x.phase = phase]

LivesOn(b, json, phase, c) ==
  /\ c \in Call
  /\ c.x.queue = b.x.queue /\ c.x.inFlight = b.x.inFlight /\ c.x.reply = b.x.reply
  /\ c.x.reading = b.x.reading /\ c.x.phase = phase
  /\ c.f.lock = b.f.lock /\ c.f.json = json /\ c.f.crash = b.f.crash
  /\ c.f.queue = b.f.queue /\ c.seen = b.seen

LEMMA SetLifeIs ==
  ASSUME NEW b \in Call, NEW json \in BOOLEAN, NEW phase \in Phases
  PROVE  LivesOn(b, json, phase, SetLife(b, json, phase))
BY DEF SetLife, Call, RunRecord, FileRecord, LivesOn

\* A run goes on as a live or finished one.
LEMMA SetLifeSound ==
  ASSUME NEW b, NEW others, Sound(b, others), NEW json \in BOOLEAN,
         NEW phase \in {"live", "finished"}
  PROVE  Sound(SetLife(b, json, phase), others)
<1> DEFINE c == SetLife(b, json, phase)
<1>1. b \in Call /\ phase \in Phases
  BY DEF Sound, Phases
<1>2. /\ c \in Call /\ c.x.queue = b.x.queue /\ c.x.inFlight = b.x.inFlight
      /\ c.x.reply = b.x.reply /\ c.x.phase = phase /\ c.seen = b.seen
  BY <1>1, SetLifeIs DEF LivesOn
<1> HIDE DEF c
<1>3. InFlight(c.x)
  BY <1>2 DEF Sound, InFlight
<1>4. Sound(c, others)
  BY <1>2, <1>3 DEF Sound
<1> QED BY <1>4 DEF c

\* The rest of begin(): nothing of an earlier run is taken away any more, and the
\* run has its mark on disk from here.
LEMMA StartKeeps ==
  ASSUME TelemetryBounds, TelemetryInv, NEW r \in Telemetry!Runs, Telemetry!Start(r)
  PROVE  TelemetryInv'
<1> DEFINE a == Telemetry!Of(r)
<1>1. runs[r].phase = "adopting" /\ runs[r].reading.of = 0 /\ runs[r].reading.step = "none"
  BY DEF Telemetry!Start, Telemetry!Free, Telemetry!Adopting, Telemetry!Nobody
<1>2. /\ Sound(a, Others(r)) /\ a.x = runs[r] /\ a.f = files[r] /\ a.seen = seen
      /\ Life(runs[r], files[r], seen.ends[r]) /\ seen.ends[r] = "none"
  BY <1>1, Active
<1>3. PICK e : e = Telemetry!Event(r, "start", 0)
  OBVIOUS
<1>4. e \in Events
  <2>1. r \in Nat
    BY DEF TelemetryBounds, Telemetry!Runs
  <2> QED BY <1>3, <2>1 DEF Telemetry!Event, Events, Kinds
<1>5. PICK b : b = Telemetry!Overflow(a)
  OBVIOUS
<1>6. PICK c : c = SetLife(b, TRUE, "live")
  OBVIOUS
<1>7. PICK d : d = Telemetry!Record(c, e)
  OBVIOUS
<1>8. PICK g : g = Telemetry!Send(d)
  OBVIOUS
<1>9. Telemetry!Becomes(r, g)
  BY <1>3, <1>5, <1>6, <1>7, <1>8 DEF Telemetry!Start, SetLife
<1> HIDE DEF a
<1>10. Sound(b, Others(r)) /\ SameRest(a, b) /\ b \in Call
  BY <1>2, <1>5, OverflowSound DEF Sound
<1>11. /\ Sound(c, Others(r)) /\ c.x.phase = "live" /\ c.x.reading = b.x.reading
       /\ c.f.lock = b.f.lock /\ c.f.json = TRUE /\ c.f.crash = b.f.crash /\ c.seen = b.seen
  <2>1. b \in Call /\ TRUE \in BOOLEAN /\ "live" \in Phases
    BY <1>10 DEF Phases
  <2>2. /\ c.x.phase = "live" /\ c.x.reading = b.x.reading /\ c.f.lock = b.f.lock
        /\ c.f.json = TRUE /\ c.f.crash = b.f.crash /\ c.seen = b.seen
    <3>1. LivesOn(b, TRUE, "live", c)
      BY <1>6, <2>1, SetLifeIs
    <3> QED BY <3>1 DEF LivesOn
  <2>3. Sound(c, Others(r))
    BY <1>6, <1>10, SetLifeSound
  <2> QED BY <2>2, <2>3
<1>12. Sound(d, Others(r)) /\ SameRest(c, d) /\ d.f.queue = d.x.queue
  BY <1>4, <1>7, <1>11, RecordSound
<1>13. d.x.phase = "live"
  BY <1>11, <1>12 DEF SameRest
<1>14. Sound(g, Others(r)) /\ SameRest(d, g) /\ g.f.queue = g.x.queue
  BY <1>8, <1>12, <1>13, SendSound
<1>15. /\ g.x.phase = "live" /\ g.x.reading = runs[r].reading /\ g.f.lock = files[r].lock
       /\ g.f.json = TRUE /\ g.f.crash = files[r].crash
       /\ g.seen.told = seen.told /\ g.seen.ends = seen.ends
  BY <1>2, <1>10, <1>11, <1>12, <1>14 DEF SameRest
<1>16. Life(g.x, g.f, g.seen.ends[r])
  BY <1>1, <1>2, <1>14, <1>15 DEF Life
<1>17. EndLeft(g.x, g.f, g.seen.ends[r])
  BY <1>1, <1>2, <1>15 DEF EndLeft, Life
<1>18. g \in Call /\ InFlight(g.x)
       /\ g.seen.owed \subseteq Others(r) \cup Telemetry!ToSet(g.x.queue)
  BY <1>14 DEF Sound
<1> QED BY <1>1, <1>9, <1>15, <1>16, <1>17, <1>18, OwnStep

\* finish(): the mark goes, and the exit event is in the queue.
LEMMA FinishKeeps ==
  ASSUME TelemetryBounds, TelemetryInv, NEW r \in Telemetry!Runs, Telemetry!Finish(r)
  PROVE  TelemetryInv'
<1> DEFINE a == Telemetry!Of(r)
<1>1. runs[r].phase = "live" /\ Telemetry!Begun(r)
  BY DEF Telemetry!Finish, Telemetry!Begun
<1>2. /\ Sound(a, Others(r)) /\ a.x = runs[r] /\ a.f = files[r] /\ a.seen = seen
      /\ Life(runs[r], files[r], seen.ends[r]) /\ seen.ends[r] = "none"
  BY <1>1, Active
<1>3. runs[r].reading.of = 0 /\ runs[r].reading.step = "none"
  BY <1>1 DEF TelemetryInv, Readings, ReadsAnother
<1>4. PICK e : e = Telemetry!Event(r, "exit", 0)
  OBVIOUS
<1>5. e \in Events
  <2>1. r \in Nat
    BY DEF TelemetryBounds, Telemetry!Runs
  <2> QED BY <1>4, <2>1 DEF Telemetry!Event, Events, Kinds
<1>6. PICK b : b = SetLife(a, TRUE, "finished")
  OBVIOUS
<1>7. PICK c : c = Telemetry!Record(b, e)
  OBVIOUS
<1>8. PICK d : d = SetLife(c, FALSE, "finished")
  OBVIOUS
<1>9. PICK g : g = Telemetry!Send(d)
  OBVIOUS
<1>10. b = [a EXCEPT !.x.phase = "finished"]
  <2>1. a \in Call /\ a.f.json = TRUE
    BY <1>1, <1>2 DEF Life, Sound, Call, FileRecord
  <2> QED BY <1>6, <2>1 DEF SetLife, Call, FileRecord
<1>11. Sound(b, Others(r)) /\ b.x.phase = "finished" /\ b.x.reading = a.x.reading
       /\ b.f.lock = a.f.lock /\ b.f.crash = a.f.crash /\ b.seen = a.seen
  <2>1. a \in Call
    BY <1>2 DEF Sound
  <2> HIDE DEF a
  <2>2. TRUE \in BOOLEAN /\ "finished" \in Phases
    BY DEF Phases
  <2>3. /\ b.x.phase = "finished" /\ b.x.reading = a.x.reading
        /\ b.f.lock = a.f.lock /\ b.f.crash = a.f.crash /\ b.seen = a.seen
    <3>1. LivesOn(a, TRUE, "finished", b)
      BY <1>6, <2>1, <2>2, SetLifeIs
    <3> QED BY <3>1 DEF LivesOn
  <2>4. Sound(b, Others(r))
    BY <1>2, <1>6, SetLifeSound
  <2> QED BY <2>3, <2>4
<1>12. Sound(c, Others(r)) /\ SameRest(b, c) /\ c.f.queue = c.x.queue
  BY <1>5, <1>7, <1>11, RecordSound
<1>13. c \in Call /\ c.x.phase = "finished"
  BY <1>11, <1>12 DEF SameRest, Sound
<1>14. /\ Sound(d, Others(r)) /\ d.x.phase = "finished" /\ d.x.reading = c.x.reading
       /\ d.f.lock = c.f.lock /\ d.f.json = FALSE /\ d.f.crash = c.f.crash /\ d.seen = c.seen
       /\ d.f.queue = c.f.queue /\ d.x.queue = c.x.queue
  <2>1. c \in Call /\ FALSE \in BOOLEAN /\ "finished" \in Phases
    BY <1>13 DEF Phases
  <2>2. /\ d.x.phase = "finished" /\ d.x.reading = c.x.reading
        /\ d.f.lock = c.f.lock /\ d.f.json = FALSE /\ d.f.crash = c.f.crash
        /\ d.seen = c.seen /\ d.f.queue = c.f.queue /\ d.x.queue = c.x.queue
    <3>1. LivesOn(c, FALSE, "finished", d)
      BY <1>8, <2>1, SetLifeIs
    <3> QED BY <3>1 DEF LivesOn
  <2>3. Sound(d, Others(r))
    BY <1>8, <1>12, SetLifeSound
  <2> QED BY <2>2, <2>3
<1>15. d = [c EXCEPT !.f.json = FALSE]
  BY <1>8, <1>13 DEF SetLife, Call, RunRecord
<1>16. Telemetry!Becomes(r, g)
  BY <1>4, <1>7, <1>9, <1>10, <1>15 DEF Telemetry!Finish
<1> HIDE DEF a
<1>17. Sound(g, Others(r)) /\ SameRest(d, g) /\ g.f.queue = g.x.queue
  BY <1>9, <1>12, <1>14, SendSound
<1>18. /\ g.x.phase = "finished" /\ g.x.reading = runs[r].reading
       /\ g.f.lock = files[r].lock /\ g.f.json = FALSE /\ g.f.crash = files[r].crash
       /\ g.seen.told = seen.told /\ g.seen.ends = seen.ends
  BY <1>2, <1>11, <1>12, <1>14, <1>17 DEF SameRest
<1>19. Life(g.x, g.f, g.seen.ends[r])
  BY <1>1, <1>2, <1>17, <1>18 DEF Life
<1>20. EndLeft(g.x, g.f, g.seen.ends[r])
  BY <1>1, <1>2, <1>18 DEF EndLeft, Life
<1>21. g \in Call /\ InFlight(g.x)
       /\ g.seen.owed \subseteq Others(r) \cup Telemetry!ToSet(g.x.queue)
  BY <1>17 DEF Sound
<1> QED BY <1>1, <1>3, <1>16, <1>18, <1>19, <1>20, <1>21, OwnStep

GoneRun == [Telemetry!NewRun EXCEPT !.phase = "gone"]

LEMMA NewRunIs ==
  ASSUME TelemetryBounds
  PROVE  /\ Telemetry!NewRun \in RunRecord
         /\ Telemetry!NewRun.queue = <<>> /\ Telemetry!NewRun.reply = <<>>
         /\ Telemetry!NewRun.inFlight = 0
         /\ Telemetry!NewRun.reading.of = 0 /\ Telemetry!NewRun.reading.step = "none"
<1>1. <<>> \in Seq(Events)
  OBVIOUS
<1>2. Telemetry!Nobody \in [of : 0..MaxRuns, step : Steps]
  BY DEF Telemetry!Nobody, Steps, TelemetryBounds
<1>3. Telemetry!NewRun \in RunRecord
  BY <1>1, <1>2 DEF Telemetry!NewRun, RunRecord, Phases
<1>4. /\ Telemetry!NewRun.queue = <<>> /\ Telemetry!NewRun.reply = <<>>
      /\ Telemetry!NewRun.inFlight = 0
      /\ Telemetry!NewRun.reading.of = 0 /\ Telemetry!NewRun.reading.step = "none"
  BY DEF Telemetry!NewRun, Telemetry!Nobody
<1> QED BY <1>3, <1>4

LEMMA GoneRunIs ==
  ASSUME TelemetryBounds
  PROVE  /\ GoneRun \in RunRecord /\ GoneRun.phase = "gone"
         /\ GoneRun.queue = <<>> /\ GoneRun.reply = <<>> /\ GoneRun.inFlight = 0
         /\ GoneRun.reading.of = 0 /\ GoneRun.reading.step = "none" /\ InFlight(GoneRun)
<1>1. /\ GoneRun.phase = "gone"
      /\ GoneRun.queue = <<>> /\ GoneRun.reply = <<>> /\ GoneRun.inFlight = 0
      /\ GoneRun.reading.of = 0 /\ GoneRun.reading.step = "none"
  BY DEF GoneRun, Telemetry!NewRun, Telemetry!Nobody
<1>2. GoneRun \in RunRecord
  BY NewRunIs DEF GoneRun, RunRecord, Phases
<1>3. InFlight(GoneRun)
  <2>1. \A k \in 1..GoneRun.inFlight : FALSE
    BY <1>1
  <2>2. GoneRun.inFlight <= Len(GoneRun.queue)
    BY <1>1
  <2> QED BY <1>1, <2>1, <2>2 DEF InFlight
<1> QED BY <1>1, <1>2, <1>3

\* A run is gone: of its memory nothing is left, of its files what b says.
LEMMA GoneStep ==
  ASSUME TelemetryBounds, TelemetryInv, NEW r \in Telemetry!Runs,
         runs[r].phase \in {"adopting", "live", "finished"},
         NEW b \in Call, NEW how \in {"closed", "killed", "crash", "begin"},
         Telemetry!Becomes(r, Telemetry!Gone(r, b, how)),
         b.seen.told = seen.told, b.seen.ends = seen.ends, b.f.lock # "held",
         b.f.crash => how = "crash", b.f.json => how \in {"killed", "crash"},
         how = "killed" => b.f.json, how = "crash" => b.f.crash,
         b.seen.owed \subseteq Others(r) \cup Telemetry!ToSet(b.f.queue)
  PROVE  TelemetryInv'
<1> DEFINE c == Telemetry!Gone(r, b, how)
           ends == [b.seen.ends EXCEPT ![r] = how]
<1>1. b.f \in FileRecord /\ b.seen \in SeenRecord
      /\ b.seen.ends \in [Telemetry!Runs -> Ends]
  BY DEF Call, SeenRecord
<1>2. ends \in [Telemetry!Runs -> Ends] /\ ends[r] = how
      /\ \A j \in Telemetry!Runs \ {r} : ends[j] = b.seen.ends[j]
  BY <1>1 DEF Ends
<1>3. c = [b EXCEPT !.x = GoneRun, !.seen.ends = ends]
  BY DEF Telemetry!Gone, GoneRun, Call, SeenRecord
<1>4. Telemetry!Becomes(r, c)
  OBVIOUS
<1> HIDE DEF c, ends
<1>5. c \in Call
  BY <1>2, <1>3, GoneRunIs DEF Call, FileRecord, SeenRecord
<1>6. /\ c.x = GoneRun /\ c.f = b.f /\ c.seen.ends = ends /\ c.seen.told = b.seen.told
      /\ c.seen.owed = b.seen.owed
  BY <1>3 DEF Call, SeenRecord
<1>7. Life(c.x, c.f, c.seen.ends[r])
  BY <1>2, <1>6, GoneRunIs DEF Life
<1>8. EndLeft(c.x, c.f, c.seen.ends[r])
  BY <1>2, <1>6 DEF EndLeft
<1>9. c.seen.owed \subseteq
        Others(r) \cup Telemetry!ToSet(c.x.queue) \cup Telemetry!ToSet(c.f.queue)
  BY <1>6
<1> QED BY <1>2, <1>4, <1>5, <1>6, <1>7, <1>8, <1>9, GoneRunIs, OwnStep

\* What a run that ends leaves on disk
SetLeft(b, lock, crash) == [b EXCEPT !.f.lock = lock, !.f.crash = crash]

LEMMA SetLeftIs ==
  ASSUME NEW b \in Call, NEW lock \in {"none", "stale"}, NEW crash \in BOOLEAN
  PROVE  /\ SetLeft(b, lock, crash) \in Call
         /\ SetLeft(b, lock, crash).f.lock = lock /\ SetLeft(b, lock, crash).f.crash = crash
         /\ SetLeft(b, lock, crash).f.json = b.f.json
         /\ SetLeft(b, lock, crash).f.queue = b.f.queue
         /\ SetLeft(b, lock, crash).seen = b.seen
BY DEF SetLeft, Call, FileRecord, RunRecord, SeenRecord

\* The batch that is out may have been taken when the run ends.
LEMMA QuitKeeps ==
  ASSUME TelemetryBounds, TelemetryInv, NEW r \in Telemetry!Runs, Telemetry!Quit(r)
  PROVE  TelemetryInv'
<1> DEFINE a == Telemetry!Of(r)
<1>1. runs[r].phase = "finished" /\ Telemetry!Begun(r)
  BY DEF Telemetry!Quit, Telemetry!Begun
<1>2. /\ Sound(a, Others(r)) /\ a.x = runs[r] /\ a.f = files[r] /\ a.seen = seen
      /\ Life(runs[r], files[r], seen.ends[r])
  BY <1>1, Active
<1>3. PICK taken \in {{}, Telemetry!Batch(r)} :
        LET b == Telemetry!SaveQueue([Telemetry!Of(r) EXCEPT !.seen.owed = @ \ taken])
        IN Telemetry!Becomes(r, Telemetry!Gone(r,
             [b EXCEPT !.f.crash = FALSE, !.f.lock = "none"], "closed"))
  BY DEF Telemetry!Quit
<1>4. PICK b : b = NotOwed(a, taken)
  OBVIOUS
<1>5. PICK c : c = Telemetry!SaveQueue(b)
  OBVIOUS
<1>6. PICK d : d = SetLeft(c, "none", FALSE)
  OBVIOUS
<1>7. Telemetry!Becomes(r, Telemetry!Gone(r, [c EXCEPT !.f.crash = FALSE, !.f.lock = "none"],
                                          "closed"))
  BY <1>3, <1>4, <1>5 DEF NotOwed
<1> HIDE DEF a
<1>8. Sound(b, Others(r)) /\ SameRest(a, b) /\ b.x = a.x /\ b.f = a.f
  BY <1>2, <1>4, NotOwedSound
<1>9. Sound(c, Others(r)) /\ SameRest(b, c) /\ c.x = b.x /\ c.f.queue = b.x.queue
  BY <1>5, <1>8, SaveQueueSound
<1>10. c \in Call
  BY <1>9 DEF Sound
<1>11. d = [c EXCEPT !.f.crash = FALSE, !.f.lock = "none"]
  BY <1>6, <1>10 DEF SetLeft, Call, FileRecord
<1>12. /\ d \in Call /\ d.f.lock = "none" /\ d.f.crash = FALSE /\ d.f.json = c.f.json
       /\ d.f.queue = c.f.queue /\ d.seen = c.seen
  BY <1>6, <1>10, SetLeftIs
<1>13. Telemetry!Becomes(r, Telemetry!Gone(r, d, "closed"))
  BY <1>7, <1>11
<1>14. /\ d.f.json = FALSE /\ d.seen.told = seen.told /\ d.seen.ends = seen.ends
  BY <1>1, <1>2, <1>8, <1>9, <1>12 DEF SameRest, Life
<1>15. d.seen.owed \subseteq Others(r) \cup Telemetry!ToSet(d.f.queue)
  BY <1>9, <1>12 DEF Sound
<1> QED BY <1>1, <1>12, <1>13, <1>14, <1>15, GoneStep

\* A crash or a kill: with its mark on disk, the run is told to have ended so.
LEMMA EndKeeps ==
  ASSUME TelemetryBounds, TelemetryInv, NEW r \in Telemetry!Runs, NEW how \in {"crash", "killed"},
         Telemetry!End(r, how)
  PROVE  TelemetryInv'
<1> DEFINE a == Telemetry!Of(r)
           crash == how = "crash"
           end == IF how = "killed" /\ runs[r].phase = "finished" THEN "closed" ELSE how
<1>1. Telemetry!Begun(r) /\ runs[r].phase \in {"live", "finished"}
  BY DEF Telemetry!End, Telemetry!Begun
<1>2. /\ Sound(a, Others(r)) /\ a.x = runs[r] /\ a.f = files[r] /\ a.seen = seen
      /\ Life(runs[r], files[r], seen.ends[r])
  BY <1>1, Active
<1>3. PICK taken \in {{}, Telemetry!Batch(r)} :
        Telemetry!Becomes(r, Telemetry!Gone(r,
          [Telemetry!Of(r) EXCEPT !.f.lock = "stale", !.f.crash = (how = "crash"),
                                  !.seen.owed = @ \ taken], end))
  BY DEF Telemetry!End
<1>4. PICK b : b = NotOwed(a, taken)
  OBVIOUS
<1>5. PICK c : c = SetLeft(b, "stale", crash)
  OBVIOUS
<1>6. c = [a EXCEPT !.f.lock = "stale", !.f.crash = (how = "crash"), !.seen.owed = @ \ taken]
  BY <1>2, <1>4, <1>5 DEF NotOwed, SetLeft, Sound, Call, FileRecord, SeenRecord
<1>7. Telemetry!Becomes(r, Telemetry!Gone(r, c, end))
  BY <1>3, <1>6
<1>8. crash \in BOOLEAN /\ (crash <=> how = "crash")
      /\ end \in {"closed", "killed", "crash"} /\ (end = "crash" <=> how = "crash")
      /\ (end = "closed" <=> how = "killed" /\ runs[r].phase = "finished")
  OBVIOUS
<1> HIDE DEF a, crash, end
<1>9. Sound(b, Others(r)) /\ SameRest(a, b) /\ b.x = a.x /\ b.f = a.f
  BY <1>2, <1>4, NotOwedSound
<1>10. b \in Call
  BY <1>9 DEF Sound
<1>11. /\ c \in Call /\ c.f.lock = "stale" /\ c.f.crash = crash /\ c.f.json = b.f.json
       /\ c.f.queue = b.f.queue /\ c.seen = b.seen
  BY <1>5, <1>8, <1>10, SetLeftIs
<1>12. /\ c.f.json = files[r].json /\ c.seen.told = seen.told /\ c.seen.ends = seen.ends
  BY <1>2, <1>9, <1>11 DEF SameRest
<1>13. /\ files[r].json <=> runs[r].phase = "live"
       /\ files[r].queue = runs[r].queue
  BY <1>1, <1>2 DEF Life
<1>14. c.seen.owed \subseteq Others(r) \cup Telemetry!ToSet(c.f.queue)
  BY <1>2, <1>9, <1>11, <1>13 DEF Sound
<1>15. /\ (c.f.crash => end = "crash") /\ (end = "crash" => c.f.crash)
       /\ (c.f.json => end \in {"killed", "crash"}) /\ (end = "killed" => c.f.json)
  BY <1>1, <1>8, <1>11, <1>12, <1>13
<1> QED BY <1>1, <1>7, <1>8, <1>11, <1>12, <1>14, <1>15, GoneStep

SetLock(b, lock) == [b EXCEPT !.f.lock = lock]

LEMMA SetLockIs ==
  ASSUME NEW b \in Call, NEW lock \in {"none", "held", "stale"}
  PROVE  /\ SetLock(b, lock) \in Call
         /\ SetLock(b, lock).f.lock = lock /\ SetLock(b, lock).f.crash = b.f.crash
         /\ SetLock(b, lock).f.json = b.f.json /\ SetLock(b, lock).f.queue = b.f.queue
         /\ SetLock(b, lock).seen = b.seen
BY DEF SetLock, Call, FileRecord, RunRecord, SeenRecord

\* Killed inside begin(), a run has nothing on disk but its lock.
LEMMA KilledInBeginKeeps ==
  ASSUME TelemetryBounds, TelemetryInv, NEW r \in Telemetry!Runs, Telemetry!KilledInBegin(r)
  PROVE  TelemetryInv'
<1> DEFINE a == Telemetry!Of(r)
           lost == Telemetry!ToSet(runs[r].queue)
<1>1. runs[r].phase = "adopting"
  BY DEF Telemetry!KilledInBegin, Telemetry!Adopting
<1>2. /\ Sound(a, Others(r)) /\ a.x = runs[r] /\ a.f = files[r] /\ a.seen = seen
      /\ Life(runs[r], files[r], seen.ends[r])
  BY <1>1, Active
<1>3. ~ files[r].json /\ ~ files[r].crash
  BY <1>1, <1>2 DEF Life
<1>4. PICK b : b = NotOwed(a, lost)
  OBVIOUS
<1>5. PICK c : c = SetLock(b, "stale")
  OBVIOUS
<1>6. c = [a EXCEPT !.f.lock = "stale", !.seen.owed = @ \ lost]
  BY <1>2, <1>4, <1>5 DEF NotOwed, SetLock, Sound, Call, SeenRecord
<1>7. Telemetry!Becomes(r, Telemetry!Gone(r, c, "begin"))
  BY <1>6 DEF Telemetry!KilledInBegin
<1>8. b.seen.owed \subseteq a.seen.owed \ lost
  BY <1>2, <1>4 DEF NotOwed, Sound, Call, SeenRecord
<1>9. a.seen.owed \subseteq Others(r) \cup lost
  BY <1>2 DEF Sound
<1> HIDE DEF a, lost
<1>10. Sound(b, Others(r)) /\ SameRest(a, b) /\ b.x = a.x /\ b.f = a.f
  BY <1>2, <1>4, NotOwedSound
<1>11. b \in Call
  BY <1>10 DEF Sound
<1>12. /\ c \in Call /\ c.f.lock = "stale" /\ c.f.crash = b.f.crash /\ c.f.json = b.f.json
       /\ c.f.queue = b.f.queue /\ c.seen = b.seen
  BY <1>5, <1>11, SetLockIs
<1>13. /\ c.f.json = FALSE /\ c.f.crash = FALSE
       /\ c.seen.told = seen.told /\ c.seen.ends = seen.ends
  BY <1>2, <1>3, <1>10, <1>12 DEF SameRest, Call, FileRecord
<1>14. c.seen.owed \subseteq Others(r) \cup Telemetry!ToSet(c.f.queue)
  BY <1>8, <1>9, <1>12
<1> QED BY <1>1, <1>7, <1>12, <1>13, <1>14, GoneStep

\* begin(): a run that was not there has its lock and nothing else.
LEMMA BeginKeeps ==
  ASSUME TelemetryBounds, TelemetryInv, NEW r \in Telemetry!Runs, Telemetry!Begin(r)
  PROVE  TelemetryInv'
<1> DEFINE todo == Telemetry!OnDisk \ {r}
           x == [Telemetry!NewRun EXCEPT !.phase = "adopting", !.todo = todo]
           f == [files[r] EXCEPT !.lock = "held"]
           b == [x |-> x, f |-> f, seen |-> seen]
<1>1. runs[r].phase = "off"
  BY DEF Telemetry!Begin
<1>2. /\ runs \in [Telemetry!Runs -> RunRecord] /\ files \in [Telemetry!Runs -> FileRecord]
      /\ files[r] \in FileRecord /\ seen \in SeenRecord
  BY DEF TelemetryInv, TelemetryTyped
<1>3. Life(runs[r], files[r], seen.ends[r])
  BY DEF TelemetryInv, LivesAndFiles
<1>4. Telemetry!NewRun \in RunRecord /\ Telemetry!NewRun.queue = <<>>
      /\ Telemetry!NewRun.reply = <<>> /\ Telemetry!NewRun.inFlight = 0
      /\ Telemetry!NewRun.reading.of = 0 /\ Telemetry!NewRun.reading.step = "none"
  BY NewRunIs
<1>5. todo \in SUBSET Telemetry!Runs
  BY DEF Telemetry!OnDisk
<1> HIDE DEF todo
<1>6. x \in RunRecord /\ x.phase = "adopting" /\ x.queue = <<>> /\ x.reply = <<>>
      /\ x.inFlight = 0 /\ x.reading = Telemetry!NewRun.reading
  BY <1>4, <1>5 DEF RunRecord, Phases
<1>7. f \in FileRecord /\ f.lock = "held" /\ f.json = files[r].json
      /\ f.crash = files[r].crash /\ f.queue = files[r].queue
  BY <1>2 DEF FileRecord
<1>8. runs' = [runs EXCEPT ![r] = x] /\ files' = [files EXCEPT ![r] = f] /\ seen' = seen
  BY DEF Telemetry!Begin, todo
<1> HIDE DEF x, f
<1>9. b \in Call /\ b.x = x /\ b.f = f /\ b.seen = seen
  BY <1>2, <1>6, <1>7 DEF Call
<1>10. Telemetry!Becomes(r, b)
  BY <1>8 DEF Telemetry!Becomes
<1> HIDE DEF b
<1>11. InFlight(b.x)
  <2>1. \A k \in 1..x.inFlight : FALSE
    BY <1>6
  <2>2. x.inFlight <= Len(x.queue)
    BY <1>6
  <2> QED BY <1>6, <1>9, <2>1, <2>2 DEF InFlight
<1>12. Life(b.x, b.f, b.seen.ends[r]) /\ EndLeft(b.x, b.f, b.seen.ends[r])
  BY <1>1, <1>3, <1>6, <1>7, <1>9 DEF Life, EndLeft
<1>13. seen.owed \subseteq Others(r)
  <2>1. Telemetry!ToSet(runs[r].queue) = {} /\ Telemetry!ToSet(files[r].queue) = {}
    BY <1>1, <1>3, SetOfNone DEF Life
  <2> QED BY <2>1, KeptIs DEF TelemetryInv, AllHeld, SomeoneHas, Others
<1>14. \A i \in b.x.todo : runs[i].phase # "off"
  <2>1. \A i \in todo : i \in Telemetry!Runs /\ files[i] # Telemetry!NoFiles
    BY DEF todo, Telemetry!OnDisk
  <2>2. b.x.todo = todo
    BY <1>4, <1>9 DEF x, RunRecord
  <2> QED BY <2>1, <2>2 DEF TelemetryInv, LivesAndFiles, Life
<1> QED BY <1>1, <1>4, <1>6, <1>9, <1>10, <1>11, <1>12, <1>13, <1>14, OwnStep

-----------------------------------------------------------------------------
(* Taking over what earlier runs left *)

\* A run that reads changes itself and what is told.
LEMMA ReaderStep ==
  ASSUME TelemetryInv, NEW r \in Telemetry!Runs, runs[r].phase = "adopting",
         NEW x \in RunRecord, runs' = [runs EXCEPT ![r] = x], files' = files,
         x.phase = "adopting", InFlight(x),
         Telemetry!ToSet(runs[r].queue) \subseteq Telemetry!ToSet(x.queue),
         seen' \in SeenRecord, seen'.ends = seen.ends, seen.told \subseteq seen'.told,
         seen'.owed \subseteq seen.owed \cup Telemetry!ToSet(x.queue),
         (ReadsAnother(r) /\ EndRead(r))', EndsOnDisk'
  PROVE  TelemetryInv'
<1>1. /\ runs \in [Telemetry!Runs -> RunRecord] /\ files \in [Telemetry!Runs -> FileRecord]
  BY DEF TelemetryInv, TelemetryTyped
<1>2. TelemetryTyped'
  BY <1>1 DEF TelemetryTyped, Telemetry!Runs
<1>3. runs'[r] = x /\ \A k \in Telemetry!Runs : k # r => runs'[k] = runs[k]
  BY <1>1
<1>4. LivesAndFiles'
  <2> SUFFICES ASSUME NEW k \in Telemetry!Runs PROVE Life(runs'[k], files[k], seen.ends[k])
    BY DEF LivesAndFiles, Telemetry!Runs
  <2>1. Life(runs[k], files[k], seen.ends[k])
    BY DEF TelemetryInv, LivesAndFiles
  <2>2. CASE k = r BY <1>3, <2>1, <2>2 DEF Life
  <2>3. CASE k # r BY <1>3, <2>1, <2>3
  <2> QED BY <2>2, <2>3
<1>5. Batches'
  BY <1>3 DEF TelemetryInv, Batches, Telemetry!Runs
<1>6. \A k \in Telemetry!Runs : runs'[k].phase = runs[k].phase
  BY <1>3
<1>7. ASSUME NEW k \in Telemetry!Runs, k # r PROVE ReadsAnother(k)' /\ EndRead(k)'
  <2>1. ReadsAnother(k) /\ EndRead(k) /\ runs'[k] = runs[k]
    BY <1>3, <1>7 DEF TelemetryInv, Readings
  <2>5. runs[k].reading.of \in 0..MaxRuns
    BY <1>1 DEF RunRecord
  <2>2. runs[k].reading.of # 0 => runs[k].reading.of \in Telemetry!Runs
    BY <2>5 DEF Telemetry!Runs
  <2>3. ReadsAnother(k)'
    BY <1>6, <2>1, <2>2 DEF ReadsAnother
  <2>4. EndRead(k)'
    BY <2>1 DEF EndRead, Telemetry!Told
  <2> QED BY <2>3, <2>4
<1>8. Readings'
  BY <1>7 DEF Readings, Telemetry!Runs
<1>9. AllHeld'
  <2> SUFFICES ASSUME NEW e \in seen'.owed PROVE SomeoneHas(e)'
    BY DEF AllHeld
  <2>1. CASE e \in Telemetry!ToSet(x.queue)
    BY <1>3, <2>1 DEF SomeoneHas, Telemetry!Runs
  <2>2. CASE e \in seen.owed
    <3>1. PICK j \in Telemetry!Runs :
            e \in Telemetry!ToSet(runs[j].queue) \cup Telemetry!ToSet(files[j].queue)
      BY <2>2, KeptIs DEF TelemetryInv, AllHeld, SomeoneHas
    <3>2. e \in Telemetry!ToSet(runs'[j].queue) \cup Telemetry!ToSet(files'[j].queue)
      BY <1>3, <3>1
    <3> QED BY <3>2 DEF SomeoneHas, Telemetry!Runs
  <2> QED BY <2>1, <2>2
<1>10. Telemetry!EventsAreKept'
  BY <1>9, KeptIsNext
<1> QED BY <1>2, <1>4, <1>5, <1>8, <1>10 DEF TelemetryInv

LEMMA LookAtKeeps ==
  ASSUME TelemetryBounds, TelemetryInv, NEW r \in Telemetry!Runs, NEW j \in Telemetry!Runs,
         Telemetry!LookAt(r, j)
  PROVE  TelemetryInv'
<1> DEFINE todo == runs[r].todo \ {j}
           looked == [runs[r] EXCEPT !.todo = todo]
           q == runs[r].queue \o files[j].queue
           adopted == [of |-> j, step |-> "crash"]
           taken == [looked EXCEPT !.queue = looked.queue \o files[j].queue,
                                   !.reading = adopted]
           held == files[j].lock = "held"
           x == IF held THEN looked ELSE taken
<1>1. /\ runs[r].phase = "adopting" /\ runs[r].reading = Telemetry!Nobody
      /\ j \in runs[r].todo /\ files' = files /\ seen' = seen
      /\ runs' = [runs EXCEPT ![r] = x]
  BY DEF Telemetry!LookAt, Telemetry!Free, Telemetry!Adopting
<1>2. /\ runs[r] \in RunRecord /\ files[j] \in FileRecord /\ seen \in SeenRecord
      /\ runs \in [Telemetry!Runs -> RunRecord]
  BY DEF TelemetryInv, TelemetryTyped
<1>3. runs[r].queue \in Seq(Events) /\ files[j].queue \in Seq(Events)
  BY <1>2 DEF RunRecord, FileRecord
<1>4. /\ q \in Seq(Events) /\ Len(q) \in Nat /\ Len(runs[r].queue) <= Len(q)
      /\ \A k \in 1..Len(runs[r].queue) : q[k] = runs[r].queue[k]
      /\ Telemetry!ToSet(q) =
           Telemetry!ToSet(runs[r].queue) \cup Telemetry!ToSet(files[j].queue)
  BY <1>3, ConcatIs, SetOfConcat
<1>5. adopted \in [of : 0..MaxRuns, step : Steps] /\ adopted.of = j /\ adopted.step = "crash"
  BY DEF Steps, Telemetry!Runs, TelemetryBounds
<1>6. todo \in SUBSET Telemetry!Runs /\ todo \subseteq runs[r].todo
  BY <1>2 DEF RunRecord
<1> HIDE DEF todo, adopted
<1>7. /\ looked \in RunRecord /\ looked.phase = "adopting" /\ looked.queue = runs[r].queue
      /\ looked.inFlight = runs[r].inFlight /\ looked.reply = runs[r].reply
      /\ looked.reading = runs[r].reading /\ looked.todo = todo
  BY <1>1, <1>2, <1>6 DEF RunRecord
<1> HIDE DEF looked
<1>8. taken = [looked EXCEPT !.queue = q, !.reading = adopted]
  BY <1>7
<1> HIDE DEF q, taken
<1>9. /\ taken \in RunRecord /\ taken.phase = "adopting" /\ taken.queue = q
      /\ taken.inFlight = runs[r].inFlight /\ taken.reply = runs[r].reply
      /\ taken.reading = adopted /\ taken.todo = todo
  BY <1>4, <1>5, <1>7, <1>8 DEF RunRecord
<1>10. /\ x \in RunRecord /\ x.phase = "adopting" /\ x.inFlight = runs[r].inFlight
       /\ x.reply = runs[r].reply /\ x.todo = todo
       /\ (x.queue = runs[r].queue /\ held /\ x.reading = runs[r].reading)
            \/ (x.queue = q /\ ~ held /\ x.reading = adopted)
  BY <1>7, <1>9
<1> HIDE DEF x, held
<1>11. runs'[r] = x /\ \A k \in Telemetry!Runs : k # r => runs'[k] = runs[k]
  BY <1>1, <1>2
<1>12. \A k \in Telemetry!Runs : runs'[k].phase = runs[k].phase
  BY <1>1, <1>10, <1>11
<1>13. EndsOnDisk'
  <2>1. ASSUME NEW k \in Telemetry!Runs PROVE EndOnDisk(k)'
    BY <1>1, <1>12 DEF TelemetryInv, EndsOnDisk, EndOnDisk, Telemetry!Told
  <2> QED BY <2>1 DEF EndsOnDisk, Telemetry!Runs
<1>14. InFlight(x) /\ Telemetry!ToSet(runs[r].queue) \subseteq Telemetry!ToSet(x.queue)
  <2>1. InFlight(runs[r]) /\ runs[r].inFlight \in Nat /\ Len(runs[r].queue) \in Nat
    BY <1>2, <1>3 DEF TelemetryInv, Batches, RunRecord
  <2>2. CASE x.queue = runs[r].queue
    BY <1>1, <1>10, <2>1, <2>2 DEF InFlight
  <2>3. CASE x.queue = q
    <3>1. x.inFlight <= Len(x.queue)
      BY <1>4, <1>10, <2>1, <2>3 DEF InFlight
    <3>2. \A k \in 1..x.inFlight : x.queue[k] \in Telemetry!ToSet(x.reply)
      BY <1>4, <1>10, <2>1, <2>3 DEF InFlight
    <3>3. x.reply = <<>>
      BY <1>1, <1>10, <2>1 DEF InFlight
    <3> QED BY <1>4, <2>3, <3>1, <3>2, <3>3 DEF InFlight
  <2> QED BY <1>10, <2>2, <2>3
<1>15. \A i \in runs'[r].todo : runs'[i].phase # "off"
  <2>1. \A i \in todo : i \in Telemetry!Runs /\ runs[i].phase # "off"
    BY <1>1, <1>6 DEF TelemetryInv, Readings, ReadsAnother
  <2> QED BY <1>10, <1>11, <1>12, <2>1
<1>16. CASE held
  <2>1. runs'[r].reading.of = 0 /\ runs'[r].reading.step = "none"
    BY <1>1, <1>10, <1>11, <1>16 DEF Telemetry!Nobody
  <2>2. ReadsAnother(r)' /\ EndRead(r)'
    BY <1>15, <2>1 DEF ReadsAnother, EndRead
  <2> QED BY <1>1, <1>2, <1>10, <1>13, <1>14, <2>2, ReaderStep
<1>17. CASE ~ held
  <2>1. Life(runs[r], files[r], seen.ends[r]) /\ Life(runs[j], files[j], seen.ends[j])
    BY DEF TelemetryInv, LivesAndFiles
  <2>2. j # r /\ j # 0
    BY <1>1, <1>17, <2>1 DEF Life, held, Telemetry!Runs
  <2>3. runs[j].phase # "off"
    BY <1>1 DEF TelemetryInv, Readings, ReadsAnother
  <2>4. runs[j].phase \in Phases
    BY <1>2 DEF RunRecord
  <2>5. runs[j].phase = "gone"
    BY <1>17, <2>1, <2>3, <2>4 DEF Life, Phases, held
  <2>6. runs'[r].reading.of = j /\ runs'[r].reading.step = "crash" /\ runs'[r].queue = q
        /\ runs'[r].phase = "adopting" /\ runs'[j] = runs[j]
    BY <1>5, <1>10, <1>11, <1>17, <2>2
  <2>7. ReadsAnother(r)'
    BY <1>1, <1>4, <1>15, <2>2, <2>5, <2>6 DEF ReadsAnother
  <2>8. EndRead(r)'
    BY <2>6 DEF EndRead, RemoveSteps
  <2> QED BY <1>1, <1>2, <1>10, <1>13, <1>14, <2>7, <2>8, ReaderStep
<1> QED BY <1>16, <1>17

\* The report on how a run ended, and how far its files are read
Reported(b, j, kind) == [b EXCEPT !.seen.told = @ \cup {[of |-> j, as |-> kind]}]
SetStep(b, step) == [b EXCEPT !.x.reading.step = step]

LEMMA ReportedIs ==
  ASSUME NEW b \in Call, NEW j \in Nat, NEW kind \in Kinds
  PROVE  /\ Reported(b, j, kind) \in Call
         /\ Reported(b, j, kind).x = b.x /\ Reported(b, j, kind).f = b.f
         /\ Reported(b, j, kind).seen.told = b.seen.told \cup {[of |-> j, as |-> kind]}
         /\ Reported(b, j, kind).seen.ends = b.seen.ends
         /\ Reported(b, j, kind).seen.owed = b.seen.owed
<1> DEFINE told == b.seen.told \cup {[of |-> j, as |-> kind]}
           c == Reported(b, j, kind)
<1>1. told \in SUBSET [of : Nat, as : Kinds]
  BY DEF Call, SeenRecord
<1>2. c = [b EXCEPT !.seen.told = told]
  BY DEF Reported, Call, SeenRecord
<1> HIDE DEF told, c
<1>3. c \in Call
  BY <1>1, <1>2 DEF Call, RunRecord, FileRecord, SeenRecord
<1>4. c.x = b.x /\ c.f = b.f /\ c.seen.told = told /\ c.seen.ends = b.seen.ends
      /\ c.seen.owed = b.seen.owed
  BY <1>2 DEF Call, SeenRecord
<1> QED BY <1>3, <1>4 DEF told, c

LEMMA SetStepIs ==
  ASSUME NEW b \in Call, NEW step \in Steps
  PROVE  /\ SetStep(b, step) \in Call
         /\ SetStep(b, step).x.queue = b.x.queue /\ SetStep(b, step).x.phase = b.x.phase
         /\ SetStep(b, step).x.inFlight = b.x.inFlight
         /\ SetStep(b, step).x.reply = b.x.reply /\ SetStep(b, step).x.todo = b.x.todo
         /\ SetStep(b, step).x.reading.of = b.x.reading.of
         /\ SetStep(b, step).x.reading.step = step
         /\ SetStep(b, step).f = b.f /\ SetStep(b, step).seen = b.seen
<1> DEFINE c == SetStep(b, step)
           adopted == [b.x.reading EXCEPT !.step = step]
<1>1. /\ b.x.reading \in [of : 0..MaxRuns, step : Steps] /\ b.x \in RunRecord
  BY DEF Call, RunRecord
<1>2. /\ adopted \in [of : 0..MaxRuns, step : Steps]
      /\ adopted.of = b.x.reading.of /\ adopted.step = step
  BY <1>1
<1>3. c = [b EXCEPT !.x.reading = adopted]
  BY <1>1 DEF SetStep, Call, RunRecord
<1> HIDE DEF c, adopted
<1>4. c \in Call
  BY <1>2, <1>3 DEF Call, RunRecord, FileRecord, SeenRecord
<1>5. /\ c.x.queue = b.x.queue /\ c.x.phase = b.x.phase /\ c.x.inFlight = b.x.inFlight
      /\ c.x.reply = b.x.reply /\ c.x.todo = b.x.todo /\ c.x.reading = adopted
      /\ c.f = b.f /\ c.seen = b.seen
  BY <1>3 DEF Call, RunRecord
<1> QED BY <1>2, <1>4, <1>5 DEF c

LEMMA ReadingIs ==
  ASSUME TelemetryInv, NEW r \in Telemetry!Runs, runs[r].reading.of # 0
  PROVE  /\ runs[r].reading.of \in Telemetry!Runs
         /\ runs[r].phase = "adopting" /\ runs[runs[r].reading.of].phase = "gone"
         /\ EndOnDisk(runs[r].reading.of) /\ EndRead(r)
         /\ files[runs[r].reading.of] \in FileRecord
<1>1. runs[r].reading.of \in 0..MaxRuns
  BY DEF TelemetryInv, TelemetryTyped, RunRecord
<1>2. runs[r].reading.of \in Telemetry!Runs
  BY <1>1 DEF Telemetry!Runs
<1>3. ReadsAnother(r) /\ EndRead(r)
  BY DEF TelemetryInv, Readings
<1> QED BY <1>2, <1>3 DEF ReadsAnother, TelemetryInv, EndsOnDisk, TelemetryTyped

\* What a report, if there is one, adds
Tells(r, kind, there, b) ==
  /\ Sound(b, Others(r))
  /\ b.x.phase = "adopting" /\ b.x.reading = runs[r].reading /\ b.x.todo = runs[r].todo
  /\ b.f = files[r] /\ b.seen.ends = seen.ends
  /\ b.seen.told = IF there
       THEN seen.told \cup {[of |-> runs[r].reading.of, as |-> kind]} ELSE seen.told
  /\ Telemetry!ToSet(runs[r].queue) \subseteq Telemetry!ToSet(b.x.queue)
  /\ b.seen.owed \subseteq seen.owed \cup Telemetry!ToSet(b.x.queue)

LEMMA ReportIs ==
  ASSUME TelemetryBounds, TelemetryInv, NEW r \in Telemetry!Runs, NEW there \in BOOLEAN,
         runs[r].phase = "adopting", NEW kind \in {"crash", "unclean_exit"}
  PROVE  Tells(r, kind, there, Telemetry!Report(r, kind, there))
<1> PICK b : b = Telemetry!Report(r, kind, there)
  OBVIOUS
<1> SUFFICES Tells(r, kind, there, b)
  OBVIOUS
<1> DEFINE a == Telemetry!Of(r)
           j == runs[r].reading.of
<1>1. Sound(a, Others(r)) /\ a.x = runs[r] /\ a.f = files[r] /\ a.seen = seen /\ a \in Call
  BY Active
<1>2. j \in Nat /\ runs[r].queue \in Seq(Events)
  BY DEF TelemetryInv, TelemetryTyped, RunRecord, TelemetryBounds
<1>3. CASE ~ there
  <2>1. b = a
    BY <1>3 DEF Telemetry!Report
  <2> QED BY <1>1, <1>3, <2>1 DEF Tells
<1>4. CASE there
  <2>1. PICK e : e = Telemetry!Event(j, kind, 0)
    OBVIOUS
  <2>2. e \in Events
    BY <1>2, <2>1 DEF Telemetry!Event, Events, Kinds
  <2>3. PICK c : c = Telemetry!Queued(a, e)
    OBVIOUS
  <2>4. b = Reported(c, j, kind)
    BY <1>4, <2>1, <2>3 DEF Telemetry!Report, Reported
  <2> HIDE DEF a, j
  <2>5. Sound(c, Others(r)) /\ SameRest(a, c) /\ c.f = a.f
    BY <1>1, <2>2, <2>3, QueuedSound
  <2>6. c.x = [a.x EXCEPT !.queue = Append(a.x.queue, e)]
        /\ c.seen = [a.seen EXCEPT !.owed = a.seen.owed \cup {e}]
    BY <1>1, <2>2, <2>3, QueuedIs
  <2>7. c.x.todo = a.x.todo /\ c.x.queue = Append(a.x.queue, e)
        /\ c.seen.owed = a.seen.owed \cup {e}
    BY <1>1, <2>6 DEF Call, RunRecord, SeenRecord
  <2>8. Telemetry!ToSet(c.x.queue) = Telemetry!ToSet(runs[r].queue) \cup {e}
    BY <1>1, <1>2, <2>2, <2>7, SetOfAppend
  <2>9. c \in Call /\ kind \in Kinds
    BY <2>5 DEF Sound, Kinds
  <2>10. /\ b \in Call /\ b.x = c.x /\ b.f = c.f /\ b.seen.ends = c.seen.ends
         /\ b.seen.told = c.seen.told \cup {[of |-> j, as |-> kind]}
         /\ b.seen.owed = c.seen.owed
    BY <1>2, <2>4, <2>9, ReportedIs
  <2>11. Sound(b, Others(r))
    BY <2>5, <2>10 DEF Sound
  <2>12. /\ c.x.phase = "adopting" /\ c.x.reading = runs[r].reading
         /\ c.seen.told = seen.told /\ c.seen.ends = seen.ends
    BY <1>1, <2>5 DEF SameRest
  <2>13. b.seen.owed \subseteq seen.owed \cup Telemetry!ToSet(b.x.queue)
    BY <1>1, <2>7, <2>8, <2>10
  <2>14. b.seen.told = IF there
              THEN seen.told \cup {[of |-> runs[r].reading.of, as |-> kind]} ELSE seen.told
    BY <1>4, <2>10, <2>12 DEF j
  <2> QED BY <1>1, <2>5, <2>7, <2>8, <2>10, <2>11, <2>12, <2>13, <2>14 DEF Tells
<1> QED BY <1>3, <1>4

\* A run that read on and told, or found nothing to tell
LEMMA ReportStep ==
  ASSUME TelemetryBounds, TelemetryInv, NEW r \in Telemetry!Runs,
         runs[r].phase = "adopting", runs[r].reading.of # 0,
         NEW kind \in {"crash", "unclean_exit"}, NEW there \in BOOLEAN,
         NEW step \in {"json", "remove json"},
         Telemetry!Becomes(r, SetStep(Telemetry!Report(r, kind, there), step)),
         there /\ kind = "crash" => seen.ends[runs[r].reading.of] \in {"crash", "forgotten"},
         there /\ kind = "unclean_exit" =>
           seen.ends[runs[r].reading.of] \in {"killed", "forgotten"},
         step = "json" => ~ files[runs[r].reading.of].crash,
         step = "remove json" /\ seen.ends[runs[r].reading.of] = "killed" =>
           Telemetry!Told(runs[r].reading.of, "unclean_exit") \/
             (there /\ kind = "unclean_exit"),
         step = "remove json" /\ seen.ends[runs[r].reading.of] = "crash" =>
           Telemetry!Told(runs[r].reading.of, "crash") \/ (there /\ kind = "crash")
  PROVE  TelemetryInv'
<1> PICK j : j = runs[r].reading.of
  OBVIOUS
<1>1. PICK b : b = Telemetry!Report(r, kind, there)
  OBVIOUS
<1>2. PICK c : c = SetStep(b, step)
  OBVIOUS
<1>3. /\ Sound(b, Others(r)) /\ b.x.phase = "adopting" /\ b.x.reading = runs[r].reading
      /\ b.x.todo = runs[r].todo /\ b.f = files[r] /\ b.seen.ends = seen.ends
      /\ b.seen.told = IF there
           THEN seen.told \cup {[of |-> runs[r].reading.of, as |-> kind]} ELSE seen.told
      /\ Telemetry!ToSet(runs[r].queue) \subseteq Telemetry!ToSet(b.x.queue)
      /\ b.seen.owed \subseteq seen.owed \cup Telemetry!ToSet(b.x.queue)
  <2>1. Tells(r, kind, there, b)
    BY <1>1, ReportIs
  <2> QED BY <2>1 DEF Tells
<1>4. b \in Call /\ InFlight(b.x) /\ step \in Steps
  BY <1>3 DEF Sound, Steps, RemoveSteps
<1>5. /\ c \in Call /\ c.x.queue = b.x.queue /\ c.x.phase = b.x.phase
      /\ c.x.inFlight = b.x.inFlight /\ c.x.reply = b.x.reply /\ c.x.todo = b.x.todo
      /\ c.x.reading.of = b.x.reading.of /\ c.x.reading.step = step
      /\ c.f = b.f /\ c.seen = b.seen
  BY <1>2, <1>4, SetStepIs
<1>6. /\ runs \in [Telemetry!Runs -> RunRecord] /\ files \in [Telemetry!Runs -> FileRecord]
  BY DEF TelemetryInv, TelemetryTyped
<1>7. runs' = [runs EXCEPT ![r] = c.x] /\ files' = [files EXCEPT ![r] = c.f] /\ seen' = c.seen
  BY <1>1, <1>2 DEF Telemetry!Becomes
<1>8. files' = files
  BY <1>3, <1>5, <1>6, <1>7
<1>9. c.x \in RunRecord /\ seen' \in SeenRecord
  BY <1>5, <1>7, CallFields
<1>10. InFlight(c.x)
  BY <1>4, <1>5 DEF InFlight
<1>11. runs'[r] = c.x /\ \A k \in Telemetry!Runs : k # r => runs'[k] = runs[k]
  BY <1>6, <1>7
<1>12. \A k \in Telemetry!Runs : runs'[k].phase = runs[k].phase
  BY <1>3, <1>5, <1>11
<1>13. /\ seen'.ends = seen.ends /\ seen.told \subseteq seen'.told
       /\ seen'.told = IF there
           THEN seen.told \cup {[of |-> j, as |-> kind]} ELSE seen.told
  BY <1>3, <1>5, <1>7
<1>14. j \in Telemetry!Runs /\ runs[j].phase = "gone" /\ runs[r].reading.of = j
  BY ReadingIs
<1>15. ASSUME NEW k \in Telemetry!Runs, NEW as \in Kinds
       PROVE  Telemetry!Told(k, as)' <=>
                Telemetry!Told(k, as) \/ (there /\ k = j /\ as = kind)
  <2>1. [of |-> k, as |-> as] = [of |-> j, as |-> kind] <=> k = j /\ as = kind
    <3>1. [of |-> k, as |-> as].of = k /\ [of |-> k, as |-> as].as = as
      OBVIOUS
    <3>2. [of |-> j, as |-> kind].of = j /\ [of |-> j, as |-> kind].as = kind
      OBVIOUS
    <3> QED BY <3>1, <3>2
  <2> QED BY <1>13, <2>1 DEF Telemetry!Told
<1>16. ASSUME NEW k \in Telemetry!Runs PROVE EndOnDisk(k)'
  <2>1. EndOnDisk(k)
    BY DEF TelemetryInv, EndsOnDisk
  <2>2. /\ Telemetry!Told(k, "crash")' <=>
             Telemetry!Told(k, "crash") \/ (there /\ k = j /\ kind = "crash")
        /\ Telemetry!Told(k, "unclean_exit")' <=>
             Telemetry!Told(k, "unclean_exit") \/ (there /\ k = j /\ kind = "unclean_exit")
    BY <1>15 DEF Kinds
  <2> QED BY <1>8, <1>12, <1>13, <1>14, <2>1, <2>2 DEF EndOnDisk
<1>17. EndsOnDisk'
  BY <1>16 DEF EndsOnDisk, Telemetry!Runs
<1>18. ReadsAnother(r)'
  <2>1. ReadsAnother(r)
    BY DEF TelemetryInv, Readings
  <2>2. \A i \in runs'[r].todo : i \in Telemetry!Runs
    BY <1>5, <1>9, <1>11 DEF RunRecord
  <2>3. \A i \in runs'[r].todo : runs'[i].phase # "off"
    BY <1>3, <1>5, <1>11, <1>12, <2>1, <2>2 DEF ReadsAnother
  <2>4. /\ runs'[r].reading.of = j /\ j # 0 /\ runs'[r].reading.step # "none"
        /\ runs'[r].phase = "adopting" /\ runs'[j].phase = "gone"
        /\ Telemetry!ToSet(runs[r].queue) \subseteq Telemetry!ToSet(runs'[r].queue)
    BY <1>3, <1>5, <1>11, <1>12, <1>14
  <2>5. Telemetry!ToSet(files'[j].queue) \subseteq Telemetry!ToSet(runs'[r].queue)
    BY <1>8, <1>14, <2>1, <2>4 DEF ReadsAnother
  <2> QED BY <2>3, <2>4, <2>5 DEF ReadsAnother
<1>19. EndRead(r)'
  <2>1. runs'[r].reading.of = j /\ runs'[r].reading.step = step
    BY <1>3, <1>5, <1>11, <1>14
  <2>2. /\ Telemetry!Told(j, "crash")' <=>
             Telemetry!Told(j, "crash") \/ (there /\ kind = "crash")
        /\ Telemetry!Told(j, "unclean_exit")' <=>
             Telemetry!Told(j, "unclean_exit") \/ (there /\ kind = "unclean_exit")
    BY <1>14, <1>15 DEF Kinds
  <2> QED BY <1>8, <1>13, <1>14, <2>1, <2>2 DEF EndRead, RemoveSteps
<1>20. seen'.owed \subseteq seen.owed \cup Telemetry!ToSet(c.x.queue)
  BY <1>3, <1>5, <1>7
<1>21. c.x.phase = "adopting"
       /\ Telemetry!ToSet(runs[r].queue) \subseteq Telemetry!ToSet(c.x.queue)
  BY <1>3, <1>5
<1> QED BY <1>7, <1>8, <1>9, <1>10, <1>13, <1>17, <1>18, <1>19, <1>20, <1>21, ReaderStep

LEMMA ReadCrashKeeps ==
  ASSUME TelemetryBounds, TelemetryInv, NEW r \in Telemetry!Runs, Telemetry!ReadCrash(r)
  PROVE  TelemetryInv'
<1> DEFINE j == runs[r].reading.of
           there == files[j].crash
           step == IF there THEN "remove json" ELSE "json"
<1>1. /\ runs[r].phase = "adopting" /\ runs[r].reading.step = "crash"
      /\ Telemetry!Becomes(r, SetStep(Telemetry!Report(r, "crash", there), step))
  BY DEF Telemetry!ReadCrash, Telemetry!Reads, Telemetry!Adopting, SetStep
<1>2. j # 0
  BY <1>1 DEF TelemetryInv, Readings, ReadsAnother
<1>3. EndOnDisk(j) /\ there \in BOOLEAN
  BY <1>2, ReadingIs DEF FileRecord
<1>4. there => seen.ends[j] = "crash"
  BY <1>3 DEF EndOnDisk
<1> HIDE DEF j, there
<1>5. /\ step \in {"json", "remove json"}
      /\ step = "json" => ~ files[j].crash
      /\ step = "remove json" => there
  BY DEF there
<1> HIDE DEF step
<1> QED BY <1>1, <1>2, <1>3, <1>4, <1>5, ReportStep DEF j

LEMMA ReadMarkerKeeps ==
  ASSUME TelemetryBounds, TelemetryInv, NEW r \in Telemetry!Runs, Telemetry!ReadMarker(r)
  PROVE  TelemetryInv'
<1> DEFINE j == runs[r].reading.of
           there == files[j].json
<1>1. /\ runs[r].phase = "adopting" /\ runs[r].reading.step = "json"
      /\ Telemetry!Becomes(r, SetStep(Telemetry!Report(r, "unclean_exit", there), "remove json"))
  BY DEF Telemetry!ReadMarker, Telemetry!Reads, Telemetry!Adopting, SetStep
<1>2. j # 0
  BY <1>1 DEF TelemetryInv, Readings, ReadsAnother
<1>3. EndOnDisk(j) /\ EndRead(r) /\ there \in BOOLEAN /\ runs[j].phase = "gone"
  BY <1>2, ReadingIs DEF FileRecord
<1>4. ~ files[j].crash
  BY <1>1, <1>2, <1>3 DEF EndRead
<1>5. /\ there => seen.ends[j] = "killed"
      /\ seen.ends[j] = "killed" => Telemetry!Told(j, "unclean_exit") \/ there
      /\ seen.ends[j] = "crash" => Telemetry!Told(j, "crash")
  BY <1>3, <1>4 DEF EndOnDisk
<1> HIDE DEF j, there
<1> QED BY <1>1, <1>2, <1>3, <1>5, ReportStep DEF j

\* RemoveSession() takes one file more away.  What the queue on disk has, the run
\* that reads it has; what the other files tell is told.
WithoutOne(f, step, left) ==
  /\ left \in FileRecord /\ left.lock \in {f.lock, "none"}
  /\ left.json <=> (f.json /\ step # "remove json")
  /\ left.crash <=> (f.crash /\ step # "remove crash")
  /\ left.queue \in {f.queue, <<>>}

LEMMA RemovedIs ==
  ASSUME NEW f \in FileRecord, NEW step \in RemoveSteps
  PROVE  WithoutOne(f, step, Telemetry!Removed(f, step))
<1> DEFINE none == <<>>
<1>1. none \in Seq(Events)
  OBVIOUS
<1> HIDE DEF none
<1>2. CASE step = "remove json"
  <2>1. Telemetry!Removed(f, step) = [f EXCEPT !.json = FALSE]
    BY <1>2 DEF Telemetry!Removed
  <2> QED BY <1>2, <2>1 DEF FileRecord, WithoutOne
<1>3. CASE step = "remove crash"
  <2>1. Telemetry!Removed(f, step) = [f EXCEPT !.crash = FALSE]
    BY <1>3 DEF Telemetry!Removed
  <2> QED BY <1>3, <2>1 DEF FileRecord, WithoutOne
<1>4. CASE step = "remove rest"
  <2>1. Telemetry!Removed(f, step) = [f EXCEPT !.queue = none, !.lock = "none"]
    BY <1>4 DEF Telemetry!Removed, none
  <2>2. /\ Telemetry!Removed(f, step) \in FileRecord
        /\ Telemetry!Removed(f, step).lock = "none"
        /\ Telemetry!Removed(f, step).json = f.json
        /\ Telemetry!Removed(f, step).crash = f.crash
        /\ Telemetry!Removed(f, step).queue = none
    BY <1>1, <2>1 DEF FileRecord
  <2> QED BY <1>4, <2>2 DEF none, WithoutOne
<1> QED BY <1>2, <1>3, <1>4 DEF RemoveSteps

LEMMA RemoveFileKeeps ==
  ASSUME TelemetryBounds, TelemetryInv, NEW r \in Telemetry!Runs, Telemetry!RemoveFile(r)
  PROVE  TelemetryInv'
<1> PICK j : j = runs[r].reading.of
  OBVIOUS
<1> PICK step : step = runs[r].reading.step
  OBVIOUS
<1> PICK x : x = runs'[r]
  OBVIOUS
<1> PICK f : f = Telemetry!Removed(files[j], step)
  OBVIOUS
<1> DEFINE next == Telemetry!Following(step)
           going == IF next = "none" THEN Telemetry!Nobody
                    ELSE [runs[r].reading EXCEPT !.step = next]
<1>1. /\ runs \in [Telemetry!Runs -> RunRecord] /\ files \in [Telemetry!Runs -> FileRecord]
      /\ seen \in SeenRecord
  BY DEF TelemetryInv, TelemetryTyped
<1>21. runs[r].phase = "adopting" /\ step \in RemoveSteps /\ seen' = seen
  BY DEF Telemetry!RemoveFile, Telemetry!Adopting, RemoveSteps
<1>2. /\ runs[r].phase = "adopting" /\ step \in RemoveSteps
      /\ files' = [files EXCEPT ![j] = Telemetry!Removed(files[j], step)]
      /\ runs' = [runs EXCEPT ![r].reading = going]
      /\ seen' = seen
  BY DEF Telemetry!RemoveFile, Telemetry!Adopting, RemoveSteps
<1>3. j # 0 /\ ReadsAnother(r) /\ EndRead(r)
  BY <1>21 DEF TelemetryInv, Readings, ReadsAnother, RemoveSteps
<1>4. /\ j \in Telemetry!Runs /\ runs[j].phase = "gone" /\ EndOnDisk(j)
      /\ files[j] \in FileRecord /\ j # r
  BY <1>21, <1>3, ReadingIs
<1>5. /\ f \in FileRecord /\ f.lock \in {files[j].lock, "none"}
      /\ f.json <=> (files[j].json /\ step # "remove json")
      /\ f.crash <=> (files[j].crash /\ step # "remove crash")
      /\ f.queue \in {files[j].queue, <<>>}
  <2>1. step \in RemoveSteps /\ files[j] \in FileRecord
    BY <1>21, <1>4
  <2>2. WithoutOne(files[j], step, f)
    BY <2>1, RemovedIs
  <2> QED BY <2>2 DEF WithoutOne
<1>6. /\ step = "remove json" => next = "remove crash"
      /\ step = "remove crash" => next = "remove rest"
      /\ step = "remove rest" => next = "none"
  BY DEF Telemetry!Following
<1>7. runs[r].reading \in [of : 0..MaxRuns, step : Steps] /\ runs[r] \in RunRecord
  BY <1>1 DEF RunRecord
<1>8. /\ going \in [of : 0..MaxRuns, step : Steps]
      /\ next = "none" => going.of = 0 /\ going.step = "none"
      /\ next # "none" => going.of = j /\ going.step = next
  <2>1. 0 \in 0..MaxRuns
    BY DEF TelemetryBounds
  <2>2. next \in Steps
    BY <1>21, <1>6 DEF RemoveSteps, Steps
  <2> HIDE DEF next
  <2> QED BY <1>7, <2>1, <2>2 DEF Telemetry!Nobody, Steps
<1> HIDE DEF next, going
<1>9. /\ x = [runs[r] EXCEPT !.reading = going]
      /\ \A k \in Telemetry!Runs : k # r => runs'[k] = runs[k]
      /\ runs' \in [Telemetry!Runs -> RunRecord]
  <2>1. [runs[r] EXCEPT !.reading = going] \in RunRecord
    BY <1>7, <1>8 DEF RunRecord
  <2>2. runs' = [runs EXCEPT ![r] = [runs[r] EXCEPT !.reading = going]]
    BY <1>1, <1>2
  <2> QED BY <1>1, <2>1, <2>2
<1>10. /\ x.phase = "adopting" /\ x.queue = runs[r].queue /\ x.inFlight = runs[r].inFlight
       /\ x.reply = runs[r].reply /\ x.todo = runs[r].todo /\ x.reading = going
  BY <1>21, <1>7, <1>9 DEF RunRecord
<1>11. /\ files'[j] = f /\ \A k \in Telemetry!Runs : k # j => files'[k] = files[k]
       /\ files' \in [Telemetry!Runs -> FileRecord]
  <2>1. files' = [files EXCEPT ![j] = f]
    BY <1>2
  <2> QED BY <1>1, <1>4, <1>5, <2>1
<1>12. \A k \in Telemetry!Runs : runs'[k].phase = runs[k].phase /\ runs'[k].queue = runs[k].queue
  BY <1>21, <1>9, <1>10
<1>13. TelemetryTyped'
  BY <1>1, <1>21, <1>9, <1>11 DEF TelemetryTyped, Telemetry!Runs
<1>14. LivesAndFiles'
  <2> SUFFICES ASSUME NEW k \in Telemetry!Runs PROVE Life(runs'[k], files'[k], seen'.ends[k])
    BY DEF LivesAndFiles, Telemetry!Runs
  <2>1. Life(runs[k], files[k], seen.ends[k])
    BY DEF TelemetryInv, LivesAndFiles
  <2>2. CASE k = j
    BY <1>21, <1>4, <1>5, <1>9, <1>11, <2>1, <2>2 DEF Life
  <2>3. CASE k # j
    BY <1>21, <1>11, <1>12, <2>1, <2>3 DEF Life
  <2> QED BY <2>2, <2>3
<1>15. Batches'
  <2> SUFFICES ASSUME NEW k \in Telemetry!Runs PROVE InFlight(runs'[k])
    BY DEF Batches, Telemetry!Runs
  <2>1. InFlight(runs[k])
    BY DEF TelemetryInv, Batches
  <2> QED BY <1>21, <1>9, <1>10, <2>1 DEF InFlight
<1>16. /\ seen.ends[j] = "killed" => Telemetry!Told(j, "unclean_exit")
       /\ seen.ends[j] = "crash" => Telemetry!Told(j, "crash")
       /\ step \in {"remove crash", "remove rest"} => ~ files[j].json
       /\ step = "remove rest" => ~ files[j].crash
  BY <1>21, <1>3 DEF EndRead
<1>17. EndsOnDisk'
  <2> SUFFICES ASSUME NEW k \in Telemetry!Runs PROVE EndOnDisk(k)'
    BY DEF EndsOnDisk, Telemetry!Runs
  <2>1. EndOnDisk(k)
    BY DEF TelemetryInv, EndsOnDisk
  <2>2. CASE k = j
    BY <1>21, <1>4, <1>5, <1>11, <1>12, <1>16, <2>1, <2>2
    DEF EndOnDisk, Telemetry!Told, RemoveSteps
  <2>3. CASE k # j
    BY <1>21, <1>11, <1>12, <2>1, <2>3 DEF EndOnDisk, Telemetry!Told
  <2> QED BY <2>2, <2>3
<1>18. ASSUME NEW i \in Telemetry!Runs
       PROVE  Telemetry!ToSet(files'[i].queue) \subseteq Telemetry!ToSet(files[i].queue)
  BY <1>5, <1>11, SetOfNone
<1>19. Readings'
  <2> SUFFICES ASSUME NEW k \in Telemetry!Runs PROVE ReadsAnother(k)' /\ EndRead(k)'
    BY DEF Readings, Telemetry!Runs
  <2>1. ReadsAnother(k) /\ EndRead(k)
    BY DEF TelemetryInv, Readings
  <2>2. runs'[k].todo = runs[k].todo /\ \A i \in runs[k].todo : i \in Telemetry!Runs
    BY <1>1, <1>9, <1>10 DEF RunRecord
  <2>3. runs'[k].phase = "adopting" => \A i \in runs'[k].todo : runs'[i].phase # "off"
    BY <1>12, <2>1, <2>2 DEF ReadsAnother
  <2>4. CASE k = r
    <3>1. CASE next = "none"
      <4>1. runs'[k].reading.of = 0 /\ runs'[k].reading.step = "none"
        BY <1>8, <1>10, <2>4, <3>1
      <4> QED BY <2>3, <4>1 DEF ReadsAnother, EndRead
    <3>2. CASE next # "none"
      <4>1. runs'[k].reading.of = j /\ runs'[k].reading.step = next
        BY <1>8, <1>10, <2>4, <3>2
      <4>2. Telemetry!ToSet(files[j].queue) \subseteq Telemetry!ToSet(runs[r].queue)
        BY <1>3 DEF ReadsAnother
      <4>3. ReadsAnother(k)'
        BY <1>21, <1>3, <1>4, <1>12, <1>18, <2>3, <2>4, <3>2, <4>1, <4>2 DEF ReadsAnother
      <4>4. next \in {"remove crash", "remove rest"}
            /\ ~ f.json /\ (next = "remove rest" => ~ f.crash)
        BY <1>21, <1>5, <1>6, <1>16, <3>2 DEF RemoveSteps
      <4>5. EndRead(k)'
        BY <1>21, <1>11, <1>16, <4>1, <4>4 DEF EndRead, Telemetry!Told
      <4> QED BY <4>3, <4>5
    <3> QED BY <3>1, <3>2
  <2>5. CASE k # r
    <3>1. PICK i : i = runs[k].reading.of
      OBVIOUS
    <3>2. runs'[k] = runs[k]
      BY <1>9, <2>5
    <3>3. CASE i = 0
      BY <2>1, <2>3, <3>1, <3>2, <3>3 DEF ReadsAnother, EndRead
    <3>4. CASE i # 0
      <4>1. i \in Telemetry!Runs
        BY <3>1, <3>4, ReadingIs
      <4>2. ReadsAnother(k)'
        BY <1>12, <1>18, <2>1, <2>3, <3>1, <3>2, <4>1 DEF ReadsAnother
      <4>3. (files'[i].json => files[i].json) /\ (files'[i].crash => files[i].crash)
        BY <1>5, <1>11, <4>1
      <4>4. EndRead(k)'
        BY <1>21, <2>1, <3>1, <3>2, <4>3 DEF EndRead, Telemetry!Told
      <4> QED BY <4>2, <4>4
    <3> QED BY <3>3, <3>4
  <2> QED BY <2>4, <2>5
<1>20. Telemetry!EventsAreKept'
  <2>1. ASSUME NEW e \in seen.owed
        PROVE  \E k \in Telemetry!Runs :
                 e \in Telemetry!ToSet(runs'[k].queue) \cup Telemetry!ToSet(files'[k].queue)
    <3>1. PICK k \in Telemetry!Runs :
            e \in Telemetry!ToSet(runs[k].queue) \cup Telemetry!ToSet(files[k].queue)
      BY KeptIs DEF TelemetryInv, AllHeld, SomeoneHas
    <3>2. CASE e \in Telemetry!ToSet(runs[k].queue)
      BY <1>12, <3>2
    <3>3. CASE e \in Telemetry!ToSet(files[k].queue) /\ k = j
      <4>1. e \in Telemetry!ToSet(runs[r].queue)
        BY <1>3, <3>3 DEF ReadsAnother
      <4> QED BY <1>12, <4>1
    <3>4. CASE e \in Telemetry!ToSet(files[k].queue) /\ k # j
      BY <1>11, <3>4
    <3> QED BY <3>1, <3>2, <3>3, <3>4
  <2>2. AllHeld'
    BY <1>21, <2>1 DEF AllHeld, SomeoneHas, Telemetry!Runs
  <2> QED BY <2>2, KeptIsNext
<1> QED BY <1>13, <1>14, <1>15, <1>17, <1>19, <1>20 DEF TelemetryInv

\* Off with telemetry: what no run alive keeps on disk is forgotten, and this run
\* is not heard of again.
LEMMA ForgetKeeps ==
  ASSUME TelemetryBounds, TelemetryInv, NEW r \in Telemetry!Runs, Telemetry!Forget(r)
  PROVE  TelemetryInv'
<1> PICK lost : lost = {r} \cup {j \in Telemetry!Runs : files[j].lock # "held"}
  OBVIOUS
<1> PICK ends : ends = [j \in Telemetry!Runs |->
                          IF j \in lost /\ files[j] # Telemetry!NoFiles
                          THEN "forgotten" ELSE seen.ends[j]]
  OBVIOUS
<1> PICK owed : owed = seen.owed \ (Telemetry!ToSet(runs[r].queue) \cup
                                    UNION {Telemetry!ToSet(files[j].queue) : j \in lost})
  OBVIOUS
<1>1. /\ runs \in [Telemetry!Runs -> RunRecord] /\ files \in [Telemetry!Runs -> FileRecord]
      /\ seen \in SeenRecord /\ seen.ends \in [Telemetry!Runs -> Ends]
      /\ seen.owed \in SUBSET Events
  BY DEF TelemetryInv, TelemetryTyped, SeenRecord
<1>2. runs[r].phase = "live" /\ runs' = [runs EXCEPT ![r] = GoneRun]
  BY DEF Telemetry!Forget, GoneRun
<1>3. files' = [j \in Telemetry!Runs |-> IF j \in lost THEN Telemetry!NoFiles ELSE files[j]]
  BY DEF Telemetry!Forget
<1>4. seen' = [seen EXCEPT !.ends = ends, !.owed = owed]
  BY <1>1 DEF Telemetry!Forget, SeenRecord
<1>5. /\ ends \in [Telemetry!Runs -> Ends]
      /\ \A j \in Telemetry!Runs : j \in lost /\ files[j] # Telemetry!NoFiles =>
           ends[j] = "forgotten"
      /\ \A j \in Telemetry!Runs : ~ (j \in lost /\ files[j] # Telemetry!NoFiles) =>
           ends[j] = seen.ends[j]
  BY <1>1 DEF Ends
<1>6. /\ seen'.ends = ends /\ seen'.owed = owed /\ seen'.told = seen.told
      /\ owed \in SUBSET Events /\ seen' \in SeenRecord
  BY <1>1, <1>4, <1>5 DEF SeenRecord
<1>7. /\ Telemetry!NoFiles \in FileRecord
      /\ Telemetry!NoFiles.lock = "none" /\ Telemetry!NoFiles.json = FALSE
      /\ Telemetry!NoFiles.crash = FALSE /\ Telemetry!NoFiles.queue = <<>>
  BY DEF Telemetry!NoFiles, FileRecord
<1>8. /\ runs'[r] = GoneRun /\ \A j \in Telemetry!Runs : j # r => runs'[j] = runs[j]
      /\ runs' \in [Telemetry!Runs -> RunRecord]
  BY <1>1, <1>2, GoneRunIs
<1>9. /\ \A j \in Telemetry!Runs : j \in lost => files'[j] = Telemetry!NoFiles
      /\ \A j \in Telemetry!Runs : j \notin lost => files'[j] = files[j]
      /\ files' \in [Telemetry!Runs -> FileRecord]
  BY <1>1, <1>3, <1>7
<1>10. TelemetryTyped'
  BY <1>6, <1>8, <1>9 DEF TelemetryTyped, Telemetry!Runs
<1>11. r \in lost /\ files[r].lock = "held" /\ files[r] # Telemetry!NoFiles
       /\ ends[r] = "forgotten"
  <2>1. files[r].lock = "held"
    BY <1>2 DEF TelemetryInv, LivesAndFiles, Life
  <2> QED BY <1>5, <1>7, <2>1
<1>12. ASSUME NEW j \in Telemetry!Runs, j \in lost, j # r
       PROVE  files[j] = Telemetry!NoFiles \/ runs[j].phase = "gone"
  <2>1. files[j].lock # "held" /\ runs[j].phase \in Phases
    BY <1>1, <1>12 DEF RunRecord
  <2>2. Life(runs[j], files[j], seen.ends[j])
    BY DEF TelemetryInv, LivesAndFiles
  <2> QED BY <2>1, <2>2 DEF Life, Phases
<1>13. LivesAndFiles'
  <2> SUFFICES ASSUME NEW j \in Telemetry!Runs PROVE Life(runs'[j], files'[j], seen'.ends[j])
    BY DEF LivesAndFiles, Telemetry!Runs
  <2>1. Life(runs[j], files[j], seen.ends[j])
    BY DEF TelemetryInv, LivesAndFiles
  <2>2. CASE j = r
    BY <1>6, <1>7, <1>8, <1>9, <1>11, <2>2, GoneRunIs DEF Life
  <2>3. CASE j # r /\ j \in lost
    <3>1. CASE files[j] = Telemetry!NoFiles
      BY <1>5, <1>6, <1>8, <1>9, <2>1, <2>3, <3>1
    <3>2. CASE files[j] # Telemetry!NoFiles
      <4>1. runs[j].phase = "gone" /\ ends[j] = "forgotten"
        BY <1>5, <1>12, <2>3, <3>2
      <4> QED BY <1>6, <1>7, <1>8, <1>9, <2>3, <4>1 DEF Life
    <3> QED BY <3>1, <3>2
  <2>4. CASE j # r /\ j \notin lost
    BY <1>5, <1>6, <1>8, <1>9, <2>1, <2>4
  <2> QED BY <2>2, <2>3, <2>4
<1>14. Batches'
  <2> SUFFICES ASSUME NEW j \in Telemetry!Runs PROVE InFlight(runs'[j])
    BY DEF Batches, Telemetry!Runs
  <2> QED BY <1>8, GoneRunIs DEF TelemetryInv, Batches
<1>15. EndsOnDisk'
  <2> SUFFICES ASSUME NEW j \in Telemetry!Runs PROVE EndOnDisk(j)'
    BY DEF EndsOnDisk, Telemetry!Runs
  <2>1. EndOnDisk(j)
    BY DEF TelemetryInv, EndsOnDisk
  <2>2. CASE j \in lost /\ files[j] # Telemetry!NoFiles
    <3>1. /\ ends[j] = "forgotten" /\ files'[j].crash = FALSE /\ files'[j].json = FALSE
      BY <1>5, <1>7, <1>9, <2>2
    <3> QED BY <1>6, <3>1 DEF EndOnDisk
  <2>3. CASE ~ (j \in lost /\ files[j] # Telemetry!NoFiles)
    <3>1. ends[j] = seen.ends[j] /\ files'[j] = files[j] /\ runs'[j] = runs[j]
      BY <1>5, <1>8, <1>9, <1>11, <2>3
    <3> QED BY <1>6, <2>1, <3>1 DEF EndOnDisk, Telemetry!Told
  <2> QED BY <2>2, <2>3
<1>16. Readings'
  <2> SUFFICES ASSUME NEW k \in Telemetry!Runs PROVE ReadsAnother(k)' /\ EndRead(k)'
    BY DEF Readings, Telemetry!Runs
  <2>1. CASE k = r
    <3>1. /\ runs'[k].reading.of = 0 /\ runs'[k].reading.step = "none"
          /\ runs'[k].phase = "gone"
      BY <1>8, <2>1, GoneRunIs
    <3> QED BY <3>1 DEF ReadsAnother, EndRead
  <2>2. CASE k # r
    <3>1. PICK i : i = runs[k].reading.of
      OBVIOUS
    <3>2. runs'[k] = runs[k] /\ ReadsAnother(k) /\ EndRead(k)
      BY <1>8, <2>2 DEF TelemetryInv, Readings
    <3>3. \A h \in runs[k].todo : h \in Telemetry!Runs
      BY <1>1 DEF RunRecord
    <3>4. runs'[k].phase = "adopting" => \A h \in runs'[k].todo : runs'[h].phase # "off"
      BY <1>8, <3>2, <3>3, GoneRunIs DEF ReadsAnother
    <3>5. CASE i = 0
      BY <3>1, <3>2, <3>4, <3>5 DEF ReadsAnother, EndRead
    <3>6. CASE i # 0
      <4>1. i \in Telemetry!Runs /\ runs[i].phase = "gone"
        BY <3>1, <3>6, ReadingIs
      <4>2. i # r /\ runs'[i] = runs[i]
        BY <1>2, <1>8, <4>1
      <4>3. CASE i \in lost
        <5>1. /\ files'[i].queue = <<>> /\ files'[i].json = FALSE /\ files'[i].crash = FALSE
          BY <1>7, <1>9, <4>1, <4>3
        <5>2. ends[i] \in {"forgotten", seen.ends[i]}
          BY <1>5, <4>1
        <5>3. ReadsAnother(k)'
          BY <3>1, <3>2, <3>4, <4>2, <5>1, SetOfNone DEF ReadsAnother
        <5>4. EndRead(k)'
          BY <1>6, <3>1, <3>2, <5>1, <5>2 DEF EndRead, Telemetry!Told
        <5> QED BY <5>3, <5>4
      <4>4. CASE i \notin lost
        <5>1. files'[i] = files[i] /\ ends[i] = seen.ends[i]
          BY <1>5, <1>9, <4>1, <4>4
        <5>2. ReadsAnother(k)'
          BY <3>1, <3>2, <3>4, <4>2, <5>1 DEF ReadsAnother
        <5>3. EndRead(k)'
          BY <1>6, <3>1, <3>2, <5>1 DEF EndRead, Telemetry!Told
        <5> QED BY <5>2, <5>3
      <4> QED BY <4>3, <4>4
    <3> QED BY <3>5, <3>6
  <2> QED BY <2>1, <2>2
<1>17. Telemetry!EventsAreKept'
  <2>1. ASSUME NEW e \in owed
        PROVE  \E k \in Telemetry!Runs :
                 e \in Telemetry!ToSet(runs'[k].queue) \cup Telemetry!ToSet(files'[k].queue)
    <3>1. /\ e \in seen.owed /\ e \notin Telemetry!ToSet(runs[r].queue)
          /\ \A j \in lost : e \notin Telemetry!ToSet(files[j].queue)
      BY <2>1
    <3>2. PICK k \in Telemetry!Runs :
            e \in Telemetry!ToSet(runs[k].queue) \cup Telemetry!ToSet(files[k].queue)
      BY <3>1, KeptIs DEF TelemetryInv, AllHeld, SomeoneHas
    <3>3. CASE e \in Telemetry!ToSet(runs[k].queue)
      BY <1>8, <3>1, <3>3
    <3>4. CASE e \in Telemetry!ToSet(files[k].queue)
      BY <1>9, <3>1, <3>4
    <3> QED BY <3>2, <3>3, <3>4
  <2>2. AllHeld'
    BY <1>6, <2>1 DEF AllHeld, SomeoneHas, Telemetry!Runs
  <2> QED BY <2>2, KeptIsNext
<1> QED BY <1>10, <1>13, <1>14, <1>15, <1>16, <1>17 DEF TelemetryInv

-----------------------------------------------------------------------------
(* All steps *)

\* Whatever the first run left, it tells how that run ended.
LeftSays(left, how) ==
  /\ left \in FileRecord /\ left.lock # "held"
  /\ left.json = (how # "closed") /\ left.crash = (how = "crash")
  /\ Telemetry!ToSet(left.queue) \in SUBSET Events

LEMMA LeftIs ==
  ASSUME TelemetryBounds, NEW how \in {"closed", "killed", "crash"}
  PROVE  LeftSays(Telemetry!Left(how), how)
<1> DEFINE first == <<Telemetry!Event(1, "start", 0)>>
           last == IF how = "closed" THEN <<Telemetry!Event(1, "exit", 0)>> ELSE <<>>
           q == first \o last
           lock == IF how = "closed" THEN "none" ELSE "stale"
           json == how # "closed"
           crash == how = "crash"
<1>1. Telemetry!Event(1, "start", 0) \in Events /\ Telemetry!Event(1, "exit", 0) \in Events
  BY DEF Telemetry!Event, Events, Kinds
<1>2. first \in Seq(Events) /\ last \in Seq(Events)
  BY <1>1
<1>3. lock \in {"none", "stale"} /\ json \in BOOLEAN /\ crash \in BOOLEAN
  OBVIOUS
<1>4. Telemetry!Left(how) = [lock |-> lock, json |-> json, crash |-> crash, queue |-> q]
  BY DEF Telemetry!Left
<1> HIDE DEF first, last
<1>5. q \in Seq(Events)
  BY <1>2, ConcatIs
<1>6. Telemetry!ToSet(q) \in SUBSET Events
  <2> SUFFICES ASSUME NEW e \in Telemetry!ToSet(q) PROVE e \in Events
    OBVIOUS
  <2> HIDE DEF q
  <2>1. PICK i \in 1..Len(q) : q[i] = e
    BY <1>5, SetIs
  <2> QED BY <1>5, <2>1
<1> DEFINE f == Telemetry!Left(how)
<1> HIDE DEF q, lock, json, crash
<1>7. f = [lock |-> lock, json |-> json, crash |-> crash, queue |-> q]
  BY <1>4
<1> HIDE DEF f
<1>8. /\ f.lock = lock /\ f.json = json /\ f.crash = crash /\ f.queue = q
      /\ f \in FileRecord
  BY <1>3, <1>5, <1>7 DEF FileRecord
<1>9. LeftSays(f, how)
  BY <1>3, <1>6, <1>8 DEF LeftSays, lock, json, crash
<1> QED BY <1>9 DEF f

LEMMA TelemetryBegins == ASSUME TelemetryBounds PROVE Telemetry!Init => TelemetryInv
<1> SUFFICES ASSUME Telemetry!Init PROVE TelemetryInv
  OBVIOUS
<1>1. PICK how \in {"closed", "killed", "crash"} :
        /\ runs = [r \in Telemetry!Runs |-> IF r = 1 THEN GoneRun ELSE Telemetry!NewRun]
        /\ files = [r \in Telemetry!Runs |->
                      IF r = 1 THEN Telemetry!Left(how) ELSE Telemetry!NoFiles]
        /\ seen = [owed |-> Telemetry!ToSet(Telemetry!Left(how).queue), told |-> {},
                   extras |-> 0,
                   ends |-> [r \in Telemetry!Runs |-> IF r = 1 THEN how ELSE "none"]]
  BY DEF Telemetry!Init, GoneRun
<1>2. PICK left : left = Telemetry!Left(how)
  OBVIOUS
<1>3. /\ left \in FileRecord /\ left.lock # "held" /\ left.json = (how # "closed")
      /\ left.crash = (how = "crash") /\ Telemetry!ToSet(left.queue) \in SUBSET Events
  <2>1. LeftSays(left, how)
    BY <1>2, LeftIs
  <2> QED BY <2>1 DEF LeftSays
<1>4. /\ Telemetry!NoFiles \in FileRecord
      /\ Telemetry!NoFiles.lock = "none" /\ Telemetry!NoFiles.json = FALSE
      /\ Telemetry!NoFiles.crash = FALSE /\ Telemetry!NoFiles.queue = <<>>
  BY DEF Telemetry!NoFiles, FileRecord
<1>5. 1 \in Telemetry!Runs
  BY DEF Telemetry!Runs, TelemetryBounds
<1>6. /\ runs[1] = GoneRun /\ \A r \in Telemetry!Runs : r # 1 => runs[r] = Telemetry!NewRun
      /\ runs \in [Telemetry!Runs -> RunRecord]
  BY <1>1, <1>5, NewRunIs, GoneRunIs
<1>7. /\ files[1] = left /\ \A r \in Telemetry!Runs : r # 1 => files[r] = Telemetry!NoFiles
      /\ files \in [Telemetry!Runs -> FileRecord]
  <2>1. files = [r \in Telemetry!Runs |-> IF r = 1 THEN left ELSE Telemetry!NoFiles]
    BY <1>1, <1>2
  <2>2. left \in FileRecord
    BY <1>3
  <2> HIDE <1>3
  <2> QED BY <1>4, <1>5, <2>1, <2>2
<1>8. /\ seen.owed = Telemetry!ToSet(left.queue) /\ seen.told = {}
      /\ seen.ends[1] = how /\ \A r \in Telemetry!Runs : r # 1 => seen.ends[r] = "none"
      /\ seen \in SeenRecord
  <2> DEFINE ends == [r \in Telemetry!Runs |-> IF r = 1 THEN how ELSE "none"]
             owed == Telemetry!ToSet(left.queue)
  <2>1. /\ ends \in [Telemetry!Runs -> Ends] /\ ends[1] = how
        /\ \A r \in Telemetry!Runs : r # 1 => ends[r] = "none"
    BY <1>5 DEF Ends
  <2>2. seen = [owed |-> owed, told |-> {}, extras |-> 0, ends |-> ends]
    BY <1>1, <1>2
  <2>3. owed \in SUBSET Events
    BY <1>3
  <2> HIDE DEF ends, owed
  <2>4. seen.owed = owed /\ seen.told = {} /\ seen.ends = ends /\ seen \in SeenRecord
    BY <2>1, <2>2, <2>3 DEF SeenRecord
  <2> QED BY <2>1, <2>4 DEF owed
<1>9. TelemetryTyped
  BY <1>6, <1>7, <1>8 DEF TelemetryTyped
<1>10. Telemetry!NewRun.phase = "off"
  BY DEF Telemetry!NewRun
<1>11. LivesAndFiles
  <2> SUFFICES ASSUME NEW r \in Telemetry!Runs PROVE Life(runs[r], files[r], seen.ends[r])
    BY DEF LivesAndFiles
  <2>1. CASE r = 1
    BY <1>3, <1>6, <1>7, <1>8, <2>1, GoneRunIs DEF Life
  <2>2. CASE r # 1
    BY <1>4, <1>6, <1>7, <1>8, <1>10, <2>2, NewRunIs DEF Life
  <2> QED BY <2>1, <2>2
<1>12. Batches
  <2>1. InFlight(Telemetry!NewRun)
    <3>1. /\ \A k \in 1..Telemetry!NewRun.inFlight : FALSE
          /\ Telemetry!NewRun.inFlight <= Len(Telemetry!NewRun.queue)
      BY NewRunIs
    <3> QED BY <3>1, NewRunIs DEF InFlight
  <2> QED BY <1>6, <2>1, GoneRunIs DEF Batches
<1>13. Readings
  <2> SUFFICES ASSUME NEW r \in Telemetry!Runs PROVE ReadsAnother(r) /\ EndRead(r)
    BY DEF Readings
  <2>1. /\ runs[r].reading.of = 0 /\ runs[r].reading.step = "none"
        /\ runs[r].phase \in {"gone", "off"}
    BY <1>6, <1>10, NewRunIs, GoneRunIs
  <2> QED BY <2>1 DEF ReadsAnother, EndRead
<1>14. EndsOnDisk
  <2> SUFFICES ASSUME NEW r \in Telemetry!Runs PROVE EndOnDisk(r)
    BY DEF EndsOnDisk
  <2>1. ~ Telemetry!Told(r, "crash") /\ ~ Telemetry!Told(r, "unclean_exit")
    BY <1>8 DEF Telemetry!Told
  <2>2. CASE r = 1
    BY <1>3, <1>7, <1>8, <2>1, <2>2 DEF EndOnDisk
  <2>3. CASE r # 1
    BY <1>4, <1>7, <1>8, <2>1, <2>3 DEF EndOnDisk
  <2> QED BY <2>2, <2>3
<1>15. Telemetry!EventsAreKept
  BY <1>5, <1>7, <1>8, KeptIs DEF AllHeld, SomeoneHas
<1> QED BY <1>9, <1>11, <1>12, <1>13, <1>14, <1>15 DEF TelemetryInv

LEMMA TelemetryIdles ==
  ASSUME TelemetryInv, UNCHANGED Telemetry!vars PROVE TelemetryInv'
<1>1. runs' = runs /\ files' = files /\ seen' = seen
  BY DEF Telemetry!vars
<1>2. TelemetryTyped' /\ LivesAndFiles' /\ Batches'
  BY <1>1 DEF TelemetryInv, TelemetryTyped, LivesAndFiles, Batches, Telemetry!Runs
<1>3. EndsOnDisk'
  <2> SUFFICES ASSUME NEW j \in Telemetry!Runs PROVE EndOnDisk(j)'
    BY DEF EndsOnDisk, Telemetry!Runs
  <2>1. EndOnDisk(j)
    BY DEF TelemetryInv, EndsOnDisk
  <2> QED BY <1>1, <2>1 DEF EndOnDisk, Telemetry!Told
<1>5. Readings'
  <2> SUFFICES ASSUME NEW r \in Telemetry!Runs PROVE ReadsAnother(r)' /\ EndRead(r)'
    BY DEF Readings, Telemetry!Runs
  <2>1. ReadsAnother(r) /\ EndRead(r)
    BY DEF TelemetryInv, Readings
  <2>2. ReadsAnother(r)'
    BY <1>1, <2>1 DEF ReadsAnother
  <2>3. EndRead(r)'
    BY <1>1, <2>1 DEF EndRead, Telemetry!Told
  <2> QED BY <2>2, <2>3
<1>4. Telemetry!EventsAreKept'
  BY <1>1 DEF TelemetryInv, Telemetry!EventsAreKept, Telemetry!Queues, Telemetry!Runs
<1> QED BY <1>2, <1>3, <1>4, <1>5 DEF TelemetryInv

LEMMA TelemetryStays ==
  ASSUME TelemetryBounds
  PROVE  TelemetryInv /\ [Telemetry!Next]_(Telemetry!vars) => TelemetryInv'
<1> SUFFICES ASSUME TelemetryInv, [Telemetry!Next]_(Telemetry!vars) PROVE TelemetryInv'
  OBVIOUS
<1>1. CASE UNCHANGED Telemetry!vars
  BY <1>1, TelemetryIdles
<1>2. CASE Telemetry!Next
  <2>1. PICK r \in Telemetry!Runs :
          \/ Telemetry!Begin(r) \/ Telemetry!Adopts(r)
          \/ Telemetry!RecordEvent(r) \/ Telemetry!SendTimer(r) \/ Telemetry!DelayEnds(r)
          \/ Telemetry!Serves(r) \/ Telemetry!Finish(r) \/ Telemetry!Quit(r)
          \/ Telemetry!End(r, "crash") \/ Telemetry!End(r, "killed")
          \/ Telemetry!KilledInBegin(r) \/ Telemetry!Forget(r)
    BY <1>2 DEF Telemetry!Next
  <2>2. CASE Telemetry!Begin(r) BY <2>2, BeginKeeps
  <2>3. CASE Telemetry!Adopts(r)
    <3>1. CASE \E j \in Telemetry!Runs : Telemetry!LookAt(r, j) BY <3>1, LookAtKeeps
    <3>2. CASE Telemetry!ReadCrash(r) BY <3>2, ReadCrashKeeps
    <3>3. CASE Telemetry!ReadMarker(r) BY <3>3, ReadMarkerKeeps
    <3>4. CASE Telemetry!RemoveFile(r) BY <3>4, RemoveFileKeeps
    <3>5. CASE Telemetry!Start(r) BY <3>5, StartKeeps
    <3> QED BY <2>3, <3>1, <3>2, <3>3, <3>4, <3>5 DEF Telemetry!Adopts
  <2>4. CASE Telemetry!RecordEvent(r) BY <2>4, RecordEventKeeps
  <2>5. CASE Telemetry!SendTimer(r) BY <2>5, SendTimerKeeps
  <2>6. CASE Telemetry!DelayEnds(r) BY <2>6, DelayEndsKeeps
  <2>7. CASE Telemetry!Serves(r)
    BY <2>7, TakenKeeps, RefusedKeeps, DelayedKeeps DEF Telemetry!Serves
  <2>8. CASE Telemetry!Finish(r) BY <2>8, FinishKeeps
  <2>9. CASE Telemetry!Quit(r) BY <2>9, QuitKeeps
  <2>10. CASE Telemetry!End(r, "crash") BY <2>10, EndKeeps
  <2>11. CASE Telemetry!End(r, "killed") BY <2>11, EndKeeps
  <2>12. CASE Telemetry!KilledInBegin(r) BY <2>12, KilledInBeginKeeps
  <2>13. CASE Telemetry!Forget(r) BY <2>13, ForgetKeeps
  <2> QED BY <2>1, <2>2, <2>3, <2>4, <2>5, <2>6, <2>7, <2>8, <2>9, <2>10, <2>11, <2>12, <2>13
<1> QED BY <1>1, <1>2

LEMMA TelemetryMove == [Next]_vars => [Telemetry!Next]_(Telemetry!vars)
BY DEF Telemetry!vars, Next, SpotifyStep, TelemetryStep, CoefficientsStep,
       SnapshotsStep, BlocksStep, vars, telemetryVars

\* What was read or forgotten is not on disk any more: what it told is told.
LEMMA ToldRight == ASSUME TelemetryInv PROVE Telemetry!EndsAreToldRight
<1> SUFFICES ASSUME NEW j \in Telemetry!Runs
             PROVE  /\ Telemetry!Told(j, "crash") => seen.ends[j] \in {"crash", "forgotten"}
                    /\ Telemetry!Told(j, "unclean_exit") =>
                         seen.ends[j] \in {"killed", "forgotten"}
                    /\ seen.ends[j] = "killed" /\ ~ Telemetry!Unread(j) =>
                         Telemetry!Told(j, "unclean_exit")
                    /\ seen.ends[j] = "crash" /\ ~ Telemetry!Unread(j) =>
                         Telemetry!Told(j, "crash")
  BY DEF Telemetry!EndsAreToldRight
<1>1. EndOnDisk(j)
  BY DEF TelemetryInv, EndsOnDisk
<1>2. ~ Telemetry!Unread(j) => files[j].json = FALSE /\ files[j].crash = FALSE
  BY DEF Telemetry!Unread, Telemetry!NoFiles
<1> QED BY <1>1, <1>2 DEF EndOnDisk

LEMMA BoundsHold == TelemetryBounds
BY PartsAssumption DEF TelemetryBounds

\* However many runs start, crash, are killed or forgotten side by side, and
\* whatever the server answers, an event leaves the queues only when the server
\* took or refused it, a full queue dropped it or the user forgot it
\* (src/telemetry/reporter.cpp).
THEOREM EventsAlwaysKept == Spec => []EventsAreKept
<1>1. Init => TelemetryInv
  BY BoundsHold, TelemetryBegins DEF Init
<1>2. TelemetryInv => EventsAreKept
  BY DEF TelemetryInv, EventsAreKept
<1>3. TelemetryInv /\ [Telemetry!Next]_(Telemetry!vars) => TelemetryInv'
  BY BoundsHold, TelemetryStays
<1> QED BY <1>1, <1>2, <1>3, TelemetryMove, PTL DEF Spec

\* However many runs read the same files at once, and wherever one is killed while
\* it does, a run is never told to have ended as it did not, and once its files are
\* gone its end was told (Reporter::reportEarlierRuns() in src/telemetry/reporter.cpp).
THEOREM EndsAlwaysToldRight == Spec => []EndsAreToldRight
<1>1. Init => TelemetryInv
  BY BoundsHold, TelemetryBegins DEF Init
<1>2. TelemetryInv => EndsAreToldRight
  BY ToldRight DEF EndsAreToldRight
<1>3. TelemetryInv /\ [Telemetry!Next]_(Telemetry!vars) => TelemetryInv'
  BY BoundsHold, TelemetryStays
<1> QED BY <1>1, <1>2, <1>3, TelemetryMove, PTL DEF Spec

-----------------------------------------------------------------------------
(* The Spotify session: requests for keys and their numbers *)

Failures == {"unasked", "waiting", "Network", "Refused", "Failed"}
KeyRecord ==
  [id : Requests, attempts : Nat, sequence : Nat,
   timer : {"none", "queued", "answer", "retry"}]
SessionRecord ==
  [active : BOOLEAN, resolving : BOOLEAN, points : Nat, next : Nat, conn : Spotify!Stages,
   keepAlive : {"off", "ping", "pong", "ack"}, reconnect : BOOLEAN, keys : Seq(KeyRecord),
   nextSequence : Nat \ {0}]
DueRecord == [sequence : Nat, id : Requests]
LogRecord ==
  [answers : [Requests -> Requests \cup Failures], due : SUBSET DueRecord,
   abandoned : BOOLEAN, logins : Nat, faults : Nat]
KeyCall == [s : SessionRecord, log : LogRecord]

\* Within one connection a number belongs to one request.
Numbered(keys, next, due) ==
  /\ \A i \in DOMAIN keys : keys[i].sequence < next
  /\ \A d \in due : d.sequence # 0 /\ d.sequence < next
  /\ \A i \in DOMAIN keys : \A d \in due :
       keys[i].sequence = d.sequence => keys[i].id = d.id

\* Without a connection nothing has a number.
NoneSent(keys, due) == due = {} /\ \A i \in DOMAIN keys : keys[i].sequence = 0

OwnKeys(answers) == \A r \in Requests : answers[r] \notin Requests \ {r}

KeysSound(b) ==
  /\ b \in KeyCall
  /\ Numbered(b.s.keys, b.s.nextSequence, b.log.due)
  /\ b.s.conn # "ready" => NoneSent(b.s.keys, b.log.due)
  /\ OwnKeys(b.log.answers)

SpotifyInv == KeysSound(Spotify!Both)

LEMMA KeyFields ==
  ASSUME NEW b \in KeyCall
  PROVE  /\ b.s \in SessionRecord /\ b.log \in LogRecord
         /\ b.s.keys \in Seq(KeyRecord) /\ b.s.nextSequence \in Nat \ {0}
         /\ b.s.conn \in Spotify!Stages
         /\ b.log.due \in SUBSET DueRecord /\ DOMAIN b.s.keys = 1..Len(b.s.keys)
         /\ Len(b.s.keys) \in Nat
         /\ b.log.answers \in [Requests -> Requests \cup Failures]
<1>1. /\ b.s \in SessionRecord /\ b.log \in LogRecord
      /\ b.s.keys \in Seq(KeyRecord) /\ b.s.nextSequence \in Nat \ {0}
      /\ b.s.conn \in Spotify!Stages
      /\ b.log.due \in SUBSET DueRecord
      /\ b.log.answers \in [Requests -> Requests \cup Failures]
  BY DEF KeyCall, SessionRecord, LogRecord
<1> QED BY <1>1

\* Rows that are gone, wait again or are new do not take another's number.
Lighter(keys, left) ==
  \A j \in DOMAIN left : left[j].sequence = 0 \/
    \E i \in DOMAIN keys : left[j].id = keys[i].id /\ left[j].sequence = keys[i].sequence

LEMMA LighterNumbered ==
  ASSUME NEW keys \in Seq(KeyRecord), NEW left \in Seq(KeyRecord), Lighter(keys, left),
         NEW next \in Nat \ {0}, NEW due, NEW fewer, fewer \subseteq due
  PROVE  /\ Numbered(keys, next, due) => Numbered(left, next, fewer)
         /\ NoneSent(keys, due) => NoneSent(left, fewer)
<1>1. ASSUME Numbered(keys, next, due) PROVE Numbered(left, next, fewer)
  <2>1. ASSUME NEW j \in DOMAIN left PROVE left[j].sequence < next
    BY <1>1, <2>1 DEF Numbered, Lighter
  <2>2. ASSUME NEW j \in DOMAIN left, NEW d \in fewer, left[j].sequence = d.sequence
        PROVE  left[j].id = d.id
    BY <1>1, <2>2 DEF Numbered, Lighter
  <2> QED BY <1>1, <2>1, <2>2 DEF Numbered
<1>2. ASSUME NoneSent(keys, due) PROVE NoneSent(left, fewer)
  BY <1>2 DEF NoneSent, Lighter
<1> QED BY <1>1, <1>2

\* A call that changes nothing of the keys
Quiet(b, c) ==
  /\ c \in KeyCall /\ c.s.keys = b.s.keys /\ c.s.nextSequence = b.s.nextSequence
  /\ c.s.conn = b.s.conn /\ c.log.due = b.log.due /\ c.log.answers = b.log.answers

LEMMA QuietSound ==
  ASSUME NEW b, NEW c, KeysSound(b), Quiet(b, c) PROVE KeysSound(c)
BY DEF KeysSound, Quiet

-----------------------------------------------------------------------------
(* The calls *)

WithKeys(b, keys) == [b EXCEPT !.s.keys = keys]

LEMMA WithKeysSound ==
  ASSUME NEW b, KeysSound(b), NEW keys \in Seq(KeyRecord), Lighter(b.s.keys, keys)
  PROVE  KeysSound(WithKeys(b, keys)) /\ WithKeys(b, keys).s.keys = keys
         /\ WithKeys(b, keys).s.conn = b.s.conn
<1> DEFINE c == WithKeys(b, keys)
<1>1. b \in KeyCall
  BY DEF KeysSound
<1>2. c \in KeyCall
  BY <1>1 DEF WithKeys, KeyCall, SessionRecord
<1>3. /\ c.s.keys = keys /\ c.s.nextSequence = b.s.nextSequence /\ c.s.conn = b.s.conn
      /\ c.log = b.log
  BY <1>1 DEF WithKeys, KeyCall, SessionRecord
<1> HIDE DEF c
<1>4. /\ b.s.keys \in Seq(KeyRecord) /\ b.s.nextSequence \in Nat \ {0}
  BY <1>1, KeyFields
<1>5. /\ Numbered(keys, b.s.nextSequence, b.log.due)
      /\ NoneSent(b.s.keys, b.log.due) => NoneSent(keys, b.log.due)
  <2>1. PICK old, next, due :
          old = b.s.keys /\ next = b.s.nextSequence /\ due = b.log.due
    OBVIOUS
  <2>2. /\ old \in Seq(KeyRecord) /\ next \in Nat \ {0} /\ Lighter(old, keys)
        /\ due \subseteq due /\ Numbered(old, next, due)
    BY <1>4, <2>1 DEF KeysSound
  <2>3. Numbered(keys, next, due) /\ (NoneSent(old, due) => NoneSent(keys, due))
    BY <2>2, LighterNumbered
  <2> QED BY <2>1, <2>3
<1>6. KeysSound(c)
  BY <1>2, <1>3, <1>5 DEF KeysSound
<1> QED BY <1>3, <1>6 DEF c

\* done(): a failure, or a request's own key
LEMMA ToldSound ==
  ASSUME NEW b, KeysSound(b), NEW requests, NEW answer \in Requests \cup Failures,
         answer \in Failures \/ requests = {answer}
  PROVE  /\ KeysSound(Spotify!Told(b, requests, answer))
         /\ Spotify!Told(b, requests, answer).s = b.s
<1> DEFINE c == Spotify!Told(b, requests, answer)
           answers == [r \in Requests |-> IF r \in requests THEN answer ELSE b.log.answers[r]]
<1>1. b \in KeyCall /\ b.log.answers \in [Requests -> Requests \cup Failures]
  BY KeyFields DEF KeysSound
<1>2. answers \in [Requests -> Requests \cup Failures]
      /\ \A r \in Requests : answers[r] = IF r \in requests THEN answer ELSE b.log.answers[r]
  BY <1>1
<1>3. c = [b EXCEPT !.log.answers = answers]
  BY <1>1 DEF Spotify!Told, KeyCall, LogRecord
<1> HIDE DEF answers, c
<1>4. c \in KeyCall /\ c.s = b.s /\ c.log.due = b.log.due /\ c.log.answers = answers
  BY <1>1, <1>2, <1>3 DEF KeyCall, LogRecord
<1>5. OwnKeys(answers)
  <2> SUFFICES ASSUME NEW r \in Requests PROVE answers[r] \notin Requests \ {r}
    BY DEF OwnKeys
  <2>1. CASE r \in requests
    <3>1. answer \in Failures => answer \notin Requests
      BY PartsAssumption DEF Failures
    <3> QED BY <1>2, <2>1, <3>1
  <2>2. CASE r \notin requests
    BY <1>2, <2>2 DEF KeysSound, OwnKeys
  <2> QED BY <2>1, <2>2
<1>6. KeysSound(c)
  BY <1>4, <1>5 DEF KeysSound
<1> QED BY <1>4, <1>6 DEF c

LEMMA RemoveAtIs ==
  ASSUME NEW s \in Seq(KeyRecord), NEW i \in 1..Len(s)
  PROVE  /\ Spotify!RemoveAt(s, i) \in Seq(KeyRecord)
         /\ Lighter(s, Spotify!RemoveAt(s, i))
<1> DEFINE n == Len(s)
           m == i - 1
           l == i + 1
           left == SubSeq(s, 1, m)
           right == SubSeq(s, l, n)
           t == left \o right
<1>1. n \in Nat /\ i \in Nat /\ i >= 1 /\ i <= n /\ m \in 0..n /\ l \in 1..(n + 1)
      /\ \A k \in 1..n : s[k] \in KeyRecord
  OBVIOUS
<1>2. Spotify!RemoveAt(s, i) = t
  BY DEF Spotify!RemoveAt
<1> HIDE DEF n, m, l
<1>3. /\ left \in Seq(KeyRecord) /\ Len(left) = IF 1 <= m THEN m - 1 + 1 ELSE 0
      /\ \A k \in 1..(m - 1 + 1) : left[k] = s[1 + k - 1]
  <2>1. 1 \in Int /\ m \in Int /\ \A k \in 1..m : s[k] \in KeyRecord
    BY <1>1
  <2> QED BY <2>1, SubSeqProperties
<1>4. /\ right \in Seq(KeyRecord) /\ Len(right) = IF l <= n THEN n - l + 1 ELSE 0
      /\ \A k \in 1..(n - l + 1) : right[k] = s[l + k - 1]
  <2>1. l \in Int /\ n \in Int /\ \A k \in l..n : s[k] \in KeyRecord
    BY <1>1
  <2> QED BY <2>1, SubSeqProperties
<1> HIDE DEF left, right
<1>5. /\ t \in Seq(KeyRecord) /\ Len(t) = Len(left) + Len(right)
      /\ Len(left) \in Nat /\ Len(right) \in Nat
      /\ \A k \in 1..Len(left) : t[k] = left[k]
      /\ \A k \in 1..Len(right) : t[Len(left) + k] = right[k]
  <2>1. left \in Seq(KeyRecord) /\ right \in Seq(KeyRecord)
    BY <1>3, <1>4
  <2> HIDE <1>3, <1>4
  <2>2. /\ t \in Seq(KeyRecord) /\ Len(t) = Len(left) + Len(right)
        /\ \A k \in 1..Len(left) : t[k] = left[k]
        /\ \A k \in 1..Len(right) : t[Len(left) + k] = right[k]
    BY <2>1, ConcatProperties
  <2>3. Len(left) \in Nat /\ Len(right) \in Nat
    BY <2>1
  <2> QED BY <2>2, <2>3
<1> HIDE DEF t
<1>6. ASSUME NEW j \in 1..Len(t) PROVE \E k \in 1..n : t[j] = s[k]
  <2>1. CASE j <= Len(left)
    <3>1. j \in 1..Len(left) /\ j \in 1..(m - 1 + 1) /\ 1 + j - 1 \in 1..n
      BY <1>1, <1>3, <1>5, <2>1
    <3> QED BY <1>3, <1>5, <3>1
  <2>2. CASE j > Len(left)
    <3>1. PICK k : k = j - Len(left)
      OBVIOUS
    <3>2. k \in 1..Len(right) /\ j = Len(left) + k
      BY <1>5, <2>2, <3>1
    <3>3. k \in 1..(n - l + 1) /\ l + k - 1 \in 1..n
      BY <1>1, <1>4, <3>2
    <3>4. t[Len(left) + k] = s[l + k - 1]
      BY <1>4, <1>5, <3>2, <3>3
    <3> QED BY <3>2, <3>3, <3>4
  <2> QED BY <1>5, <2>1, <2>2
<1>7. DOMAIN t = 1..Len(t) /\ DOMAIN s = 1..n
  BY <1>5 DEF n
<1>8. Lighter(s, t)
  BY <1>6, <1>7 DEF Lighter
<1> QED BY <1>2, <1>5, <1>8

\* finishKey(): the row goes, and what it asked is told.
LEMMA FinishKeySound ==
  ASSUME NEW b, KeysSound(b), NEW i \in DOMAIN b.s.keys,
         NEW answer \in Requests \cup Failures,
         answer \in Failures \/ answer = b.s.keys[i].id
  PROVE  KeysSound(Spotify!FinishKey(b, i, answer))
<1>1. PICK keys : keys = Spotify!RemoveAt(b.s.keys, i)
  OBVIOUS
<1>2. PICK c : c = WithKeys(b, keys)
  OBVIOUS
<1>3. b \in KeyCall /\ b.s.keys \in Seq(KeyRecord) /\ i \in 1..Len(b.s.keys)
  BY KeyFields DEF KeysSound
<1>4. keys \in Seq(KeyRecord) /\ Lighter(b.s.keys, keys)
  BY <1>1, <1>3, RemoveAtIs
<1>5. KeysSound(c)
  BY <1>2, <1>4, WithKeysSound
<1>6. Spotify!FinishKey(b, i, answer) = Spotify!Told(c, {b.s.keys[i].id}, answer)
  BY <1>1, <1>2, <1>3 DEF Spotify!FinishKey, WithKeys, KeyCall, SessionRecord
<1>7. answer \in Failures \/ {b.s.keys[i].id} = {answer}
  OBVIOUS
<1> QED BY <1>5, <1>6, <1>7, ToldSound

LEMMA FailAllKeysSound ==
  ASSUME NEW b, KeysSound(b), NEW failure \in Failures
  PROVE  /\ KeysSound(Spotify!FailAllKeys(b, failure))
         /\ Spotify!FailAllKeys(b, failure).s.conn = b.s.conn
<1> DEFINE none == <<>>
           ids == {b.s.keys[i].id : i \in DOMAIN b.s.keys}
<1>1. none \in Seq(KeyRecord) /\ Lighter(b.s.keys, none)
  BY DEF Lighter
<1>2. Spotify!FailAllKeys(b, failure) = Spotify!Told(WithKeys(b, none), ids, failure)
  BY DEF Spotify!FailAllKeys, WithKeys
<1> HIDE DEF none, ids
<1>3. KeysSound(WithKeys(b, none)) /\ WithKeys(b, none).s.conn = b.s.conn
  BY <1>1, WithKeysSound
<1>4. PICK c : c = WithKeys(b, none)
  OBVIOUS
<1>5. KeysSound(Spotify!Told(c, ids, failure)) /\ Spotify!Told(c, ids, failure).s = c.s
  BY <1>3, <1>4, ToldSound
<1> QED BY <1>2, <1>3, <1>4, <1>5

LEMMA RowIs ==
  ASSUME NEW keys \in Seq(KeyRecord), NEW i \in DOMAIN keys
  PROVE  /\ keys[i] \in KeyRecord
         /\ keys[i].sequence \in Nat /\ keys[i].attempts \in Nat /\ keys[i].id \in Requests
<1>1. keys[i] \in KeyRecord
  OBVIOUS
<1> QED BY <1>1 DEF KeyRecord

LEMMA SendingIs ==
  ASSUME NEW key \in KeyRecord, NEW n \in Nat
  PROVE  /\ Spotify!Sending(key, n) \in KeyRecord
         /\ Spotify!Sending(key, n).sequence = n
         /\ Spotify!Sending(key, n).id = key.id
<1>1. PICK more : more = key.attempts + 1
  OBVIOUS
<1>2. more \in Nat
  BY <1>1 DEF KeyRecord
<1>3. Spotify!Sending(key, n) =
        [key EXCEPT !.sequence = n, !.attempts = more, !.timer = "answer"]
  BY <1>1 DEF Spotify!Sending, KeyRecord
<1> QED BY <1>2, <1>3 DEF KeyRecord

\* A row with another timer, and one that waits again
LEMMA TimedRow ==
  ASSUME NEW key \in KeyRecord, NEW timer \in {"none", "queued", "answer", "retry"}
  PROVE  /\ [key EXCEPT !.timer = timer] \in KeyRecord
         /\ [key EXCEPT !.timer = timer].sequence = key.sequence
         /\ [key EXCEPT !.timer = timer].id = key.id
         /\ [key EXCEPT !.sequence = 0, !.timer = timer] \in KeyRecord
         /\ [key EXCEPT !.sequence = 0, !.timer = timer].sequence = 0
         /\ [key EXCEPT !.sequence = 0, !.timer = timer].id = key.id
BY DEF KeyRecord

LEMMA RowsAre ==
  ASSUME NEW n \in Nat, NEW rows \in [1..n -> KeyRecord]
  PROVE  rows \in Seq(KeyRecord) /\ DOMAIN rows = 1..n
OBVIOUS

\* dropConnection(): the rows stay and wait again.
LEMMA DropConnectionSound ==
  ASSUME NEW b, KeysSound(b)
  PROVE  /\ KeysSound(Spotify!DropConnection(b))
         /\ Spotify!DropConnection(b).s.conn = "none"
         /\ Spotify!DropConnection(b).s.active = b.s.active
<1> DEFINE keys == b.s.keys
           rows == [i \in DOMAIN keys |-> [keys[i] EXCEPT !.sequence = 0, !.timer = "none"]]
           c == Spotify!DropConnection(b)
           none == {}
<1>1. b \in KeyCall /\ keys \in Seq(KeyRecord) /\ DOMAIN keys = 1..Len(keys) /\ Len(keys) \in Nat
  BY KeyFields DEF KeysSound
<1>2. ASSUME NEW i \in 1..Len(keys)
      PROVE  /\ rows[i] \in KeyRecord /\ rows[i].sequence = 0
  <2>1. keys[i] \in KeyRecord
    BY <1>1, RowIs
  <2>2. PICK row : row = [keys[i] EXCEPT !.sequence = 0, !.timer = "none"]
    OBVIOUS
  <2>3. rows[i] = row
    BY <1>1, <2>2
  <2>4. PICK key : key = keys[i]
    OBVIOUS
  <2>5. row \in KeyRecord /\ row.sequence = 0
    BY <2>1, <2>2, <2>4, TimedRow
  <2> HIDE DEF rows
  <2> QED BY <2>3, <2>5
<1>3. rows \in Seq(KeyRecord) /\ DOMAIN rows = 1..Len(keys)
  <2>1. rows \in [1..Len(keys) -> KeyRecord]
    BY <1>1, <1>2
  <2> HIDE DEF rows, keys
  <2> QED BY <1>1, <2>1, RowsAre
<1>4. Lighter(keys, rows) /\ NoneSent(rows, none)
  BY <1>2, <1>3 DEF Lighter, NoneSent
<1>5. c = [b EXCEPT !.s.conn = "none", !.s.keepAlive = "off", !.log.due = none, !.s.keys = rows]
  BY <1>1 DEF Spotify!DropConnection, KeyCall, SessionRecord, LogRecord
<1> HIDE DEF rows, c
<1>6. none \in SUBSET DueRecord /\ "none" \in Spotify!Stages
  BY DEF Spotify!Stages
<1> HIDE DEF none
<1>7. c \in KeyCall
  BY <1>1, <1>3, <1>5, <1>6 DEF KeyCall, SessionRecord, LogRecord
<1>8. /\ c.s.keys = rows /\ c.s.conn = "none" /\ c.s.active = b.s.active
      /\ c.s.nextSequence = b.s.nextSequence
      /\ c.log.due = none /\ c.log.answers = b.log.answers
  BY <1>1, <1>5 DEF KeyCall, SessionRecord, LogRecord
<1>9. Numbered(rows, c.s.nextSequence, none)
  BY <1>3, <1>4, <1>7, KeyFields DEF Numbered, NoneSent
<1>10. KeysSound(c)
  BY <1>4, <1>7, <1>8, <1>9 DEF KeysSound
<1> QED BY <1>8, <1>10 DEF c

\* A request that gets the next number: the access point knows it by that.
LEMMA OneMoreNumbered ==
  ASSUME NEW keys \in Seq(KeyRecord), NEW left \in Seq(KeyRecord), NEW next \in Nat \ {0},
         NEW due \in SUBSET DueRecord, NEW i \in DOMAIN keys, DOMAIN left = DOMAIN keys,
         left[i].sequence = next, left[i].id = keys[i].id,
         \A j \in DOMAIN keys : j # i => left[j] = keys[j],
         Numbered(keys, next, due)
  PROVE  Numbered(left, next + 1, due \cup {[sequence |-> next, id |-> keys[i].id]})
<1>1. \A j \in DOMAIN keys : keys[j].sequence \in Nat
  BY RowIs
<1>2. \A j \in DOMAIN left : left[j].sequence < next + 1
  BY <1>1 DEF Numbered
<1>3. \A d \in due : d.sequence # 0 /\ d.sequence < next /\ d.sequence \in Nat
  BY DEF Numbered, DueRecord
<1>4. ASSUME NEW j \in DOMAIN left, NEW d \in due, left[j].sequence = d.sequence
      PROVE  left[j].id = d.id
  <2>1. j # i
    BY <1>3, <1>4
  <2> QED BY <1>4, <2>1 DEF Numbered
<1>5. ASSUME NEW j \in DOMAIN left, left[j].sequence = next
      PROVE  left[j].id = keys[i].id
  <2>1. j = i
    BY <1>1, <1>5 DEF Numbered
  <2> QED BY <2>1
<1>6. PICK d : d = [sequence |-> next, id |-> keys[i].id]
  OBVIOUS
<1>7. d.sequence = next /\ d.id = keys[i].id
  BY <1>6
<1>8. Numbered(left, next + 1, due \cup {d})
  BY <1>2, <1>3, <1>4, <1>5, <1>7 DEF Numbered
<1> QED BY <1>6, <1>8

LEMMA SendKeySound ==
  ASSUME NEW b, KeysSound(b), NEW i \in DOMAIN b.s.keys
  PROVE  KeysSound(Spotify!SendKey(b, i))
<1> DEFINE c == Spotify!SendKey(b, i)
           keys == b.s.keys
           n == b.s.nextSequence
           row == Spotify!Sending(keys[i], n)
           rows == [keys EXCEPT ![i] = row]
           due == b.log.due \cup {[sequence |-> n, id |-> keys[i].id]}
           more == n + 1
<1>1. /\ b \in KeyCall /\ keys \in Seq(KeyRecord) /\ n \in Nat \ {0}
      /\ b.log.due \in SUBSET DueRecord
      /\ Numbered(keys, n, b.log.due)
  BY KeyFields DEF KeysSound
<1>2. CASE ~ Spotify!LoggedIn(b.s)
  BY <1>2 DEF Spotify!SendKey
<1>3. CASE Spotify!LoggedIn(b.s)
  <2>1. b.s.conn = "ready"
    BY <1>3 DEF Spotify!LoggedIn
  <2>2. keys[i] \in KeyRecord
    BY <1>1, RowIs
  <2>3. row \in KeyRecord /\ row.sequence = n /\ row.id = keys[i].id
    BY <1>1, <2>2, SendingIs
  <2>4. c = [b EXCEPT !.s.keys = rows, !.s.nextSequence = more, !.log.due = due]
    BY <1>1, <1>3 DEF Spotify!SendKey, KeyCall, SessionRecord, LogRecord
  <2> HIDE DEF row
  <2>5. /\ rows \in Seq(KeyRecord) /\ DOMAIN rows = DOMAIN keys /\ rows[i] = row
        /\ \A j \in DOMAIN keys : j # i => rows[j] = keys[j]
    BY <1>1, <2>3
  <2>6. due \in SUBSET DueRecord /\ more \in Nat \ {0}
    <3>1. [sequence |-> n, id |-> keys[i].id] \in DueRecord
      BY <1>1, <2>2 DEF DueRecord, KeyRecord
    <3>2. b.log.due \subseteq DueRecord
      BY <1>1
    <3>3. more \in Nat \ {0}
      BY <1>1
    <3> QED BY <3>1, <3>2, <3>3
  <2>7. Numbered(rows, more, due)
    <3>1. PICK old, given, next, left :
            old = keys /\ given = b.log.due /\ next = n /\ left = rows
      OBVIOUS
    <3>2. /\ old \in Seq(KeyRecord) /\ left \in Seq(KeyRecord) /\ next \in Nat \ {0}
          /\ given \in SUBSET DueRecord /\ i \in DOMAIN old /\ DOMAIN left = DOMAIN old
          /\ left[i].sequence = next /\ left[i].id = old[i].id
          /\ Numbered(old, next, given)
      BY <1>1, <2>3, <2>5, <3>1
    <3>3. \A j \in DOMAIN old : j # i => left[j] = old[j]
      BY <2>5, <3>1
    <3> HIDE DEF keys, rows, n
    <3>4. Numbered(left, next + 1, given \cup {[sequence |-> next, id |-> old[i].id]})
      BY <3>2, <3>3, OneMoreNumbered
    <3> QED BY <3>1, <3>4
  <2> HIDE DEF keys, n, rows, due, more, c
  <2>8. c \in KeyCall
    BY <1>1, <2>4, <2>5, <2>6 DEF KeyCall, SessionRecord, LogRecord
  <2>9. /\ c.s.keys = rows /\ c.s.nextSequence = more /\ c.log.due = due
        /\ c.s.conn = b.s.conn /\ c.log.answers = b.log.answers
    BY <1>1, <2>4 DEF KeyCall, SessionRecord, LogRecord
  <2>10. KeysSound(c)
    BY <2>1, <2>7, <2>8, <2>9 DEF KeysSound
  <2> QED BY <2>10 DEF c
<1> QED BY <1>2, <1>3

\* A smaller set has fewer members.
LEMMA FewerIn ==
  ASSUME NEW n \in Nat, NEW S \in SUBSET (1..n), NEW T \in SUBSET S
  PROVE  /\ Cardinality(S) \in Nat /\ Cardinality(T) \in Nat
         /\ Cardinality(T) <= Cardinality(S)
         /\ T # S => Cardinality(T) < Cardinality(S)
<1>1. IsFiniteSet(1..n)
  BY FS_Interval
<1>2. IsFiniteSet(S)
  BY <1>1, FS_Subset
<1>3. /\ IsFiniteSet(T) /\ Cardinality(T) <= Cardinality(S)
      /\ Cardinality(S) = Cardinality(T) => S = T
  BY <1>2, FS_Subset
<1>4. Cardinality(S) \in Nat /\ Cardinality(T) \in Nat
  BY <1>2, <1>3, FS_CardinalityType
<1> QED BY <1>3, <1>4

\* The session's module counts with the same operator.
LEMMA Counts == ASSUME NEW S PROVE Spotify!Cardinality(S) = Cardinality(S)
BY DEF Spotify!Cardinality, Cardinality

\* sendQueuedKeys(): the rows that wait get one number each, in their order.
LEMMA NumbersOf ==
  ASSUME NEW keys \in Seq(KeyRecord), NEW next \in Nat \ {0}
  PROVE  LET waiting == Spotify!Waiting(keys)
             Number(i) == Spotify!NumberOf(keys, next, i)
         IN /\ waiting \in SUBSET DOMAIN keys /\ Cardinality(waiting) \in Nat
            /\ \A i \in waiting : /\ Number(i) \in Nat /\ Number(i) >= next
                                  /\ Number(i) < next + Cardinality(waiting)
            /\ \A i, k \in waiting : Number(i) = Number(k) => i = k
<1> DEFINE n == Len(keys)
           waiting == Spotify!Waiting(keys)
           size == Cardinality(waiting)
           Before(i) == {j \in waiting : j < i}
           Number(i) == Spotify!NumberOf(keys, next, i)
<1>1. n \in Nat /\ DOMAIN keys = 1..n
  OBVIOUS
<1>2. waiting \in SUBSET (1..n)
  BY <1>1 DEF Spotify!Waiting
<1>3. \A i : Number(i) = next + Cardinality(Before(i))
  BY Counts DEF Spotify!NumberOf
<1> HIDE DEF waiting, Number, n
<1>4. size \in Nat
  BY <1>1, <1>2, FewerIn
<1>5. ASSUME NEW i \in waiting
      PROVE  /\ Number(i) \in Nat /\ Number(i) >= next /\ Number(i) < next + size
  <2>1. Before(i) \in SUBSET waiting /\ Before(i) # waiting
    BY <1>1, <1>2
  <2>2. Cardinality(Before(i)) \in Nat /\ Cardinality(Before(i)) < size
    BY <1>1, <1>2, <2>1, FewerIn
  <2>3. Number(i) = next + Cardinality(Before(i))
    BY <1>3
  <2> HIDE DEF size, Before
  <2> QED BY <1>4, <2>2, <2>3
<1>6. ASSUME NEW i \in waiting, NEW k \in waiting, i < k PROVE Number(i) < Number(k)
  <2>1. Before(k) \in SUBSET (1..n) /\ Before(i) \in SUBSET Before(k) /\ Before(i) # Before(k)
    <3>1. i \in Nat /\ k \in Nat /\ ~ (i < i) /\ \A j \in waiting : j \in Nat
      BY <1>1, <1>2
    <3>2. \A j \in waiting : j < i => j < k
      BY <1>6, <3>1
    <3>3. i \in Before(k) /\ i \notin Before(i)
      BY <1>6, <3>1
    <3>4. Before(k) \in SUBSET (1..n) /\ Before(i) \in SUBSET Before(k)
      BY <1>2, <3>2
    <3> QED BY <3>3, <3>4
  <2>2. /\ Cardinality(Before(i)) \in Nat /\ Cardinality(Before(k)) \in Nat
        /\ Cardinality(Before(i)) < Cardinality(Before(k))
    BY <1>1, <2>1, FewerIn
  <2>3. Number(i) = next + Cardinality(Before(i)) /\ Number(k) = next + Cardinality(Before(k))
    BY <1>3
  <2> HIDE DEF Before
  <2> QED BY <2>2, <2>3
<1>7. ASSUME NEW i \in waiting, NEW k \in waiting, Number(i) = Number(k) PROVE i = k
  <2>1. i < k \/ k < i \/ i = k
    BY <1>1, <1>2
  <2>2. Number(i) \in Nat /\ Number(k) \in Nat
    BY <1>5
  <2> QED BY <1>6, <1>7, <2>1, <2>2
<1>8. waiting \in SUBSET DOMAIN keys
  BY <1>1, <1>2
<1> QED BY <1>4, <1>5, <1>7, <1>8 DEF waiting, Number

LEMMA AllSentIs ==
  ASSUME NEW keys \in Seq(KeyRecord), NEW next \in Nat \ {0}
  PROVE  LET left == Spotify!AllSent(keys, next)
         IN /\ left \in Seq(KeyRecord) /\ DOMAIN left = DOMAIN keys
            /\ \A i \in Spotify!Waiting(keys) :
                 /\ left[i].sequence = Spotify!NumberOf(keys, next, i)
                 /\ left[i].id = keys[i].id
            /\ \A i \in DOMAIN keys : i \notin Spotify!Waiting(keys) => left[i] = keys[i]
<1> DEFINE left == Spotify!AllSent(keys, next)
           waiting == Spotify!Waiting(keys)
           Number(i) == Spotify!NumberOf(keys, next, i)
<1>1. DOMAIN keys = 1..Len(keys) /\ Len(keys) \in Nat
  OBVIOUS
<1>2. /\ waiting \in SUBSET DOMAIN keys
      /\ \A i \in waiting : Number(i) \in Nat
  BY NumbersOf
<1>3. left = [i \in 1..Len(keys) |->
                IF i \in waiting THEN Spotify!Sending(keys[i], Number(i)) ELSE keys[i]]
  BY <1>1 DEF Spotify!AllSent
<1> HIDE DEF left, waiting, Number
<1>4. ASSUME NEW i \in 1..Len(keys)
      PROVE  /\ left[i] \in KeyRecord
             /\ i \in waiting => left[i].sequence = Number(i) /\ left[i].id = keys[i].id
             /\ i \notin waiting => left[i] = keys[i]
  <2>1. PICK key, row, number : key = keys[i] /\ row = left[i] /\ number = Number(i)
    OBVIOUS
  <2>2. key \in KeyRecord
    BY <1>1, <2>1, RowIs
  <2>3. row = IF i \in waiting THEN Spotify!Sending(key, number) ELSE key
    BY <1>3, <2>1
  <2>4. CASE i \in waiting
    <3>1. number \in Nat /\ row = Spotify!Sending(key, number)
      BY <1>2, <2>1, <2>3, <2>4
    <3>2. row \in KeyRecord /\ row.sequence = number /\ row.id = key.id
      BY <2>2, <3>1, SendingIs
    <3> QED BY <2>1, <2>4, <3>2
  <2>5. CASE i \notin waiting
    BY <2>1, <2>2, <2>3, <2>5
  <2> QED BY <2>4, <2>5
<1>5. left \in Seq(KeyRecord) /\ DOMAIN left = 1..Len(keys)
  <2>1. DOMAIN left = 1..Len(keys)
    BY <1>3
  <2>2. left \in [1..Len(keys) -> KeyRecord]
    BY <1>3, <1>4
  <2> QED BY <1>1, <2>1, <2>2, RowsAre
<1>6. \A i \in waiting : left[i].sequence = Number(i) /\ left[i].id = keys[i].id
  BY <1>1, <1>2, <1>4
<1>7. \A i \in DOMAIN keys : i \notin waiting => left[i] = keys[i]
  BY <1>1, <1>4
<1> QED BY <1>1, <1>5, <1>6, <1>7 DEF left, waiting, Number

LEMMA AllNumbered ==
  ASSUME NEW keys \in Seq(KeyRecord), NEW next \in Nat \ {0},
         NEW due \in SUBSET DueRecord, Numbered(keys, next, due)
  PROVE  Numbered(Spotify!AllSent(keys, next), next + Cardinality(Spotify!Waiting(keys)),
                  due \cup Spotify!Asking(keys, next))
<1> DEFINE left == Spotify!AllSent(keys, next)
           waiting == Spotify!Waiting(keys)
           size == Cardinality(waiting)
           sent == Spotify!Asking(keys, next)
           Number(i) == Spotify!NumberOf(keys, next, i)
<1>1. sent = {[sequence |-> Number(i), id |-> keys[i].id] : i \in waiting}
  BY DEF Spotify!Asking
<1>2. /\ waiting \in SUBSET DOMAIN keys /\ size \in Nat
      /\ \A i \in waiting : Number(i) \in Nat /\ Number(i) >= next /\ Number(i) < next + size
      /\ \A i, k \in waiting : Number(i) = Number(k) => i = k
  BY NumbersOf
<1>3. /\ DOMAIN left = DOMAIN keys
      /\ \A i \in waiting : left[i].sequence = Number(i) /\ left[i].id = keys[i].id
      /\ \A i \in DOMAIN keys : i \notin waiting => left[i] = keys[i]
  BY AllSentIs
<1> HIDE DEF left, waiting, size, sent, Number
<1>4. \A j \in DOMAIN keys : keys[j].sequence \in Nat /\ keys[j].sequence < next
  BY RowIs DEF Numbered
<1>5. \A d \in due : d.sequence # 0 /\ d.sequence < next /\ d.sequence \in Nat
  BY DEF Numbered, DueRecord
<1>6. \A j \in DOMAIN left : left[j].sequence < next + size
  BY <1>2, <1>3, <1>4
<1>7. \A d \in sent : \E i \in waiting : d.sequence = Number(i) /\ d.id = keys[i].id
  BY <1>1
<1>8. \A d \in due \cup sent : d.sequence # 0 /\ d.sequence < next + size
  <2>1. \A d \in due : d.sequence # 0 /\ d.sequence < next + size
    BY <1>2, <1>5
  <2>2. \A d \in sent : d.sequence # 0 /\ d.sequence < next + size
    BY <1>2, <1>7
  <2> QED BY <2>1, <2>2
<1>9. ASSUME NEW j \in DOMAIN left, NEW d \in due, left[j].sequence = d.sequence
      PROVE  left[j].id = d.id
  <2>1. j \notin waiting
    BY <1>2, <1>3, <1>5, <1>9
  <2> QED BY <1>3, <1>9, <2>1 DEF Numbered
<1>10. ASSUME NEW j \in DOMAIN left, NEW d \in sent, left[j].sequence = d.sequence
       PROVE  left[j].id = d.id
  <2>1. PICK i \in waiting : d.sequence = Number(i) /\ d.id = keys[i].id
    BY <1>7
  <2>2. j \in waiting
    BY <1>2, <1>3, <1>4, <1>10, <2>1
  <2> QED BY <1>2, <1>3, <1>10, <2>1, <2>2
<1>11. Numbered(left, next + size, due \cup sent)
  BY <1>6, <1>8, <1>9, <1>10 DEF Numbered
<1> QED BY <1>11 DEF left, size, waiting, sent

LEMMA SendQueuedKeysSound ==
  ASSUME NEW b, KeysSound(b) PROVE KeysSound(Spotify!SendQueuedKeys(b))
<1> DEFINE c == Spotify!SendQueuedKeys(b)
           keys == b.s.keys
           n == b.s.nextSequence
           rows == Spotify!AllSent(keys, n)
           more == n + Cardinality(Spotify!Waiting(keys))
           due == b.log.due \cup Spotify!Asking(keys, n)
<1>1. /\ b \in KeyCall /\ keys \in Seq(KeyRecord) /\ n \in Nat \ {0}
      /\ b.log.due \in SUBSET DueRecord /\ Numbered(keys, n, b.log.due)
  BY KeyFields DEF KeysSound
<1>2. CASE ~ Spotify!LoggedIn(b.s)
  BY <1>2 DEF Spotify!SendQueuedKeys
<1>3. CASE Spotify!LoggedIn(b.s)
  <2>1. b.s.conn = "ready"
    BY <1>3 DEF Spotify!LoggedIn
  <2>2. c = [b EXCEPT !.s.keys = rows, !.s.nextSequence = more, !.log.due = due]
    BY <1>1, <1>3, Counts DEF Spotify!SendQueuedKeys, KeyCall, SessionRecord, LogRecord
  <2>3. rows \in Seq(KeyRecord)
    BY <1>1, AllSentIs
  <2>4. more \in Nat \ {0}
    BY <1>1, NumbersOf
  <2>5. due \in SUBSET DueRecord
    <3> HIDE DEF keys, n
    <3>1. /\ \A i \in Spotify!Waiting(keys) : Spotify!NumberOf(keys, n, i) \in Nat
          /\ Spotify!Waiting(keys) \in SUBSET DOMAIN keys
      BY <1>1, NumbersOf
    <3>2. \A i \in Spotify!Waiting(keys) : keys[i].id \in Requests
      BY <1>1, <3>1, RowIs
    <3> QED BY <1>1, <3>1, <3>2 DEF Spotify!Asking, DueRecord
  <2>6. Numbered(rows, more, due)
    BY <1>1, AllNumbered
  <2> HIDE DEF keys, n, rows, more, due, c
  <2>7. c \in KeyCall
    BY <1>1, <2>2, <2>3, <2>4, <2>5 DEF KeyCall, SessionRecord, LogRecord
  <2>8. /\ c.s.keys = rows /\ c.s.nextSequence = more /\ c.log.due = due
        /\ c.s.conn = b.s.conn /\ c.log.answers = b.log.answers
    BY <1>1, <2>2 DEF KeyCall, SessionRecord, LogRecord
  <2>9. KeysSound(c)
    BY <2>1, <2>6, <2>7, <2>8 DEF KeysSound
  <2> QED BY <2>9 DEF c
<1> QED BY <1>2, <1>3

\* The first of some rows
LEMMA LeastOf ==
  ASSUME NEW S \in SUBSET Nat, S # {} PROVE \E i \in S : \A j \in S : i <= j
<1> DEFINE R == OpToRel(<, Nat)
<1>1. IsWellFoundedOn(R, Nat)
  BY NatLessThanWellFounded
<1>2. \A i \in Nat, j \in Nat : j < i => <<j, i>> \in R
  BY DEF OpToRel
<1> HIDE DEF R
<1>3. PICK i \in S : \A j \in S : ~ (<<j, i>> \in R)
  BY <1>1, WFMin
<1>4. ASSUME NEW j \in S PROVE i <= j
  <2>1. i \in Nat /\ j \in Nat
    OBVIOUS
  <2>2. ~ (j < i)
    BY <1>2, <1>3, <2>1
  <2> QED BY <2>1, <2>2
<1> QED BY <1>4

\* retryOrFail(): the row waits for its second attempt, or goes.
LEMMA RetryOrFailSound ==
  ASSUME NEW b, KeysSound(b), NEW number, NEW failure \in {"Refused", "Failed"}
  PROVE  KeysSound(Spotify!RetryOrFail(b, number, failure))
<1> DEFINE sent == Spotify!Sent(b, number)
           keys == b.s.keys
           least == CHOOSE i \in sent : \A j \in sent : i <= j
<1>1. /\ b \in KeyCall /\ keys \in Seq(KeyRecord) /\ DOMAIN keys = 1..Len(keys)
      /\ Len(keys) \in Nat
  BY KeyFields DEF KeysSound
<1>2. CASE sent = {}
  BY <1>2 DEF Spotify!RetryOrFail
<1>3. CASE sent # {}
  <2>1. least \in DOMAIN keys
    <3>1. sent \in SUBSET (1..Len(keys))
      BY <1>1 DEF Spotify!Sent
    <3>2. \E i \in sent : \A j \in sent : i <= j
      <4>1. sent \in SUBSET Nat /\ sent # {}
        BY <1>3, <3>1
      <4> HIDE DEF sent
      <4> QED BY <4>1, LeastOf
    <3>3. least \in sent
      BY <3>2
    <3> QED BY <1>1, <3>1, <3>3
  <2>2. PICK i : i = least
    OBVIOUS
  <2>3. i \in DOMAIN b.s.keys
    BY <2>1, <2>2
  <2>4. \/ Spotify!RetryOrFail(b, number, failure) = Spotify!FinishKey(b, i, failure)
        \/ Spotify!RetryOrFail(b, number, failure) = Spotify!AskAgain(b, i)
    BY <1>3, <2>2 DEF Spotify!RetryOrFail
  <2>5. KeysSound(Spotify!FinishKey(b, i, failure))
    BY <2>3, FinishKeySound DEF Failures
  <2>6. KeysSound(Spotify!AskAgain(b, i))
    <3> DEFINE row == [keys[i] EXCEPT !.sequence = 0, !.timer = "retry"]
               rows == [keys EXCEPT ![i] = row]
    <3>1. keys[i] \in KeyRecord
      BY <1>1, <2>3, RowIs
    <3>2. row \in KeyRecord /\ row.sequence = 0
      BY <3>1, TimedRow
    <3>3. Spotify!AskAgain(b, i) = WithKeys(b, rows)
      BY <1>1 DEF Spotify!AskAgain, WithKeys, KeyCall, SessionRecord
    <3> HIDE DEF row
    <3>4. /\ rows \in Seq(KeyRecord) /\ DOMAIN rows = DOMAIN keys /\ rows[i] = row
          /\ \A j \in DOMAIN keys : j # i => rows[j] = keys[j]
      BY <1>1, <2>3, <3>2
    <3> HIDE DEF rows
    <3>5. Lighter(b.s.keys, rows)
      BY <3>2, <3>4 DEF Lighter
    <3> QED BY <3>3, <3>4, <3>5, WithKeysSound
  <2> QED BY <2>4, <2>5, <2>6
<1> QED BY <1>2, <1>3

\* Without a number anywhere, a connection may begin with any stage and number.
LEMMA NoneSentSound ==
  ASSUME NEW b, KeysSound(b), NoneSent(b.s.keys, b.log.due), NEW c \in KeyCall,
         c.s.keys = b.s.keys, c.log.due = b.log.due, c.log.answers = b.log.answers
  PROVE  KeysSound(c)
<1>1. c.s.nextSequence \in Nat \ {0}
  BY KeyFields
<1>2. PICK keys, due, next :
        keys = b.s.keys /\ due = b.log.due /\ next = c.s.nextSequence
  OBVIOUS
<1>3. Numbered(keys, next, due)
  BY <1>1, <1>2 DEF NoneSent, Numbered
<1> QED BY <1>2, <1>3 DEF KeysSound

LEMMA ResolveSound ==
  ASSUME NEW b, KeysSound(b) PROVE KeysSound(Spotify!Resolve(b))
<1> DEFINE c == Spotify!Resolve(b)
<1>1. b \in KeyCall
  BY DEF KeysSound
<1>2. c \in KeyCall /\ c.log = b.log /\ c.s.keys = b.s.keys /\ c.s.conn = b.s.conn
      /\ c.s.nextSequence = b.s.nextSequence
  BY <1>1 DEF Spotify!Resolve, KeyCall, SessionRecord
<1> HIDE DEF c
<1>3. Quiet(b, c)
  BY <1>2 DEF Quiet
<1>4. KeysSound(c)
  BY <1>3, QuietSound
<1> QED BY <1>4 DEF c

LEMMA FaultySound ==
  ASSUME NEW b, KeysSound(b)
  PROVE  KeysSound(Spotify!Faulty(b)) /\ Spotify!Faulty(b).s = b.s
<1> DEFINE c == Spotify!Faulty(b)
           faults == b.log.faults + 1
<1>1. b \in KeyCall /\ faults \in Nat
  BY DEF KeysSound, KeyCall, LogRecord
<1>2. c = [b EXCEPT !.log.faults = faults]
  BY <1>1 DEF Spotify!Faulty, KeyCall, LogRecord
<1> HIDE DEF faults, c
<1>3. c \in KeyCall /\ c.s = b.s /\ c.log.due = b.log.due /\ c.log.answers = b.log.answers
  BY <1>1, <1>2 DEF KeyCall, LogRecord
<1>4. Quiet(b, c)
  BY <1>3 DEF Quiet
<1>5. KeysSound(c)
  BY <1>4, QuietSound
<1> QED BY <1>3, <1>5 DEF c

LEMMA ConnectNextSound ==
  ASSUME NEW b, KeysSound(b) PROVE KeysSound(Spotify!ConnectNext(b))
<1>1. CASE ~ b.s.active
  BY <1>1 DEF Spotify!ConnectNext
<1>2. CASE b.s.active /\ b.s.next >= b.s.points
  BY <1>2, ResolveSound DEF Spotify!ConnectNext
<1>3. CASE b.s.active /\ ~ (b.s.next >= b.s.points)
  <2>1. PICK d : d = Spotify!DropConnection(b)
    OBVIOUS
  <2>2. KeysSound(d) /\ d.s.conn = "none"
    BY <2>1, DropConnectionSound
  <2> DEFINE next == d.s.next + 1
             c == [d EXCEPT !.s.next = next, !.s.conn = "connecting"]
  <2>3. d \in KeyCall /\ next \in Nat /\ NoneSent(d.s.keys, d.log.due)
    BY <2>2 DEF KeysSound, KeyCall, SessionRecord
  <2>4. Spotify!ConnectNext(b) = c
    BY <1>3, <2>1, <2>3 DEF Spotify!ConnectNext, KeyCall, SessionRecord
  <2> HIDE DEF next
  <2>5. c \in KeyCall /\ c.s.keys = d.s.keys /\ c.log = d.log
    BY <2>3 DEF KeyCall, SessionRecord, Spotify!Stages
  <2> HIDE DEF c
  <2>6. KeysSound(c)
    BY <2>2, <2>3, <2>5, NoneSentSound
  <2> QED BY <2>4, <2>6
<1> QED BY <1>1, <1>2, <1>3

LEMMA ScheduleReconnectSound ==
  ASSUME NEW b, KeysSound(b) PROVE KeysSound(Spotify!ScheduleReconnect(b))
<1>1. CASE ~ b.s.active
  BY <1>1 DEF Spotify!ScheduleReconnect
<1>2. CASE b.s.active
  <2>1. PICK d : d = Spotify!FailAllKeys(b, "Network")
    OBVIOUS
  <2>2. KeysSound(d)
    BY <2>1, FailAllKeysSound DEF Failures
  <2> DEFINE c == [d EXCEPT !.s.next = 0, !.s.reconnect = TRUE]
  <2>3. d \in KeyCall
    BY <2>2 DEF KeysSound
  <2>4. c \in KeyCall /\ c.log = d.log /\ c.s.keys = d.s.keys /\ c.s.conn = d.s.conn
        /\ c.s.nextSequence = d.s.nextSequence
    BY <2>3 DEF KeyCall, SessionRecord
  <2>5. Spotify!ScheduleReconnect(b) = c
    BY <1>2, <2>1 DEF Spotify!ScheduleReconnect
  <2> HIDE DEF c
  <2>6. Quiet(d, c)
    BY <2>4 DEF Quiet
  <2>7. KeysSound(c)
    BY <2>2, <2>6, QuietSound
  <2> QED BY <2>5, <2>7
<1> QED BY <1>1, <1>2

LEMMA GivenUpSound ==
  ASSUME NEW b, KeysSound(b) PROVE KeysSound(Spotify!GivenUp(b))
<1>1. PICK c : c = Spotify!DropConnection(b)
  OBVIOUS
<1>2. KeysSound(c)
  BY <1>1, DropConnectionSound
<1>3. KeysSound(Spotify!ScheduleReconnect(c))
  BY <1>2, ScheduleReconnectSound
<1> QED BY <1>1, <1>3 DEF Spotify!GivenUp

LEMMA LoggedOutSound ==
  ASSUME NEW b, KeysSound(b) PROVE KeysSound(Spotify!LoggedOut(b))
<1> DEFINE c == [b EXCEPT !.s.active = FALSE, !.s.reconnect = FALSE, !.s.resolving = FALSE]
<1>1. b \in KeyCall
  BY DEF KeysSound
<1>2. c \in KeyCall /\ c.log = b.log /\ c.s.keys = b.s.keys /\ c.s.conn = b.s.conn
      /\ c.s.nextSequence = b.s.nextSequence
  BY <1>1 DEF KeyCall, SessionRecord
<1>3. Spotify!LoggedOut(b) = Spotify!FailAllKeys(Spotify!DropConnection(c), "Network")
  BY DEF Spotify!LoggedOut
<1> HIDE DEF c
<1>4. Quiet(b, c)
  BY <1>2 DEF Quiet
<1>5. KeysSound(c)
  BY <1>4, QuietSound
<1>6. PICK d : d = Spotify!DropConnection(c)
  OBVIOUS
<1>7. KeysSound(d)
  BY <1>5, <1>6, DropConnectionSound
<1>8. KeysSound(Spotify!FailAllKeys(d, "Network"))
  BY <1>7, FailAllKeysSound DEF Failures
<1> QED BY <1>3, <1>6, <1>8

\* audioKey() with an account: a row without a number yet
LEMMA AskedSound ==
  ASSUME NEW b, KeysSound(b), NEW request \in Requests
  PROVE  KeysSound(Spotify!Asked(b, request))
<1> DEFINE row == [id |-> request, attempts |-> 0, sequence |-> 0, timer |-> "queued"]
           keys == b.s.keys
           rows == Append(keys, row)
<1>1. b \in KeyCall /\ keys \in Seq(KeyRecord)
  BY KeyFields DEF KeysSound
<1>2. row \in KeyRecord /\ row.sequence = 0
  BY DEF KeyRecord
<1>3. PICK one : one = row
  OBVIOUS
<1>4. one \in KeyRecord /\ one.sequence = 0
  BY <1>2, <1>3
<1>5. PICK left : left = Append(keys, one)
  OBVIOUS
<1>6. left \in Seq(KeyRecord) /\ Len(left) \in DOMAIN left /\ Lighter(keys, left)
  <2> HIDE DEF keys
  <2>1. /\ left \in Seq(KeyRecord) /\ Len(left) = Len(keys) + 1 /\ Len(keys) \in Nat
        /\ DOMAIN left = 1..(Len(keys) + 1) /\ DOMAIN keys = 1..Len(keys)
    BY <1>1, <1>4, <1>5
  <2>2. \A j \in 1..(Len(keys) + 1) :
          left[j] = IF j = Len(keys) + 1 THEN one ELSE keys[j]
    BY <1>1, <1>4, <1>5
  <2>3. Len(left) \in DOMAIN left
    BY <2>1
  <2>4. \A j \in DOMAIN left : j = Len(keys) + 1 \/ j \in DOMAIN keys
    BY <2>1
  <2>5. Lighter(keys, left)
    BY <1>4, <2>1, <2>2, <2>4 DEF Lighter
  <2> QED BY <2>1, <2>3, <2>5
<1>7. PICK c : c = WithKeys(b, left)
  OBVIOUS
<1>8. KeysSound(c) /\ c.s.keys = left /\ c.s.conn = b.s.conn
  BY <1>6, <1>7, WithKeysSound
<1>9. PICK asked : asked = Spotify!Told(c, {request}, "waiting")
  OBVIOUS
<1>10. KeysSound(asked) /\ asked.s = c.s
  BY <1>8, <1>9, ToldSound DEF Failures
<1>11. asked = [b EXCEPT !.s.keys = Append(@, row), !.log.answers[request] = "waiting"]
  <2>1. PICK told : told = [r \in Requests |-> IF r \in {request} THEN "waiting"
                                              ELSE b.log.answers[r]]
    OBVIOUS
  <2>2. told = [b.log.answers EXCEPT ![request] = "waiting"]
    <3>1. b.log.answers \in [Requests -> Requests \cup Failures]
      BY <1>1, KeyFields
    <3> QED BY <2>1, <3>1
  <2>3. c.log = b.log
    BY <1>1, <1>7 DEF WithKeys, KeyCall
  <2>4. asked = [c EXCEPT !.log.answers = told]
    BY <1>1, <1>9, <2>1, <2>3 DEF Spotify!Told, KeyCall, LogRecord
  <2>5. asked = [b EXCEPT !.s.keys = left, !.log.answers = told]
    BY <1>1, <1>7, <2>4 DEF WithKeys, KeyCall, SessionRecord, LogRecord
  <2> QED BY <1>1, <1>3, <1>5, <2>2, <2>5 DEF KeyCall, SessionRecord, LogRecord
<1>12. Spotify!Asked(b, request) = IF Spotify!LoggedIn(b.s)
                                     THEN Spotify!SendKey(asked, Len(asked.s.keys)) ELSE asked
  BY <1>11 DEF Spotify!Asked
<1>13. KeysSound(Spotify!SendKey(asked, Len(asked.s.keys)))
  <2>1. PICK i : i = Len(asked.s.keys)
    OBVIOUS
  <2>2. i \in DOMAIN asked.s.keys
    BY <1>6, <1>8, <1>10, <2>1
  <2>3. KeysSound(Spotify!SendKey(asked, i))
    BY <1>10, <2>2, SendKeySound
  <2> QED BY <2>1, <2>3
<1> QED BY <1>10, <1>12, <1>13

-----------------------------------------------------------------------------
(* The steps *)

LEMMA NowSound ==
  ASSUME NEW c, KeysSound(c), session' = c.s, log' = c.log PROVE SpotifyInv'
<1>1. c = [s |-> session', log |-> log']
  BY DEF KeysSound, KeyCall
<1>2. KeysSound([s |-> session', log |-> log'])
  BY <1>1
<1> QED BY <1>2 DEF SpotifyInv, Spotify!Both

LEMMA BothSound ==
  ASSUME SpotifyInv
  PROVE  /\ KeysSound(Spotify!Both) /\ Spotify!Both.s = session /\ Spotify!Both.log = log
         /\ Spotify!Both \in KeyCall /\ Spotify!Both = [s |-> session, log |-> log]
         /\ session \in SessionRecord /\ log \in LogRecord
<1>1. KeysSound(Spotify!Both) /\ Spotify!Both = [s |-> session, log |-> log]
  BY DEF SpotifyInv, Spotify!Both
<1>2. Spotify!Both \in KeyCall
  BY <1>1 DEF KeysSound
<1>3. Spotify!Both.s = session /\ Spotify!Both.log = log
  BY <1>1
<1> QED BY <1>1, <1>2, <1>3, KeyFields

LEMMA LoginKeeps == ASSUME SpotifyInv, Spotify!Login PROVE SpotifyInv'
<1>1. PICK c : c = Spotify!LoggedOut(Spotify!Both)
  OBVIOUS
<1>2. KeysSound(c)
  BY <1>1, BothSound, LoggedOutSound
<1> DEFINE logins == c.log.logins + 1
           d == [c EXCEPT !.s.active = TRUE, !.log.logins = logins]
<1>3. c \in KeyCall /\ logins \in Nat
  BY <1>2 DEF KeysSound, KeyCall, LogRecord
<1>4. Spotify!Now(Spotify!Resolve(d))
  <2>1. [c EXCEPT !.s.active = TRUE, !.log.logins = @ + 1] = d
    BY <1>3 DEF KeyCall, LogRecord
  <2> HIDE DEF d
  <2>2. Spotify!Now(Spotify!Resolve([c EXCEPT !.s.active = TRUE, !.log.logins = @ + 1]))
    BY <1>1 DEF Spotify!Login
  <2> QED BY <2>1, <2>2
<1> HIDE DEF logins
<1>5. d \in KeyCall /\ d.s.keys = c.s.keys /\ d.s.conn = c.s.conn
      /\ d.s.nextSequence = c.s.nextSequence /\ d.log.due = c.log.due
      /\ d.log.answers = c.log.answers
  BY <1>3 DEF KeyCall, SessionRecord, LogRecord
<1> HIDE DEF d
<1>6. Quiet(c, d)
  BY <1>5 DEF Quiet
<1>7. KeysSound(d)
  BY <1>2, <1>6, QuietSound
<1>8. PICK e : e = Spotify!Resolve(d)
  OBVIOUS
<1>9. KeysSound(e)
  BY <1>7, <1>8, ResolveSound
<1>10. session' = e.s /\ log' = e.log
  BY <1>4, <1>8 DEF Spotify!Now
<1> QED BY <1>9, <1>10, NowSound

LEMMA LogoutKeeps == ASSUME SpotifyInv, Spotify!Logout PROVE SpotifyInv'
<1>1. PICK c : c = Spotify!LoggedOut(Spotify!Both)
  OBVIOUS
<1>2. KeysSound(c)
  BY <1>1, BothSound, LoggedOutSound
<1>3. session' = c.s /\ log' = c.log
  BY <1>1 DEF Spotify!Logout, Spotify!Now
<1> QED BY <1>2, <1>3, NowSound

LEMMA AudioKeyKeeps ==
  ASSUME SpotifyInv, NEW request \in Requests, Spotify!AudioKey(request) PROVE SpotifyInv'
<1>1. PICK b : b = Spotify!Both
  OBVIOUS
<1>2. KeysSound(b)
  BY <1>1, BothSound
<1>3. PICK c : c = IF session.active THEN Spotify!Asked(b, request)
                                     ELSE Spotify!Told(b, {request}, "Network")
  OBVIOUS
<1>4. KeysSound(c)
  <2>1. KeysSound(Spotify!Asked(b, request))
    BY <1>2, AskedSound
  <2>2. KeysSound(Spotify!Told(b, {request}, "Network"))
    BY <1>2, ToldSound DEF Failures
  <2> QED BY <1>3, <2>1, <2>2
<1>5. session' = c.s /\ log' = c.log
  BY <1>1, <1>3 DEF Spotify!AudioKey, Spotify!Now
<1> QED BY <1>4, <1>5, NowSound

LEMMA ResolvedKeeps == ASSUME SpotifyInv, Spotify!Resolved PROVE SpotifyInv'
<1>1. PICK b : b = Spotify!Both
  OBVIOUS
<1>2. KeysSound(b) /\ b \in KeyCall
  BY <1>1, BothSound
<1>3. PICK n \in 1..MaxPoints : Spotify!Now(Spotify!ConnectNext(
        [b EXCEPT !.s.resolving = FALSE, !.s.points = n, !.s.next = 0]))
  BY <1>1 DEF Spotify!Resolved
<1>4. n \in Nat
  BY PartsAssumption
<1>5. PICK c : c = [b EXCEPT !.s.resolving = FALSE, !.s.points = n, !.s.next = 0]
  OBVIOUS
<1>6. c \in KeyCall /\ c.log = b.log /\ c.s.keys = b.s.keys /\ c.s.conn = b.s.conn
      /\ c.s.nextSequence = b.s.nextSequence
  BY <1>2, <1>4, <1>5 DEF KeyCall, SessionRecord
<1>7. Quiet(b, c)
  BY <1>6 DEF Quiet
<1>8. KeysSound(c)
  BY <1>2, <1>7, QuietSound
<1>9. PICK d : d = Spotify!ConnectNext(c)
  OBVIOUS
<1>10. KeysSound(d)
  BY <1>8, <1>9, ConnectNextSound
<1>11. session' = d.s /\ log' = d.log
  BY <1>3, <1>5, <1>9 DEF Spotify!Now
<1> QED BY <1>10, <1>11, NowSound

LEMMA ResolveTimesOutKeeps == ASSUME SpotifyInv, Spotify!ResolveTimesOut PROVE SpotifyInv'
<1>1. PICK b : b = Spotify!Faulty(Spotify!Both)
  OBVIOUS
<1>2. KeysSound(b)
  BY <1>1, BothSound, FaultySound
<1>3. PICK c : c = [b EXCEPT !.s.resolving = FALSE, !.log.abandoned = TRUE]
  OBVIOUS
<1>4. b \in KeyCall
  BY <1>2 DEF KeysSound
<1>5. c \in KeyCall /\ c.s.keys = b.s.keys /\ c.s.conn = b.s.conn
      /\ c.s.nextSequence = b.s.nextSequence /\ c.log.due = b.log.due
      /\ c.log.answers = b.log.answers
  BY <1>3, <1>4 DEF KeyCall, SessionRecord, LogRecord
<1>6. Quiet(b, c)
  BY <1>5 DEF Quiet
<1>7. KeysSound(c)
  BY <1>2, <1>6, QuietSound
<1>8. session' = c.s /\ log' = c.log
  BY <1>1, <1>3 DEF Spotify!ResolveTimesOut, Spotify!Now
<1> QED BY <1>7, <1>8, NowSound

LEMMA ConnectedKeeps == ASSUME SpotifyInv, Spotify!Connected PROVE SpotifyInv'
<1>1. PICK b : b = Spotify!Both
  OBVIOUS
<1>2. KeysSound(b) /\ b \in KeyCall /\ b.s = session
  BY <1>1, BothSound
<1>3. PICK c, stage, first :
        /\ c = [b EXCEPT !.s.conn = stage, !.s.nextSequence = first]
        /\ stage = "login" /\ first = 1
  OBVIOUS
<1>4. c \in KeyCall /\ c.log = b.log /\ c.s.keys = b.s.keys
  <2>1. stage \in Spotify!Stages /\ first \in Nat \ {0}
    BY <1>3 DEF Spotify!Stages
  <2>2. c = [b EXCEPT !.s.conn = stage, !.s.nextSequence = first]
    BY <1>3
  <2> QED BY <1>2, <2>1, <2>2 DEF KeyCall, SessionRecord
<1>5. NoneSent(b.s.keys, b.log.due)
  <2>1. session.conn = "connecting"
    BY DEF Spotify!Connected
  <2> QED BY <1>2, <2>1 DEF KeysSound
<1>6. KeysSound(c)
  BY <1>2, <1>4, <1>5, NoneSentSound
<1>7. session' = c.s /\ log' = c.log
  BY <1>1, <1>3 DEF Spotify!Connected, Spotify!Now
<1> QED BY <1>6, <1>7, NowSound

LEMMA SocketLostKeeps == ASSUME SpotifyInv, Spotify!SocketLost PROVE SpotifyInv'
<1>1. PICK b : b = Spotify!DropConnection(Spotify!Faulty(Spotify!Both))
  OBVIOUS
<1>2. KeysSound(b)
  <2>1. PICK a : a = Spotify!Faulty(Spotify!Both)
    OBVIOUS
  <2>2. KeysSound(a)
    BY <2>1, BothSound, FaultySound
  <2> QED BY <1>1, <2>1, <2>2, DropConnectionSound
<1>3. PICK more : more = (~ Spotify!LoggedIn(session) /\ session.next < session.points)
  OBVIOUS
<1>4. PICK c : c = IF more THEN Spotify!ConnectNext(b) ELSE Spotify!ScheduleReconnect(b)
  OBVIOUS
<1>5. KeysSound(c)
  <2>1. c = Spotify!ConnectNext(b) \/ c = Spotify!ScheduleReconnect(b)
    BY <1>4
  <2> QED BY <1>2, <2>1, ConnectNextSound, ScheduleReconnectSound
<1>6. session' = c.s /\ log' = c.log
  BY <1>1, <1>3, <1>4 DEF Spotify!SocketLost, Spotify!Now
<1> QED BY <1>5, <1>6, NowSound

LEMMA WelcomeKeeps == ASSUME SpotifyInv, Spotify!Welcome PROVE SpotifyInv'
<1>1. PICK b : b = Spotify!Both
  OBVIOUS
<1>2. KeysSound(b) /\ b \in KeyCall /\ b.s = session
  BY <1>1, BothSound
<1>3. PICK c : c = [b EXCEPT !.s.conn = "ready", !.s.keepAlive = "ping"]
  OBVIOUS
<1>4. c \in KeyCall /\ c.log = b.log /\ c.s.keys = b.s.keys
  BY <1>2, <1>3 DEF KeyCall, SessionRecord, Spotify!Stages
<1>5. NoneSent(b.s.keys, b.log.due)
  <2>1. session.conn = "login"
    BY DEF Spotify!Welcome
  <2> QED BY <1>2, <2>1 DEF KeysSound
<1>6. KeysSound(c)
  BY <1>2, <1>4, <1>5, NoneSentSound
<1>7. PICK d : d = Spotify!SendQueuedKeys(c)
  OBVIOUS
<1>8. KeysSound(d)
  BY <1>6, <1>7, SendQueuedKeysSound
<1>9. session' = d.s /\ log' = d.log
  BY <1>1, <1>3, <1>7 DEF Spotify!Welcome, Spotify!Now
<1> QED BY <1>8, <1>9, NowSound

LEMMA TryAnotherApKeeps == ASSUME SpotifyInv, Spotify!TryAnotherAp PROVE SpotifyInv'
<1>1. PICK a : a = Spotify!Faulty(Spotify!Both)
  OBVIOUS
<1>2. KeysSound(a)
  BY <1>1, BothSound, FaultySound
<1>3. PICK b : b = Spotify!DropConnection(a)
  OBVIOUS
<1>4. KeysSound(b)
  BY <1>2, <1>3, DropConnectionSound
<1>5. PICK c : c = Spotify!ConnectNext(b)
  OBVIOUS
<1>6. KeysSound(c)
  BY <1>4, <1>5, ConnectNextSound
<1>7. session' = c.s /\ log' = c.log
  BY <1>1, <1>3, <1>5 DEF Spotify!TryAnotherAp, Spotify!Now
<1> QED BY <1>6, <1>7, NowSound

LEMMA LoginRefusedKeeps == ASSUME SpotifyInv, Spotify!LoginRefused PROVE SpotifyInv'
<1>1. PICK b : b = Spotify!Both
  OBVIOUS
<1>2. KeysSound(b) /\ b \in KeyCall
  BY <1>1, BothSound
<1>3. PICK c : c = [b EXCEPT !.s.active = FALSE]
  OBVIOUS
<1>4. c \in KeyCall /\ c.log = b.log /\ c.s.keys = b.s.keys /\ c.s.conn = b.s.conn
      /\ c.s.nextSequence = b.s.nextSequence
  BY <1>2, <1>3 DEF KeyCall, SessionRecord
<1>5. Quiet(b, c)
  BY <1>4 DEF Quiet
<1>6. KeysSound(c)
  BY <1>2, <1>5, QuietSound
<1>7. PICK d : d = Spotify!DropConnection(c)
  OBVIOUS
<1>8. KeysSound(d)
  BY <1>6, <1>7, DropConnectionSound
<1>9. PICK e : e = Spotify!FailAllKeys(d, "Failed")
  OBVIOUS
<1>10. KeysSound(e)
  BY <1>8, <1>9, FailAllKeysSound DEF Failures
<1>11. session' = e.s /\ log' = e.log
  BY <1>1, <1>3, <1>7, <1>9 DEF Spotify!LoginRefused, Spotify!Now
<1> QED BY <1>10, <1>11, NowSound

LEMMA FaultGivenUp ==
  ASSUME SpotifyInv, Spotify!Now(Spotify!GivenUp(Spotify!Faulty(Spotify!Both)))
  PROVE  SpotifyInv'
<1>1. PICK a : a = Spotify!Faulty(Spotify!Both)
  OBVIOUS
<1>2. KeysSound(a)
  BY <1>1, BothSound, FaultySound
<1>3. PICK c : c = Spotify!GivenUp(a)
  OBVIOUS
<1>4. KeysSound(c)
  BY <1>2, <1>3, GivenUpSound
<1>5. session' = c.s /\ log' = c.log
  BY <1>1, <1>3 DEF Spotify!Now
<1> QED BY <1>4, <1>5, NowSound

LEMMA AccessPointFailsKeeps == ASSUME SpotifyInv, Spotify!AccessPointFails PROVE SpotifyInv'
BY FaultGivenUp DEF Spotify!AccessPointFails

\* Ping, PongAck and the timer's pong only change what the keep-alive waits for.
LEMMA KeepAliveSet ==
  ASSUME SpotifyInv, NEW stage \in {"off", "ping", "pong", "ack"},
         Spotify!Now([Spotify!Both EXCEPT !.s.keepAlive = stage])
  PROVE  SpotifyInv'
<1>1. PICK b : b = Spotify!Both
  OBVIOUS
<1>2. KeysSound(b) /\ b \in KeyCall
  BY <1>1, BothSound
<1>3. PICK c : c = [b EXCEPT !.s.keepAlive = stage]
  OBVIOUS
<1>4. c \in KeyCall /\ c.log = b.log /\ c.s.keys = b.s.keys /\ c.s.conn = b.s.conn
      /\ c.s.nextSequence = b.s.nextSequence
  BY <1>2, <1>3 DEF KeyCall, SessionRecord
<1>5. Quiet(b, c)
  BY <1>4 DEF Quiet
<1>6. KeysSound(c)
  BY <1>2, <1>5, QuietSound
<1>7. session' = c.s /\ log' = c.log
  BY <1>1, <1>3 DEF Spotify!Now
<1> QED BY <1>6, <1>7, NowSound

LEMMA PingKeeps == ASSUME SpotifyInv, Spotify!Ping \/ Spotify!PongAck PROVE SpotifyInv'
<1>1. CASE Spotify!Ping
  BY <1>1, KeepAliveSet DEF Spotify!Ping
<1>2. CASE Spotify!PongAck
  BY <1>2, KeepAliveSet DEF Spotify!PongAck
<1> QED BY <1>1, <1>2

LEMMA KeepAliveTimerKeeps == ASSUME SpotifyInv, Spotify!KeepAliveTimer PROVE SpotifyInv'
<1>1. CASE session.keepAlive = "pong"
  BY <1>1, KeepAliveSet DEF Spotify!KeepAliveTimer
<1>2. CASE session.keepAlive # "pong"
  BY <1>2, FaultGivenUp DEF Spotify!KeepAliveTimer
<1> QED BY <1>1, <1>2

LEMMA ReconnectTimerKeeps == ASSUME SpotifyInv, Spotify!ReconnectTimer PROVE SpotifyInv'
<1>1. PICK b : b = Spotify!Both
  OBVIOUS
<1>2. KeysSound(b) /\ b \in KeyCall
  BY <1>1, BothSound
<1>3. PICK c : c = [b EXCEPT !.s.reconnect = FALSE]
  OBVIOUS
<1>4. c \in KeyCall /\ c.log = b.log /\ c.s.keys = b.s.keys /\ c.s.conn = b.s.conn
      /\ c.s.nextSequence = b.s.nextSequence
  BY <1>2, <1>3 DEF KeyCall, SessionRecord
<1>5. Quiet(b, c)
  BY <1>4 DEF Quiet
<1>6. KeysSound(c)
  BY <1>2, <1>5, QuietSound
<1>7. PICK d : d = Spotify!ConnectNext(c)
  OBVIOUS
<1>8. KeysSound(d)
  BY <1>6, <1>7, ConnectNextSound
<1>9. session' = d.s /\ log' = d.log
  BY <1>1, <1>3, <1>7 DEF Spotify!ReconnectTimer, Spotify!Now
<1> QED BY <1>8, <1>9, NowSound

\* A request the access point answers is not due any more; the rows stay.
LEMMA DueAnsweredSound ==
  ASSUME NEW b, KeysSound(b), NEW d \in b.log.due
  PROVE  /\ KeysSound([b EXCEPT !.log.due = @ \ {d}])
         /\ [b EXCEPT !.log.due = @ \ {d}].s = b.s
<1> DEFINE due == b.log.due \ {d}
           c == [b EXCEPT !.log.due = due]
<1>1. /\ b \in KeyCall /\ b.log.due \in SUBSET DueRecord /\ b.s.keys \in Seq(KeyRecord)
      /\ b.s.nextSequence \in Nat \ {0}
  BY KeyFields DEF KeysSound
<1>2. due \in SUBSET DueRecord /\ due \subseteq b.log.due
  BY <1>1
<1>3. [b EXCEPT !.log.due = @ \ {d}] = c
  BY <1>1 DEF KeyCall, LogRecord
<1> HIDE DEF due
<1>4. c \in KeyCall /\ c.s = b.s /\ c.log.due = due /\ c.log.answers = b.log.answers
  BY <1>1, <1>2 DEF KeyCall, LogRecord
<1> HIDE DEF c
<1>5. /\ Numbered(b.s.keys, b.s.nextSequence, due)
      /\ NoneSent(b.s.keys, b.log.due) => NoneSent(b.s.keys, due)
  <2>1. PICK keys, next, given :
          keys = b.s.keys /\ next = b.s.nextSequence /\ given = b.log.due
    OBVIOUS
  <2>2. Lighter(keys, keys)
    BY DEF Lighter
  <2>3. /\ keys \in Seq(KeyRecord) /\ next \in Nat \ {0} /\ due \subseteq given
        /\ Numbered(keys, next, given)
    BY <1>1, <1>2, <2>1 DEF KeysSound
  <2>4. Numbered(keys, next, due) /\ (NoneSent(keys, given) => NoneSent(keys, due))
    BY <2>2, <2>3, LighterNumbered
  <2> QED BY <2>1, <2>4
<1>6. KeysSound(c)
  BY <1>4, <1>5 DEF KeysSound
<1> QED BY <1>3, <1>4, <1>6

\* ApAudioKey: the row found by the number is that of the request itself.
LEMMA KeyArrivesKeeps ==
  ASSUME SpotifyInv, NEW d \in log.due, Spotify!KeyArrives(d) PROVE SpotifyInv'
<1>1. PICK a : a = Spotify!Both
  OBVIOUS
<1>2. KeysSound(a) /\ a.log = log /\ d \in a.log.due
  BY <1>1, BothSound
<1>3. PICK b : b = [a EXCEPT !.log.due = @ \ {d}]
  OBVIOUS
<1>4. KeysSound(b) /\ b.s = a.s
  BY <1>2, <1>3, DueAnsweredSound
<1> DEFINE found == Spotify!Sent(b, d.sequence)
           keys == b.s.keys
           least == CHOOSE i \in found : \A j \in found : i <= j
<1>5. /\ b \in KeyCall /\ keys \in Seq(KeyRecord) /\ DOMAIN keys = 1..Len(keys)
      /\ Len(keys) \in Nat
  BY <1>4, KeyFields DEF KeysSound
<1>6. Spotify!Now(IF found = {} THEN b ELSE Spotify!FinishKey(b, least, d.id))
  BY <1>1, <1>3 DEF Spotify!KeyArrives
<1>7. CASE found = {}
  <2>1. session' = b.s /\ log' = b.log
    BY <1>6, <1>7 DEF Spotify!Now
  <2> QED BY <1>4, <2>1, NowSound
<1>8. CASE found # {}
  <2>1. found \in SUBSET (1..Len(keys)) /\ \A i \in found : keys[i].sequence = d.sequence
    BY <1>5 DEF Spotify!Sent
  <2>2. least \in found
    <3>1. found \in SUBSET Nat /\ found # {}
      BY <1>8, <2>1
    <3> HIDE DEF found
    <3>2. \E i \in found : \A j \in found : i <= j
      BY <3>1, LeastOf
    <3> QED BY <3>2
  <2>3. PICK i : i = least
    OBVIOUS
  <2>4. i \in DOMAIN b.s.keys /\ b.s.keys[i].sequence = d.sequence
    BY <1>5, <2>1, <2>2, <2>3
  <2>5. b.s.keys[i].id = d.id
    <3>1. \A j \in DOMAIN a.s.keys : \A e \in a.log.due :
            a.s.keys[j].sequence = e.sequence => a.s.keys[j].id = e.id
      BY <1>2 DEF KeysSound, Numbered
    <3> QED BY <1>2, <1>4, <2>4, <3>1
  <2>6. d.id \in Requests
    BY <1>2, KeyFields DEF KeysSound, DueRecord
  <2>7. PICK c : c = Spotify!FinishKey(b, i, d.id)
    OBVIOUS
  <2>8. KeysSound(c)
    BY <1>4, <2>4, <2>5, <2>6, <2>7, FinishKeySound
  <2>9. session' = c.s /\ log' = c.log
    BY <1>6, <1>8, <2>3, <2>7 DEF Spotify!Now
  <2> QED BY <2>8, <2>9, NowSound
<1> QED BY <1>7, <1>8

LEMMA KeyRefusedKeeps ==
  ASSUME SpotifyInv, NEW d \in log.due, Spotify!KeyRefused(d) PROVE SpotifyInv'
<1>1. PICK a : a = Spotify!Both
  OBVIOUS
<1>2. KeysSound(a) /\ d \in a.log.due
  BY <1>1, BothSound
<1>3. PICK b : b = [a EXCEPT !.log.due = @ \ {d}]
  OBVIOUS
<1>4. KeysSound(b)
  BY <1>2, <1>3, DueAnsweredSound
<1>5. PICK failure \in {"Refused", "Failed"} :
        Spotify!Now(Spotify!RetryOrFail(b, d.sequence, failure))
  BY <1>1, <1>3 DEF Spotify!KeyRefused
<1>6. PICK c : c = Spotify!RetryOrFail(b, d.sequence, failure)
  OBVIOUS
<1>7. KeysSound(c)
  BY <1>4, <1>6, RetryOrFailSound
<1>8. session' = c.s /\ log' = c.log
  BY <1>5, <1>6 DEF Spotify!Now
<1> QED BY <1>7, <1>8, NowSound

\* A row's timer fires.
LEMMA FiredSound ==
  ASSUME NEW b, KeysSound(b), NEW i \in DOMAIN b.s.keys
  PROVE  /\ KeysSound([b EXCEPT !.s.keys[i].timer = "none"])
         /\ i \in DOMAIN [b EXCEPT !.s.keys[i].timer = "none"].s.keys
<1> DEFINE keys == b.s.keys
           row == [keys[i] EXCEPT !.timer = "none"]
           rows == [keys EXCEPT ![i] = row]
<1>1. b \in KeyCall /\ keys \in Seq(KeyRecord)
  BY KeyFields DEF KeysSound
<1>2. row \in KeyRecord /\ row.sequence = keys[i].sequence /\ row.id = keys[i].id
  BY <1>1, RowIs, TimedRow
<1>3. [b EXCEPT !.s.keys[i].timer = "none"] = WithKeys(b, rows)
  BY <1>1 DEF WithKeys, KeyCall, SessionRecord
<1> HIDE DEF row
<1>4. /\ rows \in Seq(KeyRecord) /\ DOMAIN rows = DOMAIN keys /\ rows[i] = row
      /\ \A j \in DOMAIN keys : j # i => rows[j] = keys[j]
  BY <1>1, <1>2
<1> HIDE DEF rows
<1>5. Lighter(b.s.keys, rows)
  BY <1>2, <1>4 DEF Lighter
<1>6. KeysSound(WithKeys(b, rows)) /\ WithKeys(b, rows).s.keys = rows
  BY <1>4, <1>5, WithKeysSound
<1> QED BY <1>3, <1>4, <1>6

LEMMA KeyTimerKeeps ==
  ASSUME SpotifyInv, NEW i \in DOMAIN session.keys, session.keys[i].timer # "none",
         Spotify!KeyTimer(i)
  PROVE  SpotifyInv'
<1>1. PICK a : a = Spotify!Both
  OBVIOUS
<1>2. KeysSound(a) /\ a.s = session /\ i \in DOMAIN a.s.keys /\ a.s.keys = session.keys
  BY <1>1, BothSound
<1>3. PICK b : b = [a EXCEPT !.s.keys[i].timer = "none"]
  OBVIOUS
<1>4. KeysSound(b) /\ i \in DOMAIN b.s.keys
  BY <1>2, <1>3, FiredSound
<1>5. session.keys[i].timer \in {"queued", "answer", "retry"}
  <2>1. session.keys \in Seq(KeyRecord)
    BY <1>2, KeyFields DEF KeysSound
  <2>2. session.keys[i] \in KeyRecord
    BY <2>1, RowIs
  <2> QED BY <2>2 DEF KeyRecord
<1>6. PICK timer, number : timer = session.keys[i].timer /\ number = session.keys[i].sequence
  OBVIOUS
<1>7. Spotify!Now(CASE timer = "answer" -> Spotify!RetryOrFail(b, number, "Failed")
                    [] timer = "queued" -> Spotify!FinishKey(b, i, "Network")
                    [] timer = "retry" -> Spotify!SendKey(b, i))
  BY <1>1, <1>3, <1>6 DEF Spotify!KeyTimer
<1>8. PICK c : /\ c \in {Spotify!RetryOrFail(b, number, "Failed"),
                         Spotify!FinishKey(b, i, "Network"), Spotify!SendKey(b, i)}
               /\ Spotify!Now(c)
  <2>1. CASE timer = "answer" BY <1>7, <2>1
  <2>2. CASE timer = "queued" BY <1>7, <2>2
  <2>3. CASE timer = "retry" BY <1>7, <2>3
  <2> QED BY <1>5, <1>6, <2>1, <2>2, <2>3
<1>9. KeysSound(c)
  <2>1. KeysSound(Spotify!RetryOrFail(b, number, "Failed"))
    BY <1>4, RetryOrFailSound
  <2>2. KeysSound(Spotify!FinishKey(b, i, "Network"))
    BY <1>4, FinishKeySound DEF Failures
  <2>3. KeysSound(Spotify!SendKey(b, i))
    BY <1>4, SendKeySound
  <2> QED BY <1>8, <2>1, <2>2, <2>3
<1>10. session' = c.s /\ log' = c.log
  BY <1>8 DEF Spotify!Now
<1> QED BY <1>9, <1>10, NowSound

LEMMA SpotifyBegins == Spotify!Init => SpotifyInv
<1> SUFFICES ASSUME Spotify!Init PROVE SpotifyInv
  OBVIOUS
<1>1. PICK s, l : s = Spotify!NewSession /\ l = Spotify!NewLog
  OBVIOUS
<1>2. /\ s \in SessionRecord /\ s.keys = <<>> /\ s.conn = "none"
  BY <1>1 DEF Spotify!NewSession, SessionRecord, Spotify!Stages
<1>3. /\ l \in LogRecord /\ l.due = {} /\ l.answers = [r \in Requests |-> "unasked"]
  BY <1>1 DEF Spotify!NewLog, LogRecord, Failures
<1>4. s.nextSequence \in Nat
  BY <1>2 DEF SessionRecord
<1>5. NoneSent(s.keys, l.due) /\ Numbered(s.keys, s.nextSequence, l.due)
  BY <1>2, <1>3, <1>4 DEF NoneSent, Numbered
<1>6. OwnKeys(l.answers)
  BY <1>3, PartsAssumption DEF OwnKeys
<1>7. PICK b : b = [s |-> s, log |-> l]
  OBVIOUS
<1>8. b \in KeyCall /\ b.s = s /\ b.log = l
  BY <1>2, <1>3, <1>7 DEF KeyCall
<1>9. KeysSound(b)
  BY <1>5, <1>6, <1>8 DEF KeysSound
<1>10. Spotify!Both = b
  BY <1>1, <1>7 DEF Spotify!Both, Spotify!Init
<1> QED BY <1>9, <1>10 DEF SpotifyInv

LEMMA SpotifyStays == SpotifyInv /\ [Spotify!Next]_(Spotify!vars) => SpotifyInv'
<1> SUFFICES ASSUME SpotifyInv, [Spotify!Next]_(Spotify!vars) PROVE SpotifyInv'
  OBVIOUS
<1>1. CASE UNCHANGED Spotify!vars
  BY <1>1, BothSound, NowSound DEF Spotify!vars
<1>2. CASE Spotify!Login BY <1>2, LoginKeeps
<1>3. CASE Spotify!Logout BY <1>3, LogoutKeeps
<1>4. CASE \E request \in Requests : Spotify!AudioKey(request) BY <1>4, AudioKeyKeeps
<1>5. CASE Spotify!Resolved BY <1>5, ResolvedKeeps
<1>6. CASE Spotify!ResolveTimesOut BY <1>6, ResolveTimesOutKeeps
<1>7. CASE Spotify!Connected BY <1>7, ConnectedKeeps
<1>8. CASE Spotify!SocketLost BY <1>8, SocketLostKeeps
<1>9. CASE Spotify!Welcome BY <1>9, WelcomeKeeps
<1>10. CASE Spotify!TryAnotherAp BY <1>10, TryAnotherApKeeps
<1>11. CASE Spotify!LoginRefused BY <1>11, LoginRefusedKeeps
<1>12. CASE Spotify!AccessPointFails BY <1>12, AccessPointFailsKeeps
<1>13. CASE Spotify!KeyAnswered
  BY <1>13, KeyArrivesKeeps, KeyRefusedKeeps DEF Spotify!KeyAnswered
<1>14. CASE Spotify!Ping \/ Spotify!PongAck BY <1>14, PingKeeps
<1>15. CASE Spotify!KeepAliveTimer BY <1>15, KeepAliveTimerKeeps
<1>16. CASE Spotify!ReconnectTimer BY <1>16, ReconnectTimerKeeps
<1>17. CASE Spotify!KeyTimers BY <1>17, KeyTimerKeeps DEF Spotify!KeyTimers
<1> QED
  BY <1>1, <1>2, <1>3, <1>4, <1>5, <1>6, <1>7, <1>8, <1>9, <1>10, <1>11, <1>12, <1>13,
     <1>14, <1>15, <1>16, <1>17 DEF Spotify!Next

LEMMA SpotifyMove == [Next]_vars => [Spotify!Next]_(Spotify!vars)
BY DEF Spotify!vars, Next, SpotifyStep, TelemetryStep, CoefficientsStep,
       SnapshotsStep, BlocksStep, vars, spotifyVars

\* However many requests wait, are sent again or are answered late, over whatever
\* connections: an answer is matched by its number alone, and a number of one
\* connection is never another request's (Session::sendKey(), ApAudioKey in
\* src/spotify/client/session.cpp).
THEOREM KeysAlwaysTheirOwn == Spec => []KeysAreTheirOwn
<1>1. Init => SpotifyInv
  BY SpotifyBegins DEF Init
<1>2. SpotifyInv => KeysAreTheirOwn
  BY BothSound DEF KeysSound, OwnKeys, KeysAreTheirOwn, Spotify!KeysAreTheirOwn
<1> QED BY <1>1, <1>2, SpotifyStays, SpotifyMove, PTL DEF Spec
=============================================================================
