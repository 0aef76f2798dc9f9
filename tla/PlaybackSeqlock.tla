-------------------------- MODULE PlaybackSeqlock ---------------------------
(***************************************************************************)
(* The sequence lock over which the device callback tells the UI what      *)
(* plays (PlaybackState in src/audio/blocks.h), one atomic access at a     *)
(* time.  The stores but the first are releases and the loads but the last *)
(* acquires, which keeps the accesses of each side in the order written.   *)
(* A snapshot is its number, in each of its fields.                        *)
(*                                                                         *)
(* The 32 bits of the sequence are left out: they come round only when     *)
(* 2^31 snapshots are published during one read().                         *)
(***************************************************************************)
EXTENDS Naturals

CONSTANT MaxSnapshots   \* bound: snapshots published

VARIABLES
  sequence, fields,
  stored, published,    \* the callback: its next store in publish(), snapshots published
  loading, before, got, \* the UI: its next load in read(), what it loaded
  since, result         \* snapshots published when read() last looked; what it
                        \* returned, and since when
vars == <<sequence, fields, stored, published, loading, before, got, since, result>>

Field == 1..4           \* generation, stream, frame, ended
All(n) == [f \in Field |-> n]

Init ==
  /\ sequence = 0 /\ fields = All(0) /\ stored = 0 /\ published = 0
  /\ loading = 0 /\ before = 0 /\ got = All(0)
  /\ since = 0 /\ result = [fields |-> All(0), since |-> 0]

-----------------------------------------------------------------------------
(* publish() *)

StoreOdd ==
  /\ stored = 0 /\ published < MaxSnapshots
  /\ sequence' = sequence + 1
  /\ stored' = 1
  /\ UNCHANGED <<fields, published, loading, before, got, since, result>>

StoreField ==
  /\ stored \in Field
  /\ fields' = [fields EXCEPT ![stored] = published + 1]
  /\ stored' = stored + 1
  /\ UNCHANGED <<sequence, published, loading, before, got, since, result>>

StoreEven ==
  /\ stored = 5
  /\ sequence' = sequence + 1
  /\ stored' = 0 /\ published' = published + 1
  /\ UNCHANGED <<fields, loading, before, got, since, result>>

-----------------------------------------------------------------------------
(* read() *)

LoadBefore ==
  /\ loading = 0
  /\ before' = sequence /\ since' = published
  /\ loading' = 1
  /\ UNCHANGED <<sequence, fields, stored, published, got, result>>

LoadField ==
  /\ loading \in Field
  /\ got' = [got EXCEPT ![loading] = fields[loading]]
  /\ loading' = loading + 1
  /\ UNCHANGED <<sequence, fields, stored, published, before, since, result>>

\* Mutant: a publish() in progress is not noticed.
UnchangedEvenIfOdd == sequence = before

Unchanged == before % 2 = 0 /\ sequence = before

\* read() returns, or goes round.
LoadAfter ==
  /\ loading = 5
  /\ result' = IF Unchanged THEN [fields |-> got, since |-> since] ELSE result
  /\ loading' = 0
  /\ UNCHANGED <<sequence, fields, stored, published, before, got, since>>

Next == StoreOdd \/ StoreField \/ StoreEven \/ LoadBefore \/ LoadField \/ LoadAfter

Spec == Init /\ [][Next]_vars

-----------------------------------------------------------------------------

\* read() returns a snapshot that was published as one, however many publish()
\* calls it overlaps, and one not older than the last published when it looked.
SnapshotsAreWhole ==
  \E n \in result.since..published : result.fields = All(n)
=============================================================================
