----------------------------- MODULE PlayQueue -----------------------------
(***************************************************************************)
(* The play queue under any sequence of calls its owner, core/player.cpp,  *)
(* may make: the module Queue's operators as actions.  layer tells that a  *)
(* jam lies over the queue: the owner replaces the base below it, and only *)
(* then gives the queue items.                                             *)
(***************************************************************************)
EXTENDS Queue

CONSTANT Settings
\* What is tried, in each of the settings a run explores: sources that
\* setSource() may be given, lists of tracks for add() and a continuation's
\* reply, itemLists for a layer (sequences of [item, track]), lucks (what the
\* random generator draws: permutations of ordinals), the modes users change
\* ("shuffle", "algorithm", "repeat"), and lateAdds: an add() asked for before
\* the jam may come during it.  Bounds: seeds, versions of a jam's seeds; rows of
\* the queue when something is added; bases, queues and bases of one run; jams.

ASSUME SettingsAssumption ==
  \A s \in Settings :
    /\ s.sources \subseteq Source /\ s.trackLists \subseteq Seq(Tracks)
    /\ s.itemLists \subseteq ItemList
    /\ \A l \in s.lucks : Draws(l, s.rows) /\ \A x \in s.sources : Draws(l, Len(x.head))
    /\ {s.seeds, s.rows, s.bases, s.jams} \subseteq Nat

ASSUME NoItemAssumption == NoItem \notin Items

\* An ordinal is an int, and there are fewer than INT_MAX, which stands for no end.
ASSUME LucksFit == \A s \in Settings : \A l \in s.lucks : Len(l) < Endless

VARIABLES q, layer, jams, setting   \* jams: how many began
vars == <<q, layer, jams>>

Init == q = EmptyQueue /\ layer = FALSE /\ jams = 0 /\ setting \in Settings

Fresh(luck) == [q EXCEPT !.changed = FALSE, !.luck = luck]
Becomes(r) == q' = [r EXCEPT !.luck = <<>>]
RoomFor(n) == Len(q.entries) + n <= setting.rows

NewQueue ==
  /\ ~ layer /\ q.generation < setting.bases
  /\ \E s \in setting.sources, l \in setting.lucks : Becomes(Replace(Fresh(l), s))
  /\ UNCHANGED <<layer, jams>>

NewBaseUnderLayer ==
  /\ layer /\ q.generation < setting.bases
  /\ \E s \in setting.sources, l \in setting.lucks : Becomes(ReplaceBase(Fresh(l), s))
  /\ UNCHANGED <<layer, jams>>

\* takeNewBase(), setHistoryWaveFactory()
GetHistoryWave ==
  /\ ~ q.own /\ q.historyAllowed /\ ~ q.history
  /\ q' = [q EXCEPT !.history = TRUE]
  /\ UNCHANGED <<layer, jams>>

\* continuationReplied() drops what the seeds outdated before it appends.
Reply ==
  /\ q.generation > 0
  /\ \E tracks \in setting.trackLists, l \in setting.lucks, seeds \in 0..setting.seeds :
       /\ RoomFor(Len(tracks))
       /\ \/ q.own /\ seeds = 0
             /\ Becomes(AppendContinuation(Fresh(l), tracks, "own", 0))
          \/ q.history /\ ~ q.own /\ (FollowsSeeds => ~ IsStale(q, seeds))
             /\ seeds <= q.hint.version
             /\ Becomes(AppendContinuation(Fresh(l), tracks, "history", seeds))
  /\ UNCHANGED <<layer, jams>>

AddTracks ==
  /\ layer => setting.lateAdds
  /\ q.entries # <<>>
  /\ \E tracks \in setting.trackLists, placement \in {"Next", "End"}, l \in setting.lucks :
       RoomFor(Len(tracks)) /\ Becomes(Add(Fresh(l), tracks, placement))
  /\ UNCHANGED <<layer, jams>>

\* Under a layer the server removes its waiting items.
Removable == {i \in Rows(q) : ~ (layer /\ IsWaitingItem(q.entries[i]))}
RemoveSome ==
  /\ \E rows \in SUBSET Removable, l \in setting.lucks :
       rows # {} /\ Becomes(RemoveRows(Fresh(l), rows))
  /\ UNCHANGED <<layer, jams>>

BeginLayer ==
  /\ ~ layer /\ jams < setting.jams
  /\ layer' = TRUE /\ jams' = jams + 1 /\ UNCHANGED q

Hints == {h \in [version : 1..setting.seeds, seeds : BOOLEAN] : h.version >= q.hint.version}
SetLayerItems(items, hint) ==
  /\ layer /\ RoomFor(Len(items) - Cardinality(LayerRows(q)))
  /\ \E l \in setting.lucks : Becomes(SetItems(Fresh(l), items, hint))
  /\ UNCHANGED <<layer, jams>>

FinishLayer ==
  /\ layer /\ layer' = FALSE /\ UNCHANGED jams
  /\ \E l \in setting.lucks : Becomes(EndLayer(Fresh(l)))

\* playIndex() selects; next() and the end of a track select the next row.
SelectRow(row) ==
  /\ \E l \in setting.lucks : Becomes(Select(Fresh(l), row))
  /\ UNCHANGED <<layer, jams>>
Advance == NextRow(q) > 0 /\ SelectRow(NextRow(q))
Jump == \E row \in Rows(q) : SelectRow(row)

\* previous(): a jam's rules make it restart the track instead.
GoBack ==
  /\ ~ layer /\ q.entries # <<>>
  /\ \E l \in setting.lucks : Becomes(Select(StepBack(Fresh(l)), PreviousRow(q)))
  /\ UNCHANGED <<layer, jams>>

ChangeModes ==
  /\ \E l \in setting.lucks :
       \/ "shuffle" \in setting.modes /\ Becomes(SetShuffle(Fresh(l), ~ q.shuffle))
       \/ /\ "algorithm" \in setting.modes
          /\ \E a \in {"random", "shuffled"} \ {q.algorithm} :
               Becomes(SetShuffleAlgorithm(Fresh(l), a))
       \/ "repeat" \in setting.modes /\ Becomes(SetRepeat(Fresh(l), ~ q.repeat))
  /\ UNCHANGED <<layer, jams>>

Calls ==
  \/ NewQueue \/ NewBaseUnderLayer \/ GetHistoryWave \/ Reply \/ AddTracks \/ RemoveSome
  \/ BeginLayer \/ (\E items \in setting.itemLists, h \in Hints : SetLayerItems(items, h))
  \/ FinishLayer \/ Advance \/ Jump \/ GoBack \/ ChangeModes

Next == Calls /\ UNCHANGED setting

Spec == Init /\ [][Next]_<<vars, setting>>

-----------------------------------------------------------------------------
(* Properties *)

\* The navigator covers the head's entries and stands where the queue's mark
\* does, whatever rows came and went: next() and previous() turn its ordinals
\* into rows.
NavigatorAgrees ==
  LET n == CountOf(q, "Head") IN
  /\ Size(q.nav) = n /\ {q.nav.order[p] : p \in 1..n} = 1..n
  /\ q.nav.kind = IF ShuffleActive(q) THEN q.algorithm ELSE "sequential"
  /\ q.headMark > 0 => q.nav.position > 0 /\ q.nav.order[q.nav.position] = q.headMark
  /\ Roams(q.nav) => q.nav.choice \in (1..n) \ {q.headMark}

\* The waiting items stand together, right behind the current entry if there is
\* one: "so the playlist shows them where they play" (src/core/README.md:434).
WaitingTogether ==
  LET p == Pending(q) IN
  /\ p # {} => p = Least(p)..Greatest(p)
  /\ p # {} /\ HasCurrent(q) => Least(p) = q.playing + 1
  /\ HasCurrent(q) => ~ IsPending(Current(q))

\* remaining(), which decides when more is asked for, counts what next() gives:
\* nothing is left beside the current entry exactly when next() has no row.
RemainingAgreesWithNext ==
  Remaining(q) = (IF HasCurrent(q) THEN 1 ELSE 0) <=> NextRow(q) = 0

\* "next() gives it first in order and with shuffle alike; a removed row before
\* it keeps it" (src/core/README.md:179): until a head track plays, the start
\* track of a base under a layer stays the same and is what the head gives,
\* unless it is removed itself or a new queue or base comes.
StartTrack(r) == r.entries[IndexOf(r, "Head", r.headStart)].track
HasStart(r) == r.headStart \in 1..CountOf(r, "Head")
RemoveStart ==
  \E rows \in SUBSET Removable, l \in setting.lucks :
    IndexOf(q, "Head", q.headStart) \in rows /\ Becomes(RemoveRows(Fresh(l), rows))
StartTrackComesFirst ==
  [][/\ HasStart(q) /\ q'.headMark = 0
     /\ ~ (HasStart(q') /\ StartTrack(q') = StartTrack(q)
             /\ NavNext(q'.nav, FALSE) = q'.headStart)
     => NewQueue \/ NewBaseUnderLayer \/ RemoveStart]_vars

\* Each track that plays because the one before ended uses up exactly one of
\* what remained, so a pass over the queue ends and misses nothing.  Not with
\* repeat or random, which never end; outdated tracks of a jam may go as well.
AdvanceConsumesOne ==
  [][LET before == Remaining(q) - (IF HasCurrent(q) THEN 1 ELSE 0)
         consumed == IF Len(q'.entries) = Len(q.entries) THEN Remaining(q') = before
                                                         ELSE Remaining(q') <= before
     IN Remaining(q) # Endless /\ ~ consumed => ~ Advance]_vars

\* An edit of the queue never changes what is current: only a selection, a new
\* queue and the removal of the current row do.
Playing(r) == IF HasCurrent(r) THEN <<Current(r).track, Current(r).giver>> ELSE <<>>
RemoveCurrent ==
  \E rows \in SUBSET Removable, l \in setting.lucks :
    q.playing \in rows /\ Becomes(RemoveRows(Fresh(l), rows))
EditsKeepCurrent ==
  [][HasCurrent(q) /\ Playing(q') # Playing(q)
     => Jump \/ GoBack \/ NewQueue \/ RemoveCurrent]_vars

\* "A step back from a continuation's entry to an entry of another kind moves
\* the continuation's mark back before it, so Next returns to it"
\* (src/core/README.md:305).
NextReturnsAfterStepBack ==
  [][/\ HasCurrent(q) /\ Current(q).part = "Continuation"
     /\ HasCurrent(q') /\ Current(q').part # "Continuation"
     /\ Pending(q') = {} /\ (q'.inHead => NavNext(q'.nav, WrapsHead(q')) = 0)
     /\ ~ (NextRow(q') > 0 /\ q'.entries[NextRow(q')] = Current(q))
     => ~ GoBack]_vars

\* "setLayerItems(items, hint) makes the waiting items match items"
\* (src/core/README.md:463): afterwards the waiting items of the layer are the
\* ones it was given but for the current one, in their order, each once.
WaitingOf(r) == LET waiting == EntriesAt(r, {i \in Rows(r) : IsWaitingItem(r.entries[i])})
                IN [n \in 1..Len(waiting) |-> waiting[n].item]
LayerItemsMatch ==
  [][\A items \in setting.itemLists :
       LET wanted == Wanted(q, items) IN
       WaitingOf(q') # [n \in 1..Len(wanted) |-> wanted[n].item]
         => ~ \E h \in Hints : SetLayerItems(items, h)]_vars
=============================================================================
