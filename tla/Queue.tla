------------------------------- MODULE Queue -------------------------------
(***************************************************************************)
(* The play queue (core/queue.cpp) as operators on a record q: what each   *)
(* public method makes of it.  Rows and ordinals count from 1; 0 stands    *)
(* for the code's -1 and for an empty optional.                            *)
(*                                                                         *)
(* A track is its key.  The giver of a continuation's entry is "own" (the  *)
(* source's continuation) or "history" (the vibe from history; the code's  *)
(* fromHistory).  The revision counter is the bit changed, which the user  *)
(* of the queue clears when it takes the revision.  Titles, who added an   *)
(* item, and the list of started tracks are left out.                      *)
(***************************************************************************)
EXTENDS TrackNavigator

CONSTANTS
  Tracks, Items,  \* the tracks there are, and the ids of a jam's items
  Unavailable,    \* tracks that cannot be played: every way in drops them
  NoItem,         \* the empty item id
  FollowsSeeds    \* the vibe from history plays a jam's seeds

Parts == {"Head", "Continuation", "Item", "Other"}

\* seeds: the version of the jam's seeds that gave it, 0 for none.
Entry(track, part, giver, seeds, item, pending) ==
  [track |-> track, part |-> part, giver |-> giver, seeds |-> seeds,
   item |-> item, pending |-> pending]

NoHint == [version |-> 0, seeds |-> FALSE]   \* seeds: the hint has some
EmptyHead == NavReset("sequential", 0, 0, <<>>)

EmptyQueue ==
  [entries |-> <<>>, playing |-> 0, own |-> FALSE, history |-> FALSE,
   historyGave |-> FALSE, withVibe |-> TRUE, historyAllowed |-> TRUE,
   stalled |-> FALSE, inHead |-> FALSE, headMark |-> 0, headStart |-> 0,
   contMark |-> 0, hint |-> NoHint, nav |-> EmptyHead,
   algorithm |-> "shuffled", shuffle |-> FALSE, repeat |-> FALSE,
   generation |-> 0, asking |-> FALSE, changed |-> FALSE, luck |-> <<>>]

\* What setSource() is given: head tracks and the one to start with, its own
\* continuation and what that gave already, and the vibe from history.
NoSource == [head |-> <<>>, start |-> 0, own |-> FALSE, given |-> <<>>,
             historyAllowed |-> TRUE, history |-> FALSE]

\* What setSource() and setLayerItems() may be given.
Source == [head : Seq(Tracks), start : Nat, own : BOOLEAN, given : Seq(Tracks),
           historyAllowed : BOOLEAN, history : BOOLEAN]
ItemList == Seq([item : Items, track : Tracks])
Hint == [version : Nat, seeds : BOOLEAN]

-----------------------------------------------------------------------------
(* Reading a queue *)

Rows(q) == 1..Len(q.entries)
RowsOf(q, part) == {i \in Rows(q) : q.entries[i].part = part}
CountOf(q, part) == Cardinality(RowsOf(q, part))
OrdinalOf(q, row) == Cardinality({i \in RowsOf(q, q.entries[row].part) : i <= row})
IndexOf(q, part, ordinal) ==
  IF ordinal \in 1..CountOf(q, part)
    THEN CHOOSE i \in RowsOf(q, part) : OrdinalOf(q, i) = ordinal
    ELSE 0

HasCurrent(q) == q.playing \in Rows(q)
Current(q) == q.entries[q.playing]
IsPending(entry) == entry.part = "Item" /\ entry.pending
IsWaitingItem(entry) == IsPending(entry) /\ entry.item # NoItem
Pending(q) == {i \in Rows(q) : IsPending(q.entries[i])}
Least(S) == CHOOSE x \in S : \A y \in S : x <= y
Greatest(S) == CHOOSE x \in S : \A y \in S : x >= y

EntriesAt(q, rows) == Picked(q.entries, rows)

ShuffleActive(q) == q.shuffle /\ ~ q.own
WrapsHead(q) == q.repeat /\ ~ q.own

\* next(): the waiting items, then the head, then the continuation.
NextRow(q) ==
  LET head == IF q.inHead THEN NavNext(q.nav, WrapsHead(q)) ELSE 0 IN
  IF Pending(q) # {} THEN Least(Pending(q))
  ELSE IF head # 0 THEN IndexOf(q, "Head", head)
  ELSE IndexOf(q, "Continuation", q.contMark + 1)

PreviousRow(q) ==
  LET above == IF q.playing > 1 THEN q.playing - 1 ELSE 1 IN
  IF HasCurrent(q) /\ Current(q).part = "Head"
    THEN IndexOf(q, "Head", NavPrevious(q.nav, q.repeat))
  ELSE IF above # q.playing /\ above \in Rows(q) /\ q.entries[above].part = "Head"
            /\ q.headMark > 0
    THEN IndexOf(q, "Head", q.headMark)
  ELSE above

FirstToPlay(q) == IF q.playing > 0 THEN q.playing
                  ELSE IF NextRow(q) > 0 THEN NextRow(q) ELSE 1

\* Mutant: the waiting items are not counted.
RemainingWithoutWaiting(q) ==
  LET head == IF q.inHead THEN NavRemaining(q.nav, WrapsHead(q)) ELSE 0
      left == CountOf(q, "Continuation") - q.contMark
  IN IF head = Endless THEN Endless
     ELSE (IF HasCurrent(q) THEN 1 ELSE 0) + head + (IF left > 0 THEN left ELSE 0)

\* remaining(): what is left in play order, the current entry included.
Remaining(q) ==
  LET head == IF q.inHead THEN NavRemaining(q.nav, WrapsHead(q)) ELSE 0
      left == CountOf(q, "Continuation") - q.contMark
  IN IF head = Endless THEN Endless
     ELSE (IF HasCurrent(q) THEN 1 ELSE 0) + Cardinality(Pending(q)) + head
            + (IF left > 0 THEN left ELSE 0)

\* isStale(): a reply of the vibe from history that the jam's seeds outdated.
IsStale(q, seeds) ==
  IF q.hint = NoHint THEN seeds # 0 ELSE q.hint.seeds /\ seeds # q.hint.version

-----------------------------------------------------------------------------
(* What the public methods are made of *)

EntriesOf(tracks, part, giver, seeds, pending) ==
  LET available == Picked(tracks, {i \in DOMAIN tracks : tracks[i] \notin Unavailable})
  IN [i \in 1..Len(available) |-> Entry(available[i], part, giver, seeds, NoItem, pending)]

\* StartOf(): the start track's place among the available ones.
StartOf(source) ==
  IF source.start \in 1..Len(source.head) /\ source.head[source.start] \notin Unavailable
    THEN Cardinality({i \in 1..source.start : source.head[i] \notin Unavailable})
    ELSE 1

SourceEntries(source) ==
  EntriesOf(source.head, "Head", "none", 0, FALSE)
    \o EntriesOf(source.given, "Continuation", IF source.own THEN "own" ELSE "none", 0, FALSE)

\* Mutant: the rows move under the cursor.
InsertRowsKeepsCursor(q, at, entries) ==
  [q EXCEPT !.entries = Inserted(@, at, entries),
            !.changed = TRUE]

InsertRows(q, at, entries) ==
  [q EXCEPT !.entries = Inserted(@, at, entries),
            !.playing = IF at <= @ THEN @ + Len(entries) ELSE @,
            !.changed = TRUE]

ResetNavigator(q) ==
  LET kind == IF ShuffleActive(q) THEN q.algorithm ELSE "sequential"
      size == CountOf(q, "Head")
  IN [q EXCEPT !.nav = IF q.headMark = 0 /\ q.headStart > 0
                         THEN NavResetBefore(kind, size, q.headStart, q.luck)
                         ELSE NavReset(kind, size, q.headMark, q.luck)]

\* Mutant: the navigator does not hear of the selection.
MarkCurrentForgetsNavigator(q) ==
  IF ~ HasCurrent(q) THEN q
  ELSE LET ordinal == OrdinalOf(q, q.playing) IN
    CASE Current(q).part = "Head" ->
           [q EXCEPT !.inHead = TRUE, !.headMark = ordinal, !.headStart = 0]
      [] Current(q).part = "Continuation" ->
           [q EXCEPT !.inHead = FALSE, !.contMark = ordinal]
      [] Current(q).part = "Item" -> [q EXCEPT !.entries[q.playing].pending = FALSE]
      [] Current(q).part = "Other" -> q

MarkCurrent(q) ==
  IF ~ HasCurrent(q) THEN q
  ELSE LET ordinal == OrdinalOf(q, q.playing) IN
    CASE Current(q).part = "Head" ->
           [q EXCEPT !.inHead = TRUE, !.headMark = ordinal, !.headStart = 0,
                     !.nav = NavSelect(@, ordinal, q.luck)]
      [] Current(q).part = "Continuation" ->
           [q EXCEPT !.inHead = FALSE, !.contMark = ordinal]
      [] Current(q).part = "Item" -> [q EXCEPT !.entries[q.playing].pending = FALSE]
      [] Current(q).part = "Other" -> q

\* newBase(), renew() included.
NewBase(q) ==
  [q EXCEPT !.inHead = CountOf(q, "Head") > 0, !.headMark = 0, !.headStart = 0,
            !.contMark = 0, !.history = FALSE, !.historyGave = FALSE, !.stalled = FALSE,
            !.generation = @ + 1, !.asking = FALSE]

\* Mutant: they stay where they are.
GatherNothing(q) == q

\* The waiting items move right behind the current entry.
GatherPending(q) ==
  LET pending == Pending(q)
      playing == q.playing - Cardinality({i \in pending : i < q.playing})
  IN IF pending = (q.playing + 1)..(q.playing + Cardinality(pending)) THEN q
     ELSE InsertRows([q EXCEPT !.entries = EntriesAt(q, Rows(q) \ pending), !.playing = playing],
                     playing + 1, EntriesAt(q, pending))

-----------------------------------------------------------------------------
(* remove() *)

\* How a mark on an ordinal of a part moves when rows go.
MarkAfter(q, rows, part, mark) ==
  mark - Cardinality({i \in rows \cap RowsOf(q, part) : OrdinalOf(q, i) <= mark})

\* Mutant: the start track's follower becomes the start.
StartAfterKept(q, rows) == q.headStart

\* The start track is the same one; its follower when it goes itself.
StartAfter(q, rows) ==
  q.headStart - Cardinality({i \in rows \cap RowsOf(q, "Head") : OrdinalOf(q, i) < q.headStart})

\* The cursor after remove(): on the entry that followed a removed current one,
\* or on the last; on none when that entry is a waiting item.
CursorAfter(q, rows, entries) ==
  LET moved == q.playing - Cardinality({i \in rows : i < q.playing})
      follower == IF moved > Len(entries) THEN Len(entries) ELSE moved
  IN IF entries = <<>> THEN 0
     ELSE IF q.playing \notin rows THEN moved
     ELSE IF IsPending(entries[follower]) THEN 0 ELSE follower

\* entries: those of the rows that stay.
WithoutRows(q, rows, entries) ==
  [q EXCEPT !.entries = entries,
            !.playing = CursorAfter(q, rows, entries),
            !.headMark = MarkAfter(q, rows, "Head", @),
            !.contMark = MarkAfter(q, rows, "Continuation", @),
            !.headStart = StartAfter(q, rows),
            !.changed = @ \/ rows # {}]

\* A start track that is gone is none.
KnownStart(q) == [q EXCEPT !.headStart = IF @ > CountOf(q, "Head") THEN 0 ELSE @]
When(cond, new, old) == IF cond THEN new ELSE old

RemoveRows(q, given) ==
  LET rows == given \cap Rows(q)
      moved == WithoutRows(q, rows, EntriesAt(q, Rows(q) \ rows))
      marked(m) == When(q.playing \in rows, MarkCurrent(m), m)
      reset(m) == When(rows \cap RowsOf(q, "Head") # {}, ResetNavigator(m), m)
  IN reset(KnownStart(marked(moved)))

\* The tracks of the vibe from history that outdated seeds gave go, unless one
\* plays or an item waits.
DropStaleWave(q) ==
  IF \/ ~ q.hint.seeds
     \/ HasCurrent(q) /\ Current(q).giver = "history"
     \/ Pending(q) # {}
    THEN q
    ELSE RemoveRows(q, {i \in RowsOf(q, "Continuation") :
                          /\ q.entries[i].giver = "history" /\ FollowsSeeds
                          /\ q.entries[i].seeds # q.hint.version
                          /\ OrdinalOf(q, i) > q.contMark})

-----------------------------------------------------------------------------
(* The public methods *)

Replace(q, source) ==
  LET entries == SourceEntries(source)
      based == NewBase([q EXCEPT !.own = source.own,
                                 !.historyAllowed = source.historyAllowed,
                                 !.entries = entries,
                                 !.playing = IF entries = <<>> THEN 0 ELSE StartOf(source),
                                 !.changed = TRUE])
  IN ResetNavigator(MarkCurrent([based EXCEPT !.history = source.history]))

\* Under a layer: the current entry and the layer's waiting items stay.
ReplaceBase(q, source) ==
  LET current == IF ~ HasCurrent(q) THEN <<>>
                 ELSE <<[Current(q) EXCEPT !.part = IF @ = "Item" THEN @ ELSE "Other"]>>
      kept == current \o EntriesAt(q, {i \in Rows(q) : IsWaitingItem(q.entries[i])})
      based == NewBase([q EXCEPT !.own = source.own,
                                 !.historyAllowed = source.historyAllowed,
                                 !.entries = kept \o SourceEntries(source),
                                 !.playing = IF HasCurrent(q) THEN 1 ELSE 0,
                                 !.changed = TRUE])
  IN ResetNavigator([based EXCEPT !.headStart = IF source.start > 0 THEN StartOf(source) ELSE 0,
                                  !.history = source.history])

\* The result is q itself when nothing was added.
AppendContinuation(q, tracks, giver, seeds) ==
  LET added == EntriesOf(tracks, "Continuation", giver, seeds, FALSE)
      grown == [q EXCEPT !.entries = @ \o added, !.changed = TRUE,
                         !.historyGave = @ \/ giver = "history"]
  IN IF added = <<>> THEN q
     ELSE IF q.playing = 0 /\ q.entries = <<>> THEN MarkCurrent([grown EXCEPT !.playing = 1])
     ELSE grown

\* End, while the base is in its head: behind the last head track and the items
\* waiting there.
AddToHead(q, entries) ==
  LET last == Greatest(RowsOf(q, "Head"))
      behind == {i \in (last + 1)..(Len(q.entries) + 1) :
                   i \notin Pending(q)}
  IN [InsertRows(q, Least(behind), entries)
        EXCEPT !.nav = NavAppend(@, Len(entries), q.luck)]

Add(q, tracks, placement) ==
  LET pending == Pending(q)
      toHead == placement = "End" /\ q.inHead /\ CountOf(q, "Head") > 0
      part == IF toHead THEN "Head" ELSE "Item"
      entries == EntriesOf(tracks, part, "none", 0, ~ toHead)
      at == IF pending = {} THEN q.playing + 1
            ELSE IF placement = "Next" THEN Least(pending) ELSE Greatest(pending) + 1
  IN IF entries = <<>> THEN q
     ELSE IF toHead THEN AddToHead(q, entries)
     ELSE InsertRows(q, at, entries)

\* The items a layer wants waiting: never the current one.
Wanted(q, items) ==
  Picked(items, {n \in DOMAIN items : ~ (/\ HasCurrent(q) /\ Current(q).part = "Item"
                                         /\ Current(q).item = items[n].item)})

\* Mutant: the items come in behind whatever waits.
ItemsStartLast(q) == IF Pending(q) = {} THEN q.playing + 1 ELSE Greatest(Pending(q)) + 1

ItemsStart(q) == IF Pending(q) = {} THEN q.playing + 1 ELSE Least(Pending(q))

\* Rows of the waiting items that are the layer's.
LayerRows(q) ==
  LET start == ItemsStart(q) IN
  {i \in Rows(q) : i >= start /\ \A j \in start..i : IsWaitingItem(q.entries[j])}

\* setItems(): the common prefix of what waits and what is wanted stays.
SetItems(q, items, hint) ==
  LET wanted == Wanted(q, items)
      start == ItemsStart(q)
      rows == LayerRows(q)
      same == {i \in rows : LET n == i - start + 1 IN
                 n <= Len(wanted) /\ \A k \in 1..n : q.entries[start + k - 1].item = wanted[k].item}
      prefix == Cardinality(same)
      added == [n \in 1..(Len(wanted) - prefix) |->
                  LET w == wanted[prefix + n] IN Entry(w.track, "Item", "none", 0, w.item, TRUE)]
      cut == [q EXCEPT !.entries = SubSeq(@, 1, start + prefix - 1)
                                     \o added
                                     \o SubSeq(@, start + Cardinality(rows), Len(@)),
                       !.hint = hint,
                       !.stalled = @ /\ ~ (hint.seeds /\ hint.version # q.hint.version),
                       !.changed = @ \/ rows # same \/ added # <<>>]
  IN DropStaleWave(cut)

EndLayer(q) ==
  LET stale == {i \in RowsOf(q, "Continuation") :
                  q.entries[i].seeds # 0 /\ OrdinalOf(q, i) > q.contMark}
      bare == [q EXCEPT !.hint = NoHint,
                        !.entries = [i \in Rows(q) |-> [q.entries[i] EXCEPT !.item = NoItem]],
                        !.changed = TRUE]
  IN RemoveRows(bare, stale)

\* select(): the row it returns is playing of the result.
Select(q, row) ==
  IF row \notin Rows(q) THEN q
  ELSE DropStaleWave(GatherPending(MarkCurrent(
         [q EXCEPT !.playing = row, !.changed = @ \/ IsPending(q.entries[row])])))

\* Mutant: the mark stays on the entry the step back leaves.
StepBackKeepsMark(q) == q

\* stepBack(): its target is PreviousRow(q).
StepBack(q) ==
  LET target == PreviousRow(q) IN
  IF /\ HasCurrent(q) /\ Current(q).part = "Continuation"
     /\ target > 0 /\ q.entries[target].part # "Continuation"
    THEN [q EXCEPT !.contMark = OrdinalOf(q, q.playing) - 1]
    ELSE q

SetShuffle(q, on) == ResetNavigator([q EXCEPT !.shuffle = on])
SetShuffleAlgorithm(q, algorithm) ==
  LET set == [q EXCEPT !.algorithm = algorithm]
  IN IF ShuffleActive(q) THEN ResetNavigator(set) ELSE set
SetRepeat(q, on) == [q EXCEPT !.repeat = on]
=============================================================================
