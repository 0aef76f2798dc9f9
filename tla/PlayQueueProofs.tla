-------------------------- MODULE PlayQueueProofs --------------------------
(***************************************************************************)
(* Theorems about PlayQueue, for any tracks, items, settings and calls.    *)
(***************************************************************************)
EXTENDS PlayQueue, QueueProofs

-----------------------------------------------------------------------------
(* What is current, and what waits behind it *)

RowsFine(r) == QueueOk(r) /\ Together(r) /\ MarkAgrees(r)
RowsInv == RowsFine(q) /\ setting \in Settings

LEMMA SettingIs ==
  ASSUME setting \in Settings
  PROVE  /\ setting.sources \subseteq Source /\ setting.trackLists \subseteq Seq(Tracks)
         /\ setting.itemLists \subseteq ItemList /\ setting.lucks \subseteq Seq(Nat)
         /\ setting.seeds \in Nat /\ setting.rows \in Nat
<1>1. \A l \in setting.lucks : Draws(l, setting.rows)
  BY SettingsAssumption
<1>2. setting.lucks \subseteq Seq(Nat)
  BY <1>1 DEF Draws
<1> QED BY <1>2, SettingsAssumption

\* What the luck and the revision counter change of a queue is seen by nobody.
LEMMA BitsAlike ==
  ASSUME NEW x, QueueOk(x), NEW r, NEW v \in BOOLEAN, NEW luck,
         r = [x EXCEPT !.changed = v, !.luck = luck]
  PROVE  /\ QueueOk(r) /\ (Together(x) => Together(r)) /\ (MarkAgrees(x) => MarkAgrees(r))
         /\ Playing(r) = Playing(x) /\ r.entries = x.entries /\ r.playing = x.playing
         /\ PreviousRow(r) = PreviousRow(x) /\ Rows(r) = Rows(x) /\ r.hint = x.hint
<1>1. /\ QueueFields \subseteq DOMAIN r /\ r.entries = x.entries /\ r.playing = x.playing
      /\ r.contMark = x.contMark /\ r.hint = x.hint /\ r.changed = v /\ r.nav = x.nav
      /\ r.repeat = x.repeat /\ r.headMark = x.headMark
  BY DEF QueueOk, QueueFields
<1>2. QueueOk(r)
  BY <1>1 DEF QueueOk
<1>3. Rows(r) = Rows(x) /\ (HasCurrent(r) <=> HasCurrent(x)) /\ Current(r) = Current(x)
  BY <1>1 DEF Rows, HasCurrent, Current
<1>4. Pending(r) = Pending(x)
  BY <1>1, <1>3 DEF Pending
<1>5. Together(x) => Together(r)
  BY <1>1, <1>3, <1>4 DEF Together
<1>6. Playing(r) = Playing(x)
  BY <1>3 DEF Playing
<1>7. \A row : OrdinalOf(r, row) = OrdinalOf(x, row)
  BY <1>1, <1>3 DEF OrdinalOf, RowsOf
<1>8. MarkAgrees(x) => MarkAgrees(r)
  <2>1. OrdinalOf(r, x.playing) = OrdinalOf(x, x.playing)
    BY <1>7
  <2> QED BY <1>1, <1>3, <2>1, Zenon DEF MarkAgrees
<1>9. ASSUME NEW part, NEW ordinal PROVE IndexOf(r, part, ordinal) = IndexOf(x, part, ordinal)
  <2>1. RowsOf(r, part) = RowsOf(x, part)
    BY <1>1, <1>3 DEF RowsOf
  <2>2. CountOf(r, part) = CountOf(x, part)
    BY <2>1 DEF CountOf
  <2>3. CASE ordinal \in 1..CountOf(x, part)
    <3>1. IndexOf(x, part, ordinal) \in RowsOf(r, part)
          /\ OrdinalOf(r, IndexOf(x, part, ordinal)) = ordinal
      BY <1>7, <2>1, <2>3, IndexIs
    <3> QED BY <1>2, <3>1, OrdinalTells
  <2>4. CASE ordinal \notin 1..CountOf(x, part)
    BY <2>2, <2>4 DEF IndexOf
  <2> QED BY <2>3, <2>4
<1>10. PreviousRow(r) = PreviousRow(x)
  BY <1>1, <1>3, <1>9 DEF PreviousRow
<1> QED BY <1>1, <1>2, <1>3, <1>5, <1>6, <1>8, <1>10

\* A call that keeps what is current.
Calm(r) == RowsFine(r) /\ (HasCurrent(q) => Playing(r) = Playing(q))

LEMMA FreshIs ==
  ASSUME RowsFine(q), NEW luck
  PROVE  /\ RowsFine(Fresh(luck)) /\ Playing(Fresh(luck)) = Playing(q)
         /\ Fresh(luck).entries = q.entries /\ Fresh(luck).playing = q.playing
         /\ PreviousRow(Fresh(luck)) = PreviousRow(q) /\ Rows(Fresh(luck)) = Rows(q)
         /\ Fresh(luck).hint = q.hint
<1>1. QueueOk(q)
  BY DEF RowsFine
<1>2. FALSE \in BOOLEAN
  OBVIOUS
<1> QED BY <1>1, <1>2, BitsAlike DEF RowsFine, Fresh

LEMMA BecomesIs ==
  ASSUME NEW r, Becomes(r), RowsFine(r)
  PROVE  RowsFine(q') /\ Playing(q') = Playing(r)
<1>1. QueueOk(r) /\ r.changed \in BOOLEAN
  BY DEF RowsFine, QueueOk
<1>2. PICK v : v = r.changed
  OBVIOUS
<1>3. q' = [r EXCEPT !.changed = v, !.luck = <<>>]
  BY <1>1, <1>2 DEF Becomes, QueueOk
<1> QED BY <1>1, <1>2, <1>3, BitsAlike DEF RowsFine

LEMMA KeepsIsCalm ==
  ASSUME RowsFine(q), NEW luck, NEW r, Keeps(Fresh(luck), r), Becomes(r)
  PROVE  RowsFine(q') /\ (HasCurrent(q) => Playing(q') = Playing(q))
<1>1. RowsFine(Fresh(luck)) /\ Playing(Fresh(luck)) = Playing(q)
  BY FreshIs
<1>2. RowsFine(r) /\ KeepsCurrent(Fresh(luck), r)
  BY <1>1 DEF Keeps, RowsFine
<1>3. HasCurrent(Fresh(luck)) => Playing(r) = Playing(Fresh(luck))
  BY <1>2 DEF KeepsCurrent, Playing
<1>4. HasCurrent(q) => HasCurrent(Fresh(luck))
  BY FreshIs DEF HasCurrent
<1> QED BY <1>1, <1>2, <1>3, <1>4, BecomesIs

-----------------------------------------------------------------------------
(* One step of each action *)

\* A selection, also the one that a step back makes first.
LEMMA SelectIsFine ==
  ASSUME NEW x, RowsFine(x), NEW row, NEW r, r = Select(x, row), Becomes(r)
  PROVE  RowsFine(q')
<1>1. CASE row \in Rows(x)
  <2>1. QueueOk(r) /\ Together(r) /\ MarkAgrees(r)
    BY <1>1, SelectIs, MarkSelected DEF RowsFine
  <2> QED BY <2>1, BecomesIs DEF RowsFine
<1>2. CASE row \notin Rows(x)
  BY <1>2, BecomesIs DEF Select
<1> QED BY <1>1, <1>2

LEMMA NewQueueStep ==
  ASSUME RowsInv, NewQueue
  PROVE  RowsFine(q')
<1>1. PICK s \in setting.sources, l \in setting.lucks : Becomes(Replace(Fresh(l), s))
  BY DEF NewQueue
<1>2. RowsFine(Fresh(l)) /\ s \in Source
  BY FreshIs, SettingIs DEF RowsInv
<1>3. PICK r : r = Replace(Fresh(l), s)
  OBVIOUS
<1>4. RowsFine(r)
  BY <1>2, <1>3, ReplaceIs DEF RowsFine
<1> QED BY <1>1, <1>3, <1>4, BecomesIs

LEMMA NewBaseStep ==
  ASSUME RowsInv, NewBaseUnderLayer
  PROVE  RowsFine(q') /\ (HasCurrent(q) => Playing(q') = Playing(q))
<1>1. PICK s \in setting.sources, l \in setting.lucks : Becomes(ReplaceBase(Fresh(l), s))
  BY DEF NewBaseUnderLayer
<1>2. QueueOk(Fresh(l)) /\ s \in Source
  BY FreshIs, SettingIs DEF RowsInv, RowsFine
<1>3. PICK r : r = ReplaceBase(Fresh(l), s)
  OBVIOUS
<1>4. Keeps(Fresh(l), r)
  BY <1>2, <1>3, ReplaceBaseKeeps
<1> QED BY <1>1, <1>3, <1>4, KeepsIsCalm DEF RowsInv

LEMMA HistoryStep ==
  ASSUME RowsInv, GetHistoryWave
  PROVE  RowsFine(q') /\ (HasCurrent(q) => Playing(q') = Playing(q))
<1>1. QueueOk(q) /\ Together(q) /\ MarkAgrees(q)
  BY DEF RowsInv, RowsFine
<1>2. SameRows(q, q')
  BY <1>1 DEF GetHistoryWave, SameRows, QueueOk, QueueFields
<1>3. QueueOk(q') /\ Together(q') /\ MarkAgrees(q')
      /\ (HasCurrent(q) => HasCurrent(q') /\ Current(q') = Current(q))
  <2>1. PICK x : x = q'
    OBVIOUS
  <2> QED BY <1>1, <1>2, <2>1, SameRowsOk, MarkSame
<1> QED BY <1>3 DEF RowsFine, Playing

LEMMA ReplyStep ==
  ASSUME RowsInv, Reply
  PROVE  RowsFine(q') /\ (HasCurrent(q) => Playing(q') = Playing(q))
<1>1. PICK tracks \in setting.trackLists, l \in setting.lucks, seeds \in 0..setting.seeds :
        \/ seeds = 0 /\ Becomes(AppendContinuation(Fresh(l), tracks, "own", 0))
        \/ Becomes(AppendContinuation(Fresh(l), tracks, "history", seeds))
  BY DEF Reply
<1>2. QueueOk(Fresh(l)) /\ tracks \in Seq(Tracks) /\ seeds \in Nat
  BY FreshIs, SettingIs DEF RowsInv, RowsFine
<1>3. \E giver \in Givers : Becomes(AppendContinuation(Fresh(l), tracks, giver, seeds))
  BY <1>1 DEF Givers
<1>4. PICK giver, r :
        giver \in Givers /\ r = AppendContinuation(Fresh(l), tracks, giver, seeds) /\ Becomes(r)
  BY <1>3
<1>5. Keeps(Fresh(l), r)
  BY <1>2, <1>4, AppendKeeps DEF Edit
<1> QED BY <1>4, <1>5, KeepsIsCalm DEF RowsInv

LEMMA AddStep ==
  ASSUME RowsInv, AddTracks
  PROVE  RowsFine(q') /\ (HasCurrent(q) => Playing(q') = Playing(q))
<1>1. PICK tracks \in setting.trackLists, placement \in {"Next", "End"}, l \in setting.lucks :
        Becomes(Add(Fresh(l), tracks, placement))
  BY DEF AddTracks
<1>2. QueueOk(Fresh(l)) /\ tracks \in Seq(Tracks)
  BY FreshIs, SettingIs DEF RowsInv, RowsFine
<1>3. PICK r : r = Add(Fresh(l), tracks, placement)
  OBVIOUS
<1>4. Keeps(Fresh(l), r)
  BY <1>2, <1>3, AddKeeps DEF Edit
<1> QED BY <1>1, <1>3, <1>4, KeepsIsCalm DEF RowsInv

LEMMA RemoveStep ==
  ASSUME RowsInv, RemoveSome
  PROVE  RowsFine(q') /\ (HasCurrent(q) /\ ~ RemoveCurrent => Playing(q') = Playing(q))
<1>1. PICK rows \in SUBSET Removable, l \in setting.lucks : Becomes(RemoveRows(Fresh(l), rows))
  BY DEF RemoveSome
<1>2. RowsFine(Fresh(l)) /\ QueueOk(Fresh(l)) /\ Fresh(l).playing = q.playing
  BY FreshIs DEF RowsInv, RowsFine
<1>3. PICK r : r = RemoveRows(Fresh(l), rows)
  OBVIOUS
<1>4. RowsFine(r) /\ (q.playing \notin rows => Keeps(Fresh(l), r))
  BY <1>2, <1>3, RemoveKeeps DEF Edit, RowsFine
<1>5. RowsFine(q')
  BY <1>1, <1>3, <1>4, BecomesIs
<1>6. CASE q.playing \in rows
  <2>1. RemoveCurrent
    BY <1>1, <1>6 DEF RemoveCurrent
  <2> QED BY <1>5, <2>1
<1>7. CASE q.playing \notin rows
  BY <1>1, <1>3, <1>4, <1>7, KeepsIsCalm DEF RowsInv
<1> QED BY <1>6, <1>7

LEMMA SetItemsStep ==
  ASSUME RowsInv, NEW items \in setting.itemLists, NEW h \in Hints, SetLayerItems(items, h)
  PROVE  RowsFine(q') /\ (HasCurrent(q) => Playing(q') = Playing(q))
<1>1. PICK l \in setting.lucks : Becomes(SetItems(Fresh(l), items, h))
  BY DEF SetLayerItems
<1>2. QueueOk(Fresh(l)) /\ Together(Fresh(l)) /\ items \in ItemList
  BY FreshIs, SettingIs DEF RowsInv, RowsFine
<1>3. h \in Hint
  BY SettingIs DEF Hints, Hint, RowsInv
<1>4. PICK r : r = SetItems(Fresh(l), items, h)
  OBVIOUS
<1>5. Keeps(Fresh(l), r)
  BY <1>2, <1>3, <1>4, SetItemsKeeps DEF Edit
<1> QED BY <1>1, <1>4, <1>5, KeepsIsCalm DEF RowsInv

LEMMA FinishStep ==
  ASSUME RowsInv, FinishLayer
  PROVE  RowsFine(q') /\ (HasCurrent(q) => Playing(q') = Playing(q))
<1>1. PICK l \in setting.lucks : Becomes(EndLayer(Fresh(l)))
  BY DEF FinishLayer
<1>2. QueueOk(Fresh(l))
  BY FreshIs DEF RowsInv, RowsFine
<1>3. PICK r : r = EndLayer(Fresh(l))
  OBVIOUS
<1>4. Keeps(Fresh(l), r)
  BY <1>2, <1>3, EndLayerKeeps
<1> QED BY <1>1, <1>3, <1>4, KeepsIsCalm DEF RowsInv

LEMMA JumpStep ==
  ASSUME RowsInv, Advance \/ Jump
  PROVE  RowsFine(q') /\ Jump
<1>1. Jump
  <2>1. NextRow(q) \in Nat /\ (NextRow(q) # 0 => NextRow(q) \in Rows(q))
    BY NextIsRow DEF RowsInv, RowsFine
  <2>2. Advance => Jump
    BY <2>1 DEF Advance, Jump
  <2> QED BY <2>2
<1>2. PICK row \in Rows(q), l \in setting.lucks : Becomes(Select(Fresh(l), row))
  BY <1>1 DEF Jump, SelectRow
<1>3. RowsFine(Fresh(l))
  BY FreshIs DEF RowsInv
<1> QED BY <1>1, <1>2, <1>3, SelectIsFine

LEMMA GoBackStep ==
  ASSUME RowsInv, GoBack
  PROVE  RowsFine(q')
<1>1. PICK l \in setting.lucks : Becomes(Select(StepBack(Fresh(l)), PreviousRow(q)))
  BY DEF GoBack
<1>2. RowsFine(Fresh(l)) /\ QueueOk(Fresh(l)) /\ Fresh(l).entries = q.entries
      /\ PreviousRow(Fresh(l)) = PreviousRow(q)
  BY FreshIs DEF RowsInv, RowsFine
<1>3. q.entries # <<>> /\ QueueOk(q)
  BY DEF GoBack, RowsInv, RowsFine
<1>4. PICK x, row : x = StepBack(Fresh(l)) /\ row = PreviousRow(q)
  OBVIOUS
<1>5. QueueOk(x) /\ x.entries = q.entries /\ (row = 0 => x = Fresh(l))
  BY <1>2, <1>4, StepBackIs
<1>6. PICK r : r = Select(x, row)
  OBVIOUS
<1>7. CASE row = 0
  BY <1>1, <1>2, <1>4, <1>5, <1>6, <1>7, SelectIsFine
<1>8. CASE row # 0
  <2>1. row \in Rows(q) /\ Rows(x) = Rows(q)
    BY <1>3, <1>4, <1>5, <1>8, PreviousIsRow DEF Rows
  <2>2. RowsFine(r)
    BY <1>5, <1>6, <2>1, SelectIs, MarkSelected DEF RowsFine
  <2> QED BY <1>1, <1>4, <1>6, <2>2, BecomesIs
<1> QED BY <1>7, <1>8

LEMMA ModesStep ==
  ASSUME RowsInv, ChangeModes
  PROVE  RowsFine(q') /\ (HasCurrent(q) => Playing(q') = Playing(q))
<1>1. PICK l \in setting.lucks :
        \/ Becomes(SetShuffle(Fresh(l), ~ q.shuffle))
        \/ \E a \in {"random", "shuffled"} \ {q.algorithm} : Becomes(SetShuffleAlgorithm(Fresh(l), a))
        \/ Becomes(SetRepeat(Fresh(l), ~ q.repeat))
  BY DEF ChangeModes
<1>2. QueueOk(Fresh(l))
  BY FreshIs DEF RowsInv, RowsFine
<1>3. (~ q.shuffle) \in BOOLEAN /\ (~ q.repeat) \in BOOLEAN
  BY Zenon
<1>4. \E r : Keeps(Fresh(l), r) /\ Becomes(r)
  BY <1>1, <1>2, <1>3, ModesKeep
<1> QED BY <1>4, KeepsIsCalm DEF RowsInv

\* What the actions do to the rows, and which of them change what is current.
LEMMA RowsStep ==
  ASSUME RowsInv, [Next]_<<vars, setting>>
  PROVE  /\ RowsInv'
         /\ HasCurrent(q) /\ Playing(q') # Playing(q) => Jump \/ GoBack \/ NewQueue \/ RemoveCurrent
<1> DEFINE Goal == /\ RowsFine(q')
                   /\ \/ HasCurrent(q) => Playing(q') = Playing(q)
                      \/ Jump \/ GoBack \/ NewQueue \/ RemoveCurrent
<1>1. setting' = setting
  BY DEF Next
<1>2. Goal
  <2>1. CASE q' = q
    BY <2>1 DEF RowsInv
  <2>2. CASE Calls
    <3>1. CASE NewQueue
      BY <3>1, NewQueueStep
    <3>2. CASE NewBaseUnderLayer
      BY <3>2, NewBaseStep
    <3>3. CASE GetHistoryWave
      BY <3>3, HistoryStep
    <3>4. CASE Reply
      BY <3>4, ReplyStep
    <3>5. CASE AddTracks
      BY <3>5, AddStep
    <3>6. CASE RemoveSome
      BY <3>6, RemoveStep
    <3>7. CASE BeginLayer
      BY <2>1, <3>7 DEF BeginLayer
    <3>8. CASE \E items \in setting.itemLists, h \in Hints : SetLayerItems(items, h)
      BY <3>8, SetItemsStep
    <3>9. CASE FinishLayer
      BY <3>9, FinishStep
    <3>10. CASE Advance \/ Jump
      BY <3>10, JumpStep
    <3>11. CASE GoBack
      BY <3>11, GoBackStep
    <3>12. CASE ChangeModes
      BY <3>12, ModesStep
    <3> QED BY <2>2, <3>1, <3>2, <3>3, <3>4, <3>5, <3>6, <3>7, <3>8, <3>9, <3>10, <3>11, <3>12
            DEF Calls
  <2> QED BY <2>1, <2>2 DEF Next, vars
<1>3. RowsInv'
  BY <1>1, <1>2 DEF RowsInv
<1> QED BY <1>2, <1>3

LEMMA RowsStart ==
  ASSUME Init
  PROVE  RowsInv
<1>1. QueueOk(q)
  <2>1. q.changed \in BOOLEAN
    <3>1. q.changed = FALSE
      BY DEF Init, EmptyQueue
    <3> QED BY <3>1, Zenon
  <2>2. q.hint \in Hint
    BY DEF Init, EmptyQueue, NoHint, Hint
  <2>3. QueueFields \subseteq DOMAIN q /\ q.entries \in Entries /\ q.playing \in 0..Len(q.entries)
        /\ q.contMark \in Int
    BY DEF Init, EmptyQueue, QueueFields, Entries
  <2> QED BY <2>1, <2>2, <2>3 DEF QueueOk
<1>2. Rows(q) = {}
  BY DEF Init, EmptyQueue, Rows
<1>3. ~ HasCurrent(q) /\ Pending(q) = {}
  BY <1>2 DEF HasCurrent, Pending
<1>4. Run({}, 1, 0)
  BY DEF Run
<1>5. Together(q)
  BY <1>3, <1>4 DEF Together
<1> QED BY <1>1, <1>3, <1>5 DEF RowsInv, RowsFine, MarkAgrees, Init

LEMMA RowsAlways == Spec => []RowsInv
<1>1. RowsInv /\ [Next]_<<vars, setting>> => RowsInv'
  BY RowsStep
<1> QED BY <1>1, RowsStart, PTL DEF Spec

\* The waiting items stand together, right behind the current entry, whatever
\* is added, removed, selected, stepped back to or laid over the queue
\* (core/queue.cpp, gatherPending() and every insertion).
THEOREM WaitingStayTogether == Spec => []WaitingTogether
<1>1. RowsInv => WaitingTogether
  <2> SUFFICES ASSUME RowsInv PROVE WaitingTogether
    OBVIOUS
  <2>1. QueueOk(q) /\ Together(q)
    BY DEF RowsInv, RowsFine
  <2>2. PICK a, b : Run(Pending(q), a, b) /\ (a <= b /\ HasCurrent(q) => a = q.playing + 1)
    BY <2>1 DEF Together
  <2>3. Pending(q) # {} => a <= b
    BY <2>2 DEF Run
  <2>4. Pending(q) # {} => Least(Pending(q)) = a /\ Greatest(Pending(q)) = b
    BY <2>2, <2>3, RunEnds
  <2>5. Pending(q) = a..b
    BY <2>2 DEF Run
  <2> QED BY <2>1, <2>2, <2>3, <2>4, <2>5 DEF WaitingTogether, Together
<1> QED BY <1>1, RowsAlways, PTL

\* No edit of the queue changes the track that is current or who gave it: only
\* a selection, a step back, a new queue and the removal of that row do.
THEOREM OnlySelectionsChangeCurrent == Spec => EditsKeepCurrent
<1>1. RowsInv /\ [Next]_<<vars, setting>>
      => [HasCurrent(q) /\ Playing(q') # Playing(q)
            => Jump \/ GoBack \/ NewQueue \/ RemoveCurrent]_vars
  BY RowsStep
<1> QED BY <1>1, RowsAlways, PTL DEF Spec, EditsKeepCurrent

-----------------------------------------------------------------------------
(* The navigator follows the rows *)

\* The generator draws from as many ordinals as the head has.
LucksReach(r) == \A l \in setting.lucks : Draws(l, HeadSize(r))
NavReady == NavFine(q) /\ LucksReach(q)
NavStep == NavFine(q') /\ LucksReach(q')

\* The start track stays first, unless it or its queue goes.
StartKept == \A t : StartIs(q, t) => Started(q', t)
StartStep ==
  StartReady(q) => /\ StartReady(q')
                   /\ StartKept \/ NewQueue \/ NewBaseUnderLayer \/ RemoveStart

\* A call sees the queue as it is, and what the generator will draw.
LEMMA LuckIs ==
  ASSUME RowsInv, NavReady, NEW l \in setting.lucks, NEW r, r = Fresh(l)
  PROVE  QueueOk(r) /\ NavFine(r) /\ Lucky(r) /\ HeadSize(r) = HeadSize(q) /\ r.luck = l
         /\ r.entries = q.entries
<1>1. QueueOk(q)
  BY DEF RowsInv, RowsFine
<1>2. QueueOk(r) /\ r.entries = q.entries
  BY FreshIs DEF RowsInv, RowsFine
<1>3. /\ r.headMark = q.headMark /\ r.headStart = q.headStart /\ r.contMark = q.contMark
      /\ r.algorithm = q.algorithm /\ r.own = q.own /\ r.shuffle = q.shuffle /\ r.nav = q.nav
      /\ r.luck = l
  BY <1>1 DEF Fresh, QueueOk, QueueFields
<1>4. HeadSize(r) = HeadSize(q) /\ KindOf(r) = KindOf(q)
  BY <1>2, <1>3 DEF HeadSize, KindOf, ShuffleActive
<1>5. NavFine(r)
  BY <1>3, <1>4 DEF NavReady, NavFine, MarksFine, MarksNear
<1>6. Lucky(r)
  BY <1>3, <1>4 DEF NavReady, LucksReach, Lucky
<1> QED BY <1>2, <1>3, <1>4, <1>5, <1>6

\* What the call leaves is what the queue becomes.
LEMMA BecomesNav ==
  ASSUME RowsFine(q'), NEW r, Becomes(r), NavFine(r)
  PROVE  NavFine(q') /\ HeadSize(q') = HeadSize(r) /\ HeadSize(r) \in Nat
<1>1. QueueOk(q') /\ QueueFields \subseteq DOMAIN q'
  BY DEF RowsFine, QueueOk
<1>2. PICK x : x = q'
  OBVIOUS
<1>3. x = [r EXCEPT !.luck = <<>>] /\ QueueFields \subseteq DOMAIN x /\ DOMAIN x = DOMAIN r
  BY <1>1, <1>2 DEF Becomes
<1>4. /\ x.headMark = r.headMark /\ x.headStart = r.headStart /\ x.contMark = r.contMark
      /\ x.algorithm = r.algorithm /\ x.own = r.own /\ x.shuffle = r.shuffle /\ x.nav = r.nav
      /\ x.entries = r.entries
  BY <1>3 DEF QueueFields
<1>5. HeadSize(x) = HeadSize(r) /\ KindOf(x) = KindOf(r)
  BY <1>4 DEF HeadSize, KindOf, ShuffleActive
<1>6. NavFine(x)
  BY <1>4, <1>5 DEF NavFine, MarksFine, MarksNear
<1>7. HeadSize(x) \in Nat
  BY <1>1, <1>2, HeadSizeIs
<1> QED BY <1>2, <1>5, <1>6, <1>7

\* Neither touches the start.
LEMMA LuckStart ==
  ASSUME RowsInv, NEW l, NEW r, r = Fresh(l)
  PROVE  /\ StartReady(q) => StartReady(r)
         /\ r.headMark = q.headMark /\ r.headStart = q.headStart /\ r.entries = q.entries
<1>1. QueueOk(q)
  BY DEF RowsInv, RowsFine
<1>2. /\ r.headMark = q.headMark /\ r.headStart = q.headStart /\ r.nav = q.nav
      /\ r.entries = q.entries
  BY <1>1 DEF Fresh, QueueOk, QueueFields
<1>3. StartReady(q) => StartReady(r)
  BY <1>2, StartSame DEF HeadSize, HeadStays
<1> QED BY <1>2, <1>3

LEMMA BecomesStart ==
  ASSUME RowsFine(q'), NEW r, Becomes(r)
  PROVE  StartStays(r, q') /\ (StartReady(r) => StartReady(q'))
<1>1. PICK x : x = q'
  OBVIOUS
<1>2. x = [r EXCEPT !.luck = <<>>] /\ QueueFields \subseteq DOMAIN x /\ DOMAIN x = DOMAIN r
  BY <1>1 DEF Becomes, RowsFine, QueueOk
<1>3. /\ x.headMark = r.headMark /\ x.headStart = r.headStart /\ x.nav = r.nav
      /\ x.entries = r.entries
  BY <1>2 DEF QueueFields
<1>4. StartStays(r, x) /\ (StartReady(r) => StartReady(x))
  BY <1>3, StartSame DEF HeadSize, HeadStays
<1> QED BY <1>1, <1>4

\* So a call that keeps it is a step that does.
LEMMA StartThrough ==
  ASSUME RowsInv, RowsFine(q'), NEW l, NEW x, x = Fresh(l), NEW r, StartHolds(x, r), Becomes(r)
  PROVE  StartStep
<1> SUFFICES ASSUME StartReady(q) PROVE StartReady(q') /\ StartKept
  BY DEF StartStep
<1>1. StartReady(x) /\ x.headStart = q.headStart /\ x.entries = q.entries
  BY LuckStart
<1>2. StartStays(x, r) /\ StartReady(r)
  BY <1>1 DEF StartHolds
<1>3. StartStays(r, q') /\ StartReady(q')
  BY <1>2, BecomesStart
<1>4. ASSUME NEW t, StartIs(q, t) PROVE Started(q', t)
  <2>1. Started(x, t)
    BY <1>1, <1>4 DEF Started, StartIs
  <2> QED BY <1>2, <1>3, <2>1 DEF StartStays
<1> QED BY <1>3, <1>4 DEF StartKept

\* A call that adds nothing to the head.
LEMMA NoMoreHeads ==
  ASSUME RowsInv, NavReady, RowsFine(q'), NEW r, Becomes(r), NavFine(r),
         HeadSize(r) <= HeadSize(q)
  PROVE  NavStep
<1>1. PICK a \in Nat, b \in Nat : a = HeadSize(q) /\ b = HeadSize(r)
  BY BecomesNav, HeadSizeIs DEF RowsInv, RowsFine
<1>2. NavFine(q') /\ HeadSize(q') = b
  BY <1>1, BecomesNav
<1>3. b \in 0..a
  BY <1>1
<1>4. ASSUME NEW l \in setting.lucks PROVE Draws(l, b)
  <2>1. Draws(l, a)
    BY <1>1 DEF NavReady, LucksReach
  <2> QED BY <1>3, <2>1, DrawsFewer
<1>5. LucksReach(q')
  BY <1>2, <1>4 DEF LucksReach
<1> QED BY <1>2, <1>5 DEF NavStep

\* A call that may: the generator reaches as far as it lets the head grow.
LEMMA MoreHeads ==
  ASSUME RowsFine(q'), NEW r, Becomes(r), NavFine(r), NEW a \in Nat, HeadSize(r) <= a,
         \A l \in setting.lucks : Draws(l, a)
  PROVE  NavStep
<1>1. PICK b \in Nat : b = HeadSize(r)
  BY BecomesNav
<1>2. NavFine(q') /\ HeadSize(q') = b
  BY <1>1, BecomesNav
<1>3. b \in 0..a
  BY <1>1
<1>4. ASSUME NEW l \in setting.lucks PROVE Draws(l, b)
  BY <1>3, DrawsFewer
<1>5. LucksReach(q')
  BY <1>2, <1>4 DEF LucksReach
<1> QED BY <1>2, <1>5 DEF NavStep

\* The generator reaches as far as every source's head.
LEMMA SourceLucks ==
  ASSUME setting \in Settings, NEW s \in setting.sources
  PROVE  /\ s \in Source /\ Len(s.head) \in Nat
         /\ \A l \in setting.lucks : Draws(l, Len(s.head))
<1>1. s \in Source /\ \A l \in setting.lucks : Draws(l, Len(s.head))
  BY SettingsAssumption
<1> QED BY <1>1 DEF Source

\* setSource()
LEMMA NewQueueNav ==
  ASSUME RowsInv, NavReady, RowsFine(q'), NewQueue
  PROVE  NavStep /\ StartStep
<1>1. PICK s \in setting.sources, l \in setting.lucks : Becomes(Replace(Fresh(l), s))
  BY DEF NewQueue
<1>2. PICK x, r : x = Fresh(l) /\ r = Replace(x, s)
  OBVIOUS
<1>3. QueueOk(x) /\ NavFine(x) /\ x.luck = l
  BY <1>2, LuckIs
<1>4. s \in Source /\ Len(s.head) \in Nat /\ \A k \in setting.lucks : Draws(k, Len(s.head))
  BY SourceLucks DEF RowsInv
<1>5. NavFine(r) /\ HeadSize(r) <= Len(s.head) /\ StartReady(r)
  BY <1>2, <1>3, <1>4, ReplaceNav
<1>6. StartStep
  BY <1>1, <1>2, <1>5, BecomesStart DEF StartStep
<1> QED BY <1>1, <1>2, <1>4, <1>5, <1>6, MoreHeads

\* setSource() under a layer
LEMMA NewBaseNav ==
  ASSUME RowsInv, NavReady, RowsFine(q'), NewBaseUnderLayer
  PROVE  NavStep /\ StartStep
<1>1. PICK s \in setting.sources, l \in setting.lucks : Becomes(ReplaceBase(Fresh(l), s))
  BY DEF NewBaseUnderLayer
<1>2. PICK x, r : x = Fresh(l) /\ r = ReplaceBase(x, s)
  OBVIOUS
<1>3. QueueOk(x) /\ NavFine(x) /\ x.luck = l
  BY <1>2, LuckIs
<1>4. s \in Source /\ Len(s.head) \in Nat /\ \A k \in setting.lucks : Draws(k, Len(s.head))
  BY SourceLucks DEF RowsInv
<1>5. NavFine(r) /\ HeadSize(r) <= Len(s.head) /\ StartReady(r)
  BY <1>2, <1>3, <1>4, ReplaceBaseNav
<1>6. StartStep
  BY <1>1, <1>2, <1>5, BecomesStart DEF StartStep
<1> QED BY <1>1, <1>2, <1>4, <1>5, <1>6, MoreHeads

\* the answer to the request for the vibe from history
LEMMA HistoryNav ==
  ASSUME RowsInv, NavReady, GetHistoryWave
  PROVE  NavStep /\ StartStep
<1>1. QueueOk(q)
  BY DEF RowsInv, RowsFine
<1>2. PICK x : x = q'
  OBVIOUS
<1>3. NavAlike(q, x)
  BY <1>1, <1>2 DEF GetHistoryWave, NavAlike, HeadSize, QueueOk, QueueFields
<1>4. NavFine(x) /\ HeadSize(x) = HeadSize(q)
  BY <1>3, NavSame DEF NavReady, NavAlike
<1>5. StartStays(q, x) /\ (StartReady(q) => StartReady(x))
  <2>1. x.headMark = q.headMark /\ x.headStart = q.headStart /\ x.nav = q.nav /\ x.entries = q.entries
    BY <1>1, <1>2 DEF GetHistoryWave, QueueOk, QueueFields
  <2> QED BY <2>1, StartSame DEF HeadSize, HeadStays
<1>6. StartStep
  BY <1>2, <1>5 DEF StartStep, StartKept, StartStays, Started
<1> QED BY <1>2, <1>4, <1>6 DEF NavReady, LucksReach, NavStep

\* appendContinuation()
LEMMA ReplyNav ==
  ASSUME RowsInv, NavReady, RowsFine(q'), Reply
  PROVE  NavStep /\ StartStep
<1>1. PICK tracks \in setting.trackLists, l \in setting.lucks, seeds \in 0..setting.seeds :
        \/ seeds = 0 /\ Becomes(AppendContinuation(Fresh(l), tracks, "own", 0))
        \/ Becomes(AppendContinuation(Fresh(l), tracks, "history", seeds))
  BY DEF Reply
<1>2. tracks \in Seq(Tracks) /\ seeds \in Nat
  BY SettingIs DEF RowsInv
<1>3. \E giver \in Givers : Becomes(AppendContinuation(Fresh(l), tracks, giver, seeds))
  BY <1>1 DEF Givers
<1>4. PICK giver \in Givers : Becomes(AppendContinuation(Fresh(l), tracks, giver, seeds))
  BY <1>3
<1>5. PICK x, r : x = Fresh(l) /\ r = AppendContinuation(x, tracks, giver, seeds)
  OBVIOUS
<1>6. QueueOk(x) /\ NavFine(x) /\ Lucky(x) /\ HeadSize(x) = HeadSize(q)
  BY <1>5, LuckIs
<1>7. NavFine(r) /\ HeadSize(r) = HeadSize(q) /\ StartHolds(x, r)
  BY <1>2, <1>5, <1>6, AppendNav
<1>8. HeadSize(q) \in Nat
  BY HeadSizeIs DEF RowsInv, RowsFine
<1>9. StartStep
  BY <1>4, <1>5, <1>7, StartThrough
<1> QED BY <1>4, <1>5, <1>7, <1>8, <1>9, NoMoreHeads

\* add()
LEMMA AddStepNav ==
  ASSUME RowsInv, NavReady, RowsFine(q'), AddTracks
  PROVE  NavStep /\ StartStep
<1>1. PICK tracks \in setting.trackLists, placement \in {"Next", "End"}, l \in setting.lucks :
        RoomFor(Len(tracks)) /\ Becomes(Add(Fresh(l), tracks, placement))
  BY DEF AddTracks
<1>2. /\ tracks \in Seq(Tracks) /\ setting.rows \in Nat
      /\ \A k \in setting.lucks : Draws(k, setting.rows)
  BY SettingIs, SettingsAssumption DEF RowsInv
<1>3. PICK x, r : x = Fresh(l) /\ r = Add(x, tracks, placement)
  OBVIOUS
<1>4. QueueOk(x) /\ NavFine(x) /\ HeadSize(x) = HeadSize(q) /\ x.luck = l
  BY <1>3, LuckIs
<1>5. PICK a \in Nat, b \in Nat, t \in Nat, n \in Nat :
        a = setting.rows /\ b = HeadSize(q) + Len(tracks) /\ t = Len(tracks) /\ n = HeadSize(q)
  <2>1. HeadSize(q) \in Nat /\ Len(tracks) \in Nat
    BY <1>2, HeadSizeIs DEF RowsInv, RowsFine
  <2> QED BY <1>2, <2>1
<1>6. b \in 0..a /\ b = n + t
  <2>1. HeadSize(q) <= Len(q.entries) /\ Len(q.entries) \in Nat
    BY HeadSizeIs, SomeRows DEF RowsInv, RowsFine
  <2> QED BY <1>1, <1>5, <2>1 DEF RoomFor
<1>7. \A k \in setting.lucks : Draws(k, b)
  <2>1. ASSUME NEW k \in setting.lucks PROVE Draws(k, b)
    <3>1. Draws(k, a)
      BY <1>2, <1>5
    <3> QED BY <1>6, <3>1, DrawsFewer
  <2> QED BY <2>1
<1>8. NavFine(r) /\ HeadSize(r) <= b /\ StartHolds(x, r)
  <2>1. Draws(x.luck, HeadSize(x) + Len(tracks))
    BY <1>4, <1>5, <1>7
  <2>2. NavFine(r) /\ HeadSize(r) <= HeadSize(x) + Len(tracks) /\ StartHolds(x, r)
    BY <1>2, <1>3, <1>4, <2>1, AddNav
  <2> QED BY <1>4, <1>5, <2>2
<1>9. StartStep
  BY <1>1, <1>3, <1>8, StartThrough
<1> QED BY <1>1, <1>3, <1>7, <1>8, <1>9, MoreHeads

\* remove()
LEMMA RemoveNav ==
  ASSUME RowsInv, NavReady, RowsFine(q'), RemoveSome
  PROVE  NavStep /\ StartStep
<1>1. PICK rows \in SUBSET Removable, l \in setting.lucks : Becomes(RemoveRows(Fresh(l), rows))
  BY DEF RemoveSome
<1>2. PICK x, r : x = Fresh(l) /\ r = RemoveRows(x, rows)
  OBVIOUS
<1>3. QueueOk(x) /\ NavFine(x) /\ Lucky(x) /\ HeadSize(x) = HeadSize(q)
  BY <1>2, LuckIs
<1>4. NavFine(r) /\ HeadSize(r) <= HeadSize(x)
  BY <1>2, <1>3, RemoveRowsNav
<1>5. ASSUME StartReady(q) PROVE StartReady(q') /\ (StartKept \/ RemoveStart)
  <2>1. PICK C : C = HeadRows(x.entries)
    OBVIOUS
  <2>2. StartReady(x) /\ x.headStart = q.headStart /\ x.entries = q.entries
    BY <1>2, <1>5, LuckStart
  <2>3. /\ StartReady(r)
        /\ \A i \in C : Count(C, i) = x.headStart /\ i \notin rows => Started(r, x.entries[i].track)
    BY <1>2, <1>3, <2>1, <2>2, RemoveRowsStart
  <2>4. StartReady(q') /\ StartStays(r, q')
    BY <1>1, <1>2, <2>3, BecomesStart
  <2>5. ASSUME ~ RemoveStart, NEW t, StartIs(q, t) PROVE Started(q', t)
    <3>1. PICK i \in C : Count(C, i) = q.headStart /\ q.entries[i].track = t
      BY <2>1, <2>2, <2>5 DEF StartIs, HeadIs
    <3>2. QueueOk(q) /\ i \in RowsOf(q, "Head") /\ RowsOf(q, "Head") = C
      BY <2>1, <2>2, <3>1, HeadSizeIs DEF RowsInv, RowsFine
    <3>3. OrdinalOf(q, i) = q.headStart
      BY <3>1, <3>2 DEF OrdinalOf, RowsOf, Count, UpTo
    <3>4. IndexOf(q, "Head", q.headStart) = i
      BY <3>2, <3>3, OrdinalTells
    <3>5. i \notin rows
      BY <1>1, <2>5, <3>4 DEF RemoveStart
    <3>6. Started(r, t)
      BY <2>2, <2>3, <3>1, <3>5
    <3> QED BY <2>4, <3>6 DEF StartStays
  <2> QED BY <2>4, <2>5 DEF StartKept
<1>6. StartStep
  BY <1>5 DEF StartStep
<1> QED BY <1>1, <1>2, <1>3, <1>4, <1>6, NoMoreHeads

\* setItems()
LEMMA SetItemsStepNav ==
  ASSUME RowsInv, NavReady, RowsFine(q'), NEW items \in setting.itemLists, NEW h \in Hints,
         SetLayerItems(items, h)
  PROVE  NavStep /\ StartStep
<1>1. PICK l \in setting.lucks : Becomes(SetItems(Fresh(l), items, h))
  BY DEF SetLayerItems
<1>2. items \in ItemList /\ h \in Hint
  BY SettingIs DEF Hints, Hint, RowsInv
<1>3. PICK x, r : x = Fresh(l) /\ r = SetItems(x, items, h)
  OBVIOUS
<1>4. QueueOk(x) /\ NavFine(x) /\ Lucky(x) /\ HeadSize(x) = HeadSize(q)
  BY <1>3, LuckIs
<1>5. Together(x)
  BY <1>3, FreshIs DEF RowsInv, RowsFine
<1>6. NavFine(r) /\ HeadSize(r) <= HeadSize(x) /\ StartHolds(x, r)
  BY <1>2, <1>3, <1>4, <1>5, SetItemsNav
<1>7. StartStep
  BY <1>1, <1>3, <1>6, StartThrough
<1> QED BY <1>1, <1>3, <1>4, <1>6, <1>7, NoMoreHeads

\* endLayer()
LEMMA FinishNav ==
  ASSUME RowsInv, NavReady, RowsFine(q'), FinishLayer
  PROVE  NavStep /\ StartStep
<1>1. PICK l \in setting.lucks : Becomes(EndLayer(Fresh(l)))
  BY DEF FinishLayer
<1>2. PICK x, r : x = Fresh(l) /\ r = EndLayer(x)
  OBVIOUS
<1>3. QueueOk(x) /\ NavFine(x) /\ Lucky(x) /\ HeadSize(x) = HeadSize(q)
  BY <1>2, LuckIs
<1>4. NavFine(r) /\ HeadSize(r) <= HeadSize(x) /\ StartHolds(x, r)
  BY <1>2, <1>3, EndLayerNav
<1>5. StartStep
  BY <1>1, <1>2, <1>4, StartThrough
<1> QED BY <1>1, <1>2, <1>3, <1>4, <1>5, NoMoreHeads

\* select(), of the next row or of any
LEMMA SelectRowNav ==
  ASSUME RowsInv, NavReady, RowsFine(q'), NEW row, SelectRow(row)
  PROVE  NavStep /\ StartStep
<1>1. PICK l \in setting.lucks : Becomes(Select(Fresh(l), row))
  BY DEF SelectRow
<1>2. PICK x, r : x = Fresh(l) /\ r = Select(x, row)
  OBVIOUS
<1>3. QueueOk(x) /\ NavFine(x) /\ Lucky(x) /\ HeadSize(x) = HeadSize(q)
  BY <1>2, LuckIs
<1>4. NavFine(r) /\ HeadSize(r) <= HeadSize(x) /\ StartHolds(x, r)
  BY <1>2, <1>3, SelectNav
<1>5. StartStep
  BY <1>1, <1>2, <1>4, StartThrough
<1> QED BY <1>1, <1>2, <1>3, <1>4, <1>5, NoMoreHeads

\* previous()
LEMMA GoBackNav ==
  ASSUME RowsInv, NavReady, RowsFine(q'), GoBack
  PROVE  NavStep /\ StartStep
<1>1. PICK l \in setting.lucks : Becomes(Select(StepBack(Fresh(l)), PreviousRow(q)))
  BY DEF GoBack
<1>2. PICK x, y, r, row : /\ x = Fresh(l) /\ y = StepBack(x) /\ row = PreviousRow(q)
                          /\ r = Select(y, row)
  OBVIOUS
<1>3. QueueOk(x) /\ NavFine(x) /\ Lucky(x) /\ HeadSize(x) = HeadSize(q)
  BY <1>2, LuckIs
<1>4. /\ NavFine(y) /\ HeadSize(y) = HeadSize(x) /\ y.luck = x.luck /\ QueueOk(y)
      /\ StartHolds(x, y)
  BY <1>2, <1>3, StepBackNav, StepBackIs
<1>5. Lucky(y)
  BY <1>3, <1>4 DEF Lucky
<1>6. NavFine(r) /\ HeadSize(r) <= HeadSize(y) /\ StartHolds(y, r)
  BY <1>2, <1>4, <1>5, SelectNav
<1>7. StartHolds(x, r)
  BY <1>4, <1>6 DEF StartHolds, StartStays
<1>8. StartStep
  BY <1>1, <1>2, <1>7, StartThrough
<1> QED BY <1>1, <1>2, <1>3, <1>4, <1>6, <1>8, NoMoreHeads

\* setShuffle(), setShuffleAlgorithm(), setRepeat()
LEMMA ModesStepNav ==
  ASSUME RowsInv, NavReady, RowsFine(q'), ChangeModes
  PROVE  NavStep /\ StartStep
<1>1. PICK l \in setting.lucks :
        \/ Becomes(SetShuffle(Fresh(l), ~ q.shuffle))
        \/ \E a \in {"random", "shuffled"} \ {q.algorithm} : Becomes(SetShuffleAlgorithm(Fresh(l), a))
        \/ Becomes(SetRepeat(Fresh(l), ~ q.repeat))
  BY DEF ChangeModes
<1>2. PICK x, no, off : x = Fresh(l) /\ no = (~ q.shuffle) /\ off = (~ q.repeat)
  OBVIOUS
<1>3. QueueOk(x) /\ NavFine(x) /\ Lucky(x) /\ HeadSize(x) = HeadSize(q)
  BY <1>2, LuckIs
<1>4. \/ Becomes(SetShuffle(x, no))
      \/ \E a \in {"random", "shuffled"} : Becomes(SetShuffleAlgorithm(x, a))
      \/ Becomes(SetRepeat(x, off))
  BY <1>1, <1>2
<1>5. PICK r : /\ Becomes(r)
               /\ \/ \E on : r = SetShuffle(x, on)
                  \/ \E on : r = SetRepeat(x, on)
                  \/ \E a \in {"random", "shuffled"} : r = SetShuffleAlgorithm(x, a)
  BY <1>4
<1>6. NavFine(r) /\ HeadSize(r) = HeadSize(x) /\ StartHolds(x, r)
  BY <1>3, <1>5, ModesNav
<1>7. HeadSize(q) \in Nat
  BY HeadSizeIs DEF RowsInv, RowsFine
<1>8. StartStep
  BY <1>2, <1>5, <1>6, StartThrough
<1> QED BY <1>3, <1>5, <1>6, <1>7, <1>8, NoMoreHeads

LEMMA StillStart ==
  ASSUME q' = q
  PROVE  StartStep
<1>1. PICK x : x = q'
  OBVIOUS
<1>2. StartReady(q) => StartReady(x)
  BY <1>1
<1>3. \A t : StartIs(q, t) => Started(x, t)
  BY <1>1 DEF Started
<1> QED BY <1>1, <1>2, <1>3 DEF StartStep, StartKept

\* Every call leaves the navigator on the rows, and the start first.
LEMMA NavHolds ==
  ASSUME RowsInv, NavReady, [Next]_<<vars, setting>>
  PROVE  NavReady' /\ StartStep
<1>1. setting' = setting
  BY DEF Next
<1>2. RowsFine(q')
  BY RowsStep DEF RowsInv
<1>3. NavStep /\ StartStep
  <2>1. CASE q' = q
    BY <2>1, StillStart DEF NavReady, NavStep, LucksReach
  <2>2. CASE Calls
    <3>1. CASE NewQueue
      BY <1>2, <3>1, NewQueueNav
    <3>2. CASE NewBaseUnderLayer
      BY <1>2, <3>2, NewBaseNav
    <3>3. CASE GetHistoryWave
      BY <3>3, HistoryNav
    <3>4. CASE Reply
      BY <1>2, <3>4, ReplyNav
    <3>5. CASE AddTracks
      BY <1>2, <3>5, AddStepNav
    <3>6. CASE RemoveSome
      BY <1>2, <3>6, RemoveNav
    <3>7. CASE BeginLayer
      BY <3>7, StillStart DEF BeginLayer, NavReady, NavStep, LucksReach
    <3>8. CASE \E items \in setting.itemLists, h \in Hints : SetLayerItems(items, h)
      BY <1>2, <3>8, SetItemsStepNav
    <3>9. CASE FinishLayer
      BY <1>2, <3>9, FinishNav
    <3>10. CASE Advance \/ Jump
      BY <1>2, <3>10, SelectRowNav DEF Advance, Jump
    <3>11. CASE GoBack
      BY <1>2, <3>11, GoBackNav
    <3>12. CASE ChangeModes
      BY <1>2, <3>12, ModesStepNav
    <3> QED BY <2>2, <3>1, <3>2, <3>3, <3>4, <3>5, <3>6, <3>7, <3>8, <3>9, <3>10, <3>11, <3>12
            DEF Calls
  <2> QED BY <2>1, <2>2 DEF Next, vars
<1> QED BY <1>1, <1>3 DEF NavReady, NavStep, LucksReach

\* An empty queue has nothing to navigate.
LEMMA NavStart ==
  ASSUME Init
  PROVE  NavReady
<1>1. QueueOk(q)
  BY RowsStart DEF RowsInv, RowsFine
<1>2. q = EmptyQueue
  BY DEF Init
<1>3. HeadSize(q) = 0
  <2>1. \A i \in 1..Len(q.entries) : q.entries[i].part # "Head"
    BY <1>2 DEF EmptyQueue
  <2> QED BY <2>1, NoHeads DEF HeadSize
<1>4. PICK none : none = <<>>
  OBVIOUS
<1>5. ASSUME NEW l \in setting.lucks PROVE Draws(l, 0)
  <2>1. Draws(l, setting.rows) /\ setting.rows \in Nat
    BY SettingsAssumption DEF Init
  <2>2. PICK a \in Nat, b \in Nat : a = setting.rows /\ b = 0
    BY <2>1
  <2>3. b \in 0..a
    BY <2>2
  <2> QED BY <2>1, <2>2, <2>3, DrawsFewer
<1>6. Draws(none, 0)
  BY <1>4 DEF Draws
<1>7. NavOk(EmptyHead, 0, 0) /\ EmptyHead.kind = "sequential"
  <2>1. PICK kind \in Kinds, n \in Nat : kind = "sequential" /\ n = 0
    BY DEF Kinds
  <2>2. n \in 0..n /\ Draws(none, n)
    BY <1>6, <2>1
  <2>3. PICK r : r = NavReset(kind, n, n, none)
    OBVIOUS
  <2>4. NavOk(r, n, n) /\ r.kind = kind
    BY <2>2, <2>3, NavResetIs
  <2> QED BY <1>4, <2>1, <2>3, <2>4 DEF EmptyHead
<1>8. /\ q.headMark = 0 /\ q.headStart = 0 /\ q.contMark = 0 /\ q.algorithm = "shuffled"
      /\ q.nav = EmptyHead /\ q.shuffle = FALSE
  BY <1>2 DEF EmptyQueue
<1>9. KindOf(q) = "sequential"
  BY <1>8 DEF KindOf, ShuffleActive
<1>10. NavFine(q)
  BY <1>3, <1>7, <1>8, <1>9 DEF NavFine, MarksFine, MarksNear
<1> QED BY <1>3, <1>5, <1>10 DEF NavReady, LucksReach

\* So it is on them always.
LEMMA NavAlways == Spec => [](RowsInv /\ NavReady)
<1>1. RowsInv /\ NavReady /\ [Next]_<<vars, setting>> => (RowsInv /\ NavReady)'
  BY RowsStep, NavHolds
<1>2. Init => RowsInv /\ NavReady
  BY RowsStart, NavStart
<1> QED BY <1>1, <1>2, PTL DEF Spec

-----------------------------------------------------------------------------
(* The start track comes first *)

\* What the property calls the start track.
LEMMA StartTrackIs ==
  ASSUME NEW x, QueueOk(x), HasStart(x)
  PROVE  StartIs(x, StartTrack(x)) /\ \A t : StartIs(x, t) => t = StartTrack(x)
<1>1. PICK i, k : i = IndexOf(x, "Head", x.headStart) /\ k = x.headStart
  OBVIOUS
<1>2. i \in RowsOf(x, "Head") /\ OrdinalOf(x, i) = k
  BY <1>1, IndexIs DEF HasStart
<1>3. RowsOf(x, "Head") = HeadRows(x.entries)
  BY HeadSizeIs
<1>4. Count(HeadRows(x.entries), i) = k
  BY <1>2, <1>3 DEF OrdinalOf, RowsOf, Count, UpTo
<1>5. StartTrack(x) = x.entries[i].track
  BY <1>1 DEF StartTrack
<1>6. StartIs(x, StartTrack(x))
  BY <1>1, <1>2, <1>3, <1>4, <1>5 DEF StartIs, HeadIs
<1>7. x.entries \in Seq(EntryType)
  BY DEF QueueOk, Entries
<1> QED BY <1>6, <1>7, HeadTells DEF StartIs

\* A base under a layer that has a start is before it.
LEMMA StartIsNext ==
  ASSUME NEW x, QueueOk(x), NavFine(x), StartReady(x), HasStart(x), x.headMark = 0
  PROVE  NavNext(x.nav, FALSE) = x.headStart
<1>1. PICK n, k : n = HeadSize(x) /\ k = x.headStart /\ n \in Nat /\ k \in 1..n
  BY HeadSizeIs DEF HasStart
<1>2. NavOk(x.nav, n, 0)
  BY <1>1 DEF NavFine
<1>3. StandsBefore(x.nav, k)
  BY <1>1 DEF StartReady
<1> QED BY <1>1, <1>2, <1>3, BeforeGives

LEMMA StartAlways == Spec => [](RowsInv /\ NavReady /\ StartReady(q))
<1>1. ASSUME RowsInv, NavReady, StartReady(q), [Next]_<<vars, setting>>
      PROVE  (RowsInv /\ NavReady /\ StartReady(q))'
  BY <1>1, RowsStep, NavHolds DEF StartStep, StartReady, StartOpen, HeadSize
<1>2. ASSUME Init PROVE RowsInv /\ NavReady /\ StartReady(q)
  <2>1. q.headStart = 0
    BY <1>2 DEF Init, EmptyQueue
  <2> QED BY <1>2, <2>1, RowsStart, NavStart DEF StartReady, StartOpen
<1> QED BY <1>1, <1>2, PTL DEF Spec

\* Until a track of the head plays, the start track of a base under a layer
\* stays the same and is what the head gives first, in order and with shuffle
\* alike, whatever is appended, added, removed beside it, laid over the queue
\* or switched: only its own removal, a new queue and a new base end that
\* (core/queue.cpp, startAfter() and the calls of resetNavigator()).
THEOREM StartComesFirst == Spec => StartTrackComesFirst
<1>1. ASSUME RowsInv, NavReady, StartReady(q), [Next]_<<vars, setting>>,
             HasStart(q), q'.headMark = 0,
             ~ (NewQueue \/ NewBaseUnderLayer \/ RemoveStart)
      PROVE  HasStart(q') /\ StartTrack(q') = StartTrack(q)
             /\ NavNext(q'.nav, FALSE) = q'.headStart
  <2>1. PICK x : x = q'
    OBVIOUS
  <2>2. QueueOk(q) /\ QueueOk(x)
    <3>1. RowsInv'
      BY <1>1, RowsStep
    <3> QED BY <1>1, <2>1, <3>1 DEF RowsInv, RowsFine
  <2>3. NavFine(x)
    <3>1. NavReady'
      BY <1>1, NavHolds
    <3> QED BY <2>1, <3>1 DEF NavReady
  <2>4. StartReady(x) /\ \A t : StartIs(q, t) => Started(x, t)
    BY <1>1, <2>1, NavHolds DEF StartStep, StartKept
  <2>5. StartIs(x, StartTrack(q))
    BY <1>1, <2>1, <2>2, <2>4, StartTrackIs DEF Started
  <2>6. HasStart(x)
    <3>1. x.entries \in Seq(EntryType)
      BY <2>2 DEF QueueOk, Entries
    <3>2. x.headStart \in 1..HeadSize(x)
      BY <2>5, <3>1, HeadTells DEF StartIs, HeadSize
    <3> QED BY <2>2, <3>2, HeadSizeIs DEF HasStart
  <2>7. StartTrack(x) = StartTrack(q)
    BY <2>2, <2>5, <2>6, StartTrackIs
  <2>8. NavNext(x.nav, FALSE) = x.headStart
    BY <1>1, <2>1, <2>2, <2>3, <2>4, <2>6, StartIsNext
  <2> QED BY <2>1, <2>6, <2>7, <2>8
<1>2. RowsInv /\ NavReady /\ StartReady(q) /\ [Next]_<<vars, setting>>
      => [/\ HasStart(q) /\ q'.headMark = 0
          /\ ~ (HasStart(q') /\ StartTrack(q') = StartTrack(q)
                  /\ NavNext(q'.nav, FALSE) = q'.headStart)
          => NewQueue \/ NewBaseUnderLayer \/ RemoveStart]_vars
  BY <1>1
<1> QED BY <1>2, StartAlways, PTL DEF Spec, StartTrackComesFirst

-----------------------------------------------------------------------------
(* What the navigator gives is a row, and what it counts is what it gives *)

\* The navigator covers the head's entries, in the order the modes ask for, and
\* stands where the queue's mark does, whatever is replaced, appended, added,
\* removed, laid over the queue or switched (core/queue.cpp, every call of
\* syncNavigator() and of the navigators).
THEOREM NavigatorFollows == Spec => []NavigatorAgrees
<1>1. RowsInv /\ NavReady => NavigatorAgrees
  <2> SUFFICES ASSUME RowsInv, NavReady PROVE NavigatorAgrees
    OBVIOUS
  <2>1. PICK n : n = CountOf(q, "Head")
    OBVIOUS
  <2>2. n \in Nat /\ NavOk(q.nav, n, q.headMark) /\ q.nav.kind = KindOf(q)
    BY <2>1, HeadSizeIs DEF RowsInv, RowsFine, NavReady, NavFine
  <2>3. /\ Size(q.nav) = n /\ \A p \in 1..n : q.nav.order[p] \in 1..n
        /\ \A i \in 1..n : \E p \in 1..n : q.nav.order[p] = i
    BY <2>2 DEF NavOk, Covers, Lists, Size
  <2>4. {q.nav.order[p] : p \in 1..n} = 1..n
    BY <2>3, Zenon
  <2>5. q.headMark > 0 => q.nav.position > 0 /\ q.nav.order[q.nav.position] = q.headMark
    BY <2>2 DEF NavOk
  <2>6. Roams(q.nav) => q.nav.choice \in (1..n) \ {q.headMark}
    BY <2>2, <2>3 DEF NavOk, Roams
  <2> QED BY <2>1, <2>2, <2>3, <2>4, <2>5, <2>6, Zenon DEF NavigatorAgrees, KindOf
<1> QED BY <1>1, NavAlways, PTL

\* What the head gives and what it counts agree, played or not.
LEMMA HeadGives ==
  ASSUME RowsInv, NavReady, NEW next, NEW left,
         next = IF q.inHead THEN NavNext(q.nav, WrapsHead(q)) ELSE 0,
         left = IF q.inHead THEN NavRemaining(q.nav, WrapsHead(q)) ELSE 0
  PROVE  next \in 0..CountOf(q, "Head") /\ left \in Nat /\ (next = 0 <=> left = 0)
<1>1. PICK n, wraps, gives, counts :
        /\ n = CountOf(q, "Head") /\ wraps = WrapsHead(q)
        /\ gives = NavNext(q.nav, wraps) /\ counts = NavRemaining(q.nav, wraps)
  OBVIOUS
<1>2. n \in Nat /\ q.headMark \in 0..n /\ NavOk(q.nav, n, q.headMark)
  BY <1>1, HeadSizeIs DEF RowsInv, RowsFine, NavReady, NavFine, MarksFine, MarksNear
<1>3. gives \in 0..n /\ counts \in Nat /\ (gives = 0 <=> counts = 0)
  BY <1>1, <1>2, NavNextIs
<1>4. next = (IF q.inHead THEN gives ELSE 0) /\ left = IF q.inHead THEN counts ELSE 0
  BY <1>1
<1> QED BY <1>1, <1>2, <1>3, <1>4

\* remaining(), which decides when the owner asks for more, counts what next()
\* gives: nothing is left beside the current entry exactly when next() has no
\* row (core/queue.cpp, remaining() and next()).
THEOREM RemainingMeansNext == Spec => []RemainingAgreesWithNext
<1>1. RowsInv /\ NavReady => RemainingAgreesWithNext
  <2> SUFFICES ASSUME RowsInv, NavReady PROVE RemainingAgreesWithNext
    OBVIOUS
  <2>1. QueueOk(q) /\ q.contMark \in Nat
    BY DEF RowsInv, RowsFine, NavReady, NavFine, MarksFine, MarksNear
  <2>2. PICK next, left : /\ next = IF q.inHead THEN NavNext(q.nav, WrapsHead(q)) ELSE 0
                          /\ left = IF q.inHead THEN NavRemaining(q.nav, WrapsHead(q)) ELSE 0
    OBVIOUS
  <2>3. PICK P, waiting, given : /\ P = Pending(q) /\ waiting = Cardinality(P)
                                 /\ given = CountOf(q, "Continuation")
    OBVIOUS
  <2>4. next \in 0..CountOf(q, "Head") /\ left \in Nat /\ (next = 0 <=> left = 0)
    BY <2>2, HeadGives
  <2>5. waiting \in Nat /\ (waiting = 0 <=> P = {}) /\ (P # {} => Least(P) # 0)
    <3>1. P \subseteq 1..Len(q.entries) /\ Len(q.entries) \in Nat
      BY <2>1, <2>3, SomeRows DEF Pending
    <3>2. IsFiniteSet(P)
      <4>1. IsFiniteSet(1..Len(q.entries))
        BY <3>1, FS_Interval
      <4> QED BY <3>1, <4>1, FS_Subset
    <3>3. CASE P # {}
      <4>1. P \subseteq Nat
        BY <3>1
      <4>2. Least(P) \in P
        BY <3>3, <4>1, LeastIs
      <4> QED BY <2>3, <3>1, <3>2, <3>3, <4>2, FS_CardinalityType, FS_EmptySet
    <3> QED BY <2>3, <3>2, <3>3, FS_CardinalityType, FS_EmptySet
  <2>6. given \in Nat
    <3>1. RowsOf(q, "Continuation") \subseteq 1..Len(q.entries) /\ Len(q.entries) \in Nat
      BY <2>1, SomeRows DEF RowsOf
    <3>2. IsFiniteSet(RowsOf(q, "Continuation"))
      <4>1. IsFiniteSet(1..Len(q.entries))
        BY <3>1, FS_Interval
      <4> QED BY <3>1, <4>1, FS_Subset
    <3> QED BY <2>3, <3>2, FS_CardinalityType DEF CountOf
  <2>7. PICK row, more : row = IndexOf(q, "Head", next)
                         /\ more = IndexOf(q, "Continuation", q.contMark + 1)
    OBVIOUS
  <2>8. next # 0 => row # 0
    <3>1. next # 0 => next \in 1..CountOf(q, "Head")
      BY <2>1, <2>4, HeadSizeIs
    <3>2. \A i \in RowsOf(q, "Head") : i # 0
      BY DEF RowsOf, Rows
    <3> QED BY <2>1, <2>7, <3>1, <3>2, IndexIs
  <2>9. more = 0 <=> ~ (given > q.contMark)
    <3>1. \A i \in RowsOf(q, "Continuation") : i # 0
      BY DEF RowsOf, Rows
    <3>2. more = 0 <=> q.contMark + 1 \notin 1..given
      BY <2>1, <2>3, <2>7, <3>1, IndexIs
    <3> QED BY <2>1, <2>6, <3>2
  <2>10. NextRow(q) = IF P # {} THEN Least(P) ELSE IF next # 0 THEN row ELSE more
    BY <2>2, <2>3, <2>7 DEF NextRow
  <2>11. NextRow(q) = 0 <=> waiting = 0 /\ left = 0 /\ ~ (given > q.contMark)
    BY <2>4, <2>5, <2>8, <2>9, <2>10
  <2>12. PICK own \in 0..1, over \in Nat :
            /\ own = IF HasCurrent(q) THEN 1 ELSE 0
            /\ over = IF given - q.contMark > 0 THEN given - q.contMark ELSE 0
    BY <2>1, <2>6
  <2>13. Remaining(q) = IF left = Endless THEN Endless ELSE own + waiting + left + over
    BY <2>2, <2>3, <2>12 DEF Remaining
  <2>14. over = 0 <=> ~ (given > q.contMark)
    BY <2>1, <2>6, <2>12
  <2>15. Remaining(q) = own <=> waiting = 0 /\ left = 0 /\ over = 0
    BY <2>4, <2>5, <2>12, <2>13 DEF Endless
  <2> QED BY <2>11, <2>12, <2>14, <2>15 DEF RemainingAgreesWithNext
<1> QED BY <1>1, NavAlways, PTL

-----------------------------------------------------------------------------
(* previous(), back from the continuation *)

\* Nothing waits after gatherPending() only if nothing waited before.
LEMMA GatheredNothing ==
  ASSUME NEW x, QueueOk(x), HasCurrent(x), ~ IsPending(Current(x)),
         NEW r, r = GatherPending(x), Pending(r) = {}
  PROVE  r = x
<1>1. PICK P, k : P = Pending(x) /\ k = Cardinality(P)
  OBVIOUS
<1>2. P \subseteq 1..Len(x.entries) /\ Len(x.entries) \in Nat /\ k \in Nat
      /\ x.entries \in Seq(EntryType) /\ x.playing \in Nat
  <2>1. P \subseteq 1..Len(x.entries) /\ Len(x.entries) \in Nat
        /\ x.entries \in Seq(EntryType) /\ x.playing \in Nat
    BY <1>1, SomeRows, SomePending DEF QueueOk, Entries
  <2> QED BY <1>1, <2>1, CountAll
<1>3. CASE P = (x.playing + 1)..(x.playing + k)
  BY <1>1, <1>3 DEF GatherPending
<1>4. CASE P # (x.playing + 1)..(x.playing + k)
  <2>1. PICK y, kept : kept = Rows(x) \ P
                       /\ y = x.playing - Cardinality({i \in P : i < x.playing})
    OBVIOUS
  <2>2. y \in 1..Cardinality(kept) /\ kept \subseteq Rows(x) /\ Cardinality(kept) \in Nat
    BY <1>1, <2>1, GatheredCursor
  <2>3. PICK m, more : m = [x EXCEPT !.entries = EntriesAt(x, kept), !.playing = y]
                       /\ more = EntriesAt(x, P)
    OBVIOUS
  <2>4. r = InsertRows(m, y + 1, more)
    BY <1>1, <1>4, <2>1, <2>3 DEF GatherPending
  <2>5. /\ m.entries = EntriesAt(x, kept) /\ m.playing = y /\ m.contMark = x.contMark
        /\ m.hint = x.hint /\ m.changed = x.changed /\ DOMAIN m = DOMAIN x
    BY <2>3 DEF QueueOk, QueueFields
  <2>6. EntriesAt(x, kept) \in Seq(EntryType) /\ Len(EntriesAt(x, kept)) = Cardinality(kept)
    <3>1. kept \subseteq 1..Len(x.entries)
      BY <2>2, SomeRows
    <3>2. PICK es : es = Picked(x.entries, kept)
      OBVIOUS
    <3>3. es \in Seq(EntryType) /\ Len(es) = Cardinality(kept)
      <4>1. PICK s : s = x.entries
        OBVIOUS
      <4>2. s \in Seq(EntryType) /\ kept \subseteq 1..Len(s)
        BY <1>2, <3>1, <4>1
      <4>3. Chosen(Picked(s, kept), s, kept, EntryType)
        BY <4>2, PickedGives
      <4>4. es = Picked(s, kept)
        BY <3>2, <4>1
      <4> QED BY <4>3, <4>4 DEF Chosen
    <3> QED BY <3>2, <3>3 DEF EntriesAt
  <2>7. QueueOk(m) /\ y + 1 \in 1..(Len(m.entries) + 1)
    BY <2>2, <2>5, <2>6 DEF QueueOk, Entries
  <2>8. /\ more \in Seq(EntryType) /\ Len(more) = k
        /\ \A j \in 1..k : IsPending(more[j])
    <3>1. /\ more \in Seq(EntryType) /\ Len(more) = k
          /\ \A j \in 1..k : \E i \in P : more[j] = x.entries[i]
      <4>1. P \subseteq Rows(x)
        BY <1>2, SomeRows
      <4> QED BY <1>1, <2>3, <4>1, EntriesAtIs
    <3> QED BY <1>1, <3>1 DEF Pending
  <2>9. PICK at : at = y + 1
    OBVIOUS
  <2>10. Grown(m, r, at, more)
    BY <2>4, <2>7, <2>8, <2>9, InsertRowsIs
  <2>11. k # 0
    <3>1. k = 0 => P = {}
      BY <1>1, <1>2, CountAll, FS_EmptySet
    <3>2. k = 0 => (x.playing + 1)..(x.playing + k) = {}
      BY <1>2
    <3> QED BY <1>4, <3>1, <3>2
  <2>12. at \in Nat /\ at >= at /\ at < at + Len(more) /\ IsPending(more[at - at + 1])
    BY <1>2, <2>2, <2>8, <2>9, <2>11
  <2>13. at \in Pending(r)
    BY <2>10, <2>12 DEF Grown
  <2> QED BY <2>13
<1> QED BY <1>3, <1>4

\* markCurrent() of a row outside the continuation leaves the continuation alone.
LEMMA MarkedElsewhere ==
  ASSUME NEW x, QueueOk(x), HasCurrent(x), Current(x).part # "Continuation",
         NEW r, r = MarkCurrent(x)
  PROVE  /\ r.contMark = x.contMark
         /\ \A i \in Rows(x) \ {x.playing} : r.entries[i] = x.entries[i]
<1> DEFINE ordinal == OrdinalOf(x, x.playing)
<1>1. Current(x) \in EntryType /\ x.entries \in Seq(EntryType) /\ Rows(x) = 1..Len(x.entries)
  BY SomeRows DEF QueueOk, Entries
<1>2. Current(x).part \in {"Head", "Item", "Other"}
  BY <1>1 DEF EntryType, Parts
<1> HIDE DEF ordinal
<1>3. CASE Current(x).part = "Item"
  <2>1. r = [x EXCEPT !.entries[x.playing].pending = FALSE]
    BY <1>3 DEF MarkCurrent
  <2>2. PICK e : e = [x.entries[x.playing] EXCEPT !.pending = FALSE]
    OBVIOUS
  <2>3. r = [x EXCEPT !.entries = [x.entries EXCEPT ![x.playing] = e]]
    BY <2>1, <2>2
  <2>4. r.contMark = x.contMark /\ r.entries = [x.entries EXCEPT ![x.playing] = e]
    BY <2>3 DEF QueueOk, QueueFields
  <2> QED BY <1>1, <2>4
<1>4. CASE Current(x).part \in {"Head", "Other"}
  <2>1. r.contMark = x.contMark /\ r.entries = x.entries
    BY <1>4 DEF MarkCurrent, ordinal, QueueOk, QueueFields
  <2> QED BY <2>1
<1> QED BY <1>2, <1>3, <1>4

\* Outside a jam, a step back from the continuation that ends elsewhere, with
\* nothing waiting, has the entry it left next in the continuation.
LEMMA StepBackReturns ==
  ASSUME NEW x, QueueOk(x), ~ x.hint.seeds, HasCurrent(x), Current(x).part = "Continuation",
         NEW r, r = Select(StepBack(x), PreviousRow(x)),
         HasCurrent(r), Current(r).part # "Continuation", Pending(r) = {}
  PROVE  /\ IndexOf(r, "Continuation", r.contMark + 1) = x.playing /\ x.playing > 0
         /\ r.entries[x.playing] = Current(x)
<1>1. PICK y, row : y = StepBack(x) /\ row = PreviousRow(x)
  OBVIOUS
<1>2. QueueOk(y) /\ y.entries = x.entries /\ y.hint = x.hint /\ y.playing = x.playing
  BY <1>1, StepBackIs
<1>3. Rows(y) = Rows(x) /\ Current(y) = Current(x)
  BY <1>2 DEF Rows, Current
<1>4. row \in Rows(y)
  <2>1. row \notin Rows(y) => r = y
    BY <1>1 DEF Select
  <2> QED BY <1>3, <2>1
<1>5. PICK m, changed : /\ changed = (y.changed \/ IsPending(y.entries[row]))
                        /\ m = [y EXCEPT !.playing = row, !.changed = changed]
  OBVIOUS
<1>6. PICK n, k : n = MarkCurrent(m) /\ k = GatherPending(n)
  OBVIOUS
<1>7. r = DropStaleWave(k)
  <2>1. m = [y EXCEPT !.playing = row, !.changed = @ \/ IsPending(y.entries[row])]
    BY <1>5
  <2> QED BY <1>1, <1>4, <1>6, <2>1 DEF Select
<1>8. /\ m.entries = x.entries /\ m.playing = row /\ m.contMark = y.contMark
      /\ m.hint = x.hint /\ m.changed = changed /\ DOMAIN m = DOMAIN y
  BY <1>2, <1>5 DEF QueueOk, QueueFields
<1>9. QueueOk(m) /\ HasCurrent(m) /\ Current(m) = x.entries[row] /\ Rows(m) = Rows(x)
  <2>1. row \in 0..Len(m.entries) /\ Rows(m) = Rows(x)
    BY <1>2, <1>3, <1>4, <1>8, SomeRows DEF Rows
  <2>2. changed \in BOOLEAN
    BY <1>5, Zenon
  <2>3. QueueOk(m)
    BY <1>2, <1>8, <2>1, <2>2 DEF QueueOk
  <2> QED BY <1>3, <1>4, <1>8, <2>1, <2>3 DEF HasCurrent, Current
<1>10. Marks(m, n)
  BY <1>6, <1>9, MarkCurrentIs
<1>11. QueueOk(n) /\ HasCurrent(n) /\ ~ IsPending(Current(n)) /\ n.hint = x.hint
  <2>1. QueueOk(n) /\ n.hint = x.hint
    BY <1>8, <1>10 DEF Marks
  <2> QED BY <1>9, <1>10, <2>1, MarksKeep
<1>12. k.hint = x.hint
  BY <1>6, <1>11, GatherPendingIs
<1>13. r = k
  BY <1>7, <1>12 DEF DropStaleWave
<1>14. r = n
  BY <1>6, <1>11, <1>13, GatheredNothing
<1>15. x.entries[row].part # "Continuation" /\ Rows(n) = Rows(x)
       /\ \A i \in Rows(x) : n.entries[i].part = x.entries[i].part
  <2>1. /\ Len(n.entries) = Len(m.entries) /\ n.playing = m.playing
        /\ \A i \in Rows(m) : n.entries[i].part = m.entries[i].part
    BY <1>10 DEF Marks
  <2>2. Rows(n) = Rows(x) /\ \A i \in Rows(x) : n.entries[i].part = x.entries[i].part
    BY <1>8, <1>9, <2>1 DEF Rows
  <2>3. Current(n).part = x.entries[row].part
    BY <1>3, <1>4, <1>8, <2>1, <2>2 DEF Current
  <2> QED BY <1>14, <2>2, <2>3
<1>16. x.playing \in Rows(x) /\ x.playing # row /\ x.playing > 0
       /\ x.playing \in RowsOf(x, "Continuation")
  <2>1. x.playing \in Rows(x) /\ x.playing # row /\ x.playing \in RowsOf(x, "Continuation")
    BY <1>15 DEF HasCurrent, Current, RowsOf
  <2> QED BY <2>1, SomeRows
<1>17. PICK c : c = OrdinalOf(x, x.playing)
  OBVIOUS
<1>18. c \in Nat /\ y.contMark = c - 1
  <2>1. c \in Nat
    BY <1>16, <1>17, OrdinalTells
  <2>2. row > 0
    BY <1>3, <1>4, SomeRows
  <2>3. y = [x EXCEPT !.contMark = c - 1]
    BY <1>1, <1>15, <1>17, <2>2 DEF StepBack
  <2> QED BY <2>1, <2>3 DEF QueueOk, QueueFields
<1>19. n.contMark = c - 1 /\ n.entries[x.playing] = x.entries[x.playing]
  <2>1. Current(m).part # "Continuation"
    BY <1>9, <1>15
  <2>2. n.contMark = m.contMark /\ \A i \in Rows(m) \ {m.playing} : n.entries[i] = m.entries[i]
    BY <1>6, <1>9, <2>1, MarkedElsewhere
  <2> QED BY <1>8, <1>9, <1>16, <1>18, <2>2
<1>20. RowsOf(n, "Continuation") = RowsOf(x, "Continuation")
  BY <1>15 DEF RowsOf
<1>21. OrdinalOf(n, x.playing) = c
  <2>1. n.entries[x.playing].part = x.entries[x.playing].part
        /\ x.entries[x.playing].part = "Continuation"
    BY <1>15, <1>16 DEF RowsOf
  <2> QED BY <1>17, <1>20, <2>1 DEF OrdinalOf
<1>22. IndexOf(n, "Continuation", c) = x.playing
  BY <1>11, <1>16, <1>20, <1>21, OrdinalTells
<1>23. n.contMark + 1 = c
  BY <1>18, <1>19
<1> QED BY <1>14, <1>16, <1>19, <1>22, <1>23 DEF Current

\* Only a jam's hint has seeds.
NoSeeds == ~ layer => ~ q.hint.seeds
HintKept == q'.hint = q.hint

\* What a call leaves behind has the hint it was given.
LEMMA BecomesHint ==
  ASSUME NEW r, Becomes(r), QueueOk(r)
  PROVE  q'.hint = r.hint
BY DEF Becomes, QueueOk, QueueFields

\* A call that starts from the queue as it is and keeps the hint keeps the queue's.
LEMMA FreshHint ==
  ASSUME RowsInv, NEW l, NEW r, QueueOk(r), Becomes(r), r.hint = Fresh(l).hint
  PROVE  HintKept
<1>1. Fresh(l).hint = q.hint
  BY FreshIs DEF RowsInv
<1> QED BY <1>1, BecomesHint DEF HintKept

\* insert() leaves the hint alone.
LEMMA AddHint ==
  ASSUME NEW x, QueueOk(x), NEW tracks, NEW placement
  PROVE  Add(x, tracks, placement).hint = x.hint
<1>1. ASSUME NEW at, NEW es PROVE InsertRows(x, at, es).hint = x.hint
  BY DEF InsertRows, QueueOk, QueueFields
<1>2. ASSUME NEW es PROVE AddToHead(x, es).hint = x.hint
  <2>1. ASSUME NEW at, NEW nav PROVE [InsertRows(x, at, es) EXCEPT !.nav = nav].hint = x.hint
    BY DEF InsertRows, QueueOk, QueueFields
  <2> QED BY <2>1 DEF AddToHead
<1> QED BY <1>1, <1>2 DEF Add

\* setRepeat(), setShuffle() and setShuffleAlgorithm() leave the hint alone.
LEMMA ModesHint ==
  ASSUME NEW x, QueueOk(x)
  PROVE  \A v : /\ SetShuffle(x, v).hint = x.hint /\ SetRepeat(x, v).hint = x.hint
                /\ SetShuffleAlgorithm(x, v).hint = x.hint
<1> QED BY DEF SetShuffle, SetRepeat, SetShuffleAlgorithm, ResetNavigator, QueueOk, QueueFields

-----------------------------------------------------------------------------
(* Every call leaves the hint alone outside a jam *)

\* Outside a layer no call leaves a hint that asks for the current item's seeds.
LEMMA HintStep ==
  ASSUME RowsInv, NoSeeds, Calls
  PROVE  NoSeeds'
<1>0. ASSUME NEW l PROVE RowsFine(Fresh(l)) /\ QueueOk(Fresh(l)) /\ Fresh(l).entries = q.entries
                         /\ PreviousRow(Fresh(l)) = PreviousRow(q) /\ Rows(Fresh(l)) = Rows(q)
  BY FreshIs DEF RowsInv, RowsFine
<1>1. QueueOk(q)
  BY DEF RowsInv, RowsFine
<1>2. ASSUME HintKept, layer' = layer PROVE NoSeeds'
  BY <1>2 DEF HintKept, NoSeeds
<1>3. CASE NewQueue
  <2>1. PICK s \in setting.sources, l \in setting.lucks : Becomes(Replace(Fresh(l), s))
    BY <1>3 DEF NewQueue
  <2>2. PICK r : r = Replace(Fresh(l), s)
    OBVIOUS
  <2>3. QueueOk(r) /\ r.hint = Fresh(l).hint
    BY <1>0, <2>2, ReplaceIs, SettingIs DEF RowsInv
  <2>4. HintKept
    BY <2>1, <2>2, <2>3, FreshHint
  <2> QED BY <1>2, <1>3, <2>4 DEF NewQueue
<1>4. CASE layer'
  BY <1>4 DEF NoSeeds
<1>5. CASE GetHistoryWave
  <2>1. HintKept
    BY <1>1, <1>5 DEF GetHistoryWave, HintKept, QueueOk, QueueFields
  <2> QED BY <1>2, <1>5, <2>1 DEF GetHistoryWave
<1>6. CASE Reply
  <2>1. PICK tracks \in setting.trackLists, l \in setting.lucks, seeds \in 0..setting.seeds :
          \/ seeds = 0 /\ Becomes(AppendContinuation(Fresh(l), tracks, "own", 0))
          \/ Becomes(AppendContinuation(Fresh(l), tracks, "history", seeds))
    BY <1>6 DEF Reply
  <2>2. tracks \in Seq(Tracks) /\ seeds \in Nat
    BY SettingIs DEF RowsInv
  <2>3. \E giver \in Givers : Becomes(AppendContinuation(Fresh(l), tracks, giver, seeds))
    BY <2>1 DEF Givers
  <2>4. PICK giver, r :
          giver \in Givers /\ r = AppendContinuation(Fresh(l), tracks, giver, seeds) /\ Becomes(r)
    BY <2>3
  <2>5. QueueOk(r) /\ r.hint = Fresh(l).hint
    BY <1>0, <2>2, <2>4, AppendKeeps DEF Edit, Keeps
  <2>6. HintKept
    BY <2>4, <2>5, FreshHint
  <2> QED BY <1>2, <1>6, <2>6 DEF Reply
<1>7. CASE AddTracks
  <2>1. PICK tracks \in setting.trackLists, placement \in {"Next", "End"}, l \in setting.lucks :
          Becomes(Add(Fresh(l), tracks, placement))
    BY <1>7 DEF AddTracks
  <2>2. PICK r : r = Add(Fresh(l), tracks, placement)
    OBVIOUS
  <2>3. QueueOk(r)
    BY <1>0, <2>2, AddKeeps, SettingIs DEF RowsInv, Edit, Keeps
  <2>4. HintKept
    BY <1>0, <2>1, <2>2, <2>3, AddHint, FreshHint
  <2> QED BY <1>2, <1>7, <2>4 DEF AddTracks
<1>8. CASE RemoveSome
  <2>1. PICK rows \in SUBSET Removable, l \in setting.lucks : Becomes(RemoveRows(Fresh(l), rows))
    BY <1>8 DEF RemoveSome
  <2>2. PICK r : r = RemoveRows(Fresh(l), rows)
    OBVIOUS
  <2>3. QueueOk(r) /\ r.hint = Fresh(l).hint
    BY <1>0, <2>2, RemoveRowsIs
  <2>4. HintKept
    BY <2>1, <2>2, <2>3, FreshHint
  <2> QED BY <1>2, <1>8, <2>4 DEF RemoveSome
<1>9. CASE NewBaseUnderLayer \/ BeginLayer
           \/ \E items \in setting.itemLists, h \in Hints : SetLayerItems(items, h)
  <2>1. layer' = TRUE \/ (layer /\ layer' = layer)
    BY <1>9 DEF NewBaseUnderLayer, BeginLayer, SetLayerItems
  <2> QED BY <1>4, <2>1
<1>10. CASE FinishLayer
  <2>1. PICK l \in setting.lucks : Becomes(EndLayer(Fresh(l)))
    BY <1>10 DEF FinishLayer
  <2>2. PICK r : r = EndLayer(Fresh(l))
    OBVIOUS
  <2>3. QueueOk(r) /\ r.hint = NoHint
    BY <1>0, <2>2, EndLayerKeeps DEF Keeps
  <2>4. q'.hint = NoHint
    BY <2>1, <2>2, <2>3, BecomesHint
  <2> QED BY <2>4 DEF NoSeeds, NoHint
<1>11. CASE Advance \/ Jump
  <2>1. Jump
    BY <1>11, JumpStep
  <2>2. PICK row \in Rows(q), l \in setting.lucks : Becomes(Select(Fresh(l), row))
    BY <2>1 DEF Jump, SelectRow
  <2>3. PICK r : r = Select(Fresh(l), row)
    OBVIOUS
  <2>4. QueueOk(r) /\ r.hint = Fresh(l).hint
    BY <1>0, <2>2, <2>3, SelectIs
  <2>5. HintKept
    BY <2>2, <2>3, <2>4, FreshHint
  <2>6. layer' = layer
    BY <2>1 DEF Jump, SelectRow
  <2> QED BY <1>2, <2>5, <2>6
<1>12. CASE GoBack
  <2>1. PICK l \in setting.lucks : Becomes(Select(StepBack(Fresh(l)), PreviousRow(q)))
    BY <1>12 DEF GoBack
  <2>2. PICK x, y, row, r : /\ x = Fresh(l) /\ y = StepBack(x) /\ row = PreviousRow(q)
                            /\ r = Select(y, row)
    OBVIOUS
  <2>3. QueueOk(y) /\ y.hint = x.hint
    BY <1>0, <2>2, StepBackIs
  <2>4. QueueOk(r) /\ r.hint = x.hint
    <3>1. CASE row \in Rows(y)
      BY <2>2, <2>3, <3>1, SelectIs
    <3>2. CASE row \notin Rows(y)
      BY <2>2, <2>3, <3>2 DEF Select
    <3> QED BY <3>1, <3>2
  <2>5. HintKept
    BY <2>1, <2>2, <2>4, FreshHint
  <2> QED BY <1>2, <1>12, <2>5 DEF GoBack
<1>13. CASE ChangeModes
  <2>1. PICK l \in setting.lucks :
          \/ Becomes(SetShuffle(Fresh(l), ~ q.shuffle))
          \/ \E a \in {"random", "shuffled"} \ {q.algorithm} :
               Becomes(SetShuffleAlgorithm(Fresh(l), a))
          \/ Becomes(SetRepeat(Fresh(l), ~ q.repeat))
    BY <1>13 DEF ChangeModes
  <2>2. (~ q.shuffle) \in BOOLEAN /\ (~ q.repeat) \in BOOLEAN
    BY Zenon
  <2>a. PICK x, on, re : x = Fresh(l) /\ on = (~ q.shuffle) /\ re = (~ q.repeat)
    OBVIOUS
  <2>b. QueueOk(x) /\ on \in BOOLEAN /\ re \in BOOLEAN
    BY <1>0, <2>2, <2>a
  <2>c. /\ \A v \in BOOLEAN : Keeps(x, SetShuffle(x, v)) /\ Keeps(x, SetRepeat(x, v))
        /\ \A v : Keeps(x, SetShuffleAlgorithm(x, v))
    BY <2>b, ModesKeep
  <2>d. \A v : /\ SetShuffle(x, v).hint = x.hint /\ SetRepeat(x, v).hint = x.hint
               /\ SetShuffleAlgorithm(x, v).hint = x.hint
    BY <2>b, ModesHint
  <2>e. \/ Becomes(SetShuffle(x, on)) \/ Becomes(SetRepeat(x, re))
        \/ \E a : Becomes(SetShuffleAlgorithm(x, a))
    BY <2>1, <2>a
  <2>f. \E r : Keeps(x, r) /\ Becomes(r) /\ r.hint = x.hint
    <3>1. CASE Becomes(SetShuffle(x, on))
      BY <2>b, <2>c, <2>d, <3>1
    <3>2. CASE Becomes(SetRepeat(x, re))
      BY <2>b, <2>c, <2>d, <3>2
    <3>3. CASE \E a : Becomes(SetShuffleAlgorithm(x, a))
      BY <2>c, <2>d, <3>3
    <3> QED BY <2>e, <3>1, <3>2, <3>3
  <2>3. \E r : Keeps(Fresh(l), r) /\ Becomes(r) /\ r.hint = Fresh(l).hint
    BY <2>a, <2>f
  <2>4. HintKept
    BY <2>3, FreshHint DEF Keeps
  <2> QED BY <1>2, <1>13, <2>4 DEF ChangeModes
<1> QED BY <1>3, <1>5, <1>6, <1>7, <1>8, <1>9, <1>10, <1>11, <1>12, <1>13 DEF Calls

\* In every state a hint that asks for seeds is within a layer.
LEMMA SeedsAlways == Spec => [](RowsInv /\ NoSeeds)
<1>1. Init => RowsInv /\ NoSeeds
  <2> SUFFICES ASSUME Init PROVE RowsInv /\ NoSeeds
    OBVIOUS
  <2>1. q.hint.seeds = FALSE
    BY DEF Init, EmptyQueue, NoHint
  <2> QED BY <2>1, RowsStart, Zenon DEF NoSeeds
<1>2. RowsInv /\ NoSeeds /\ [Next]_<<vars, setting>> => (RowsInv /\ NoSeeds)'
  <2> SUFFICES ASSUME RowsInv, NoSeeds, [Next]_<<vars, setting>> PROVE (RowsInv /\ NoSeeds)'
    OBVIOUS
  <2>1. RowsInv'
    BY RowsStep
  <2>2. CASE Calls
    BY <2>1, <2>2, HintStep
  <2>3. CASE UNCHANGED vars
    BY <2>1, <2>3 DEF NoSeeds, vars
  <2> QED BY <2>2, <2>3 DEF Next, vars
<1> QED BY <1>1, <1>2, PTL DEF Spec

\* A step back returns: outside a jam, previous() from a track of the
\* continuation to an entry elsewhere puts the mark before the track it left, so
\* that next() gives that track again once nothing waits and the head is out
\* (core/queue.cpp, stepBack() and select()).
THEOREM SteppingBackReturns == Spec => NextReturnsAfterStepBack
<1> DEFINE Left == /\ HasCurrent(q) /\ Current(q).part = "Continuation"
                   /\ HasCurrent(q') /\ Current(q').part # "Continuation"
                   /\ Pending(q') = {} /\ (q'.inHead => NavNext(q'.nav, WrapsHead(q')) = 0)
           Returns == NextRow(q') > 0 /\ q'.entries[NextRow(q')] = Current(q)
<1>1. ASSUME RowsInv, NoSeeds, GoBack, Left PROVE Returns
  <2>1. PICK l \in setting.lucks : Becomes(Select(StepBack(Fresh(l)), PreviousRow(q)))
    BY <1>1 DEF GoBack
  <2>2. PICK x, y, row, r : /\ x = Fresh(l) /\ y = StepBack(x) /\ row = PreviousRow(x)
                            /\ r = Select(y, row)
    OBVIOUS
  <2>3. /\ QueueOk(x) /\ x.entries = q.entries /\ x.playing = q.playing /\ x.hint = q.hint
        /\ PreviousRow(x) = PreviousRow(q) /\ Rows(x) = Rows(q)
    BY <1>1, <2>2, FreshIs DEF RowsInv, RowsFine
  <2>4. HasCurrent(x) /\ Current(x) = Current(q) /\ ~ x.hint.seeds
    BY <1>1, <2>3 DEF HasCurrent, Current, NoSeeds, GoBack
  <2>5. QueueOk(r)
    <3>1. QueueOk(y)
      BY <2>2, <2>3, StepBackIs
    <3>2. CASE row \in Rows(y)
      BY <2>2, <3>1, <3>2, SelectIs
    <3>3. CASE row \notin Rows(y)
      BY <2>2, <3>1, <3>3 DEF Select
    <3> QED BY <3>2, <3>3
  <2>6. q' = [r EXCEPT !.luck = <<>>]
    BY <2>1, <2>2, <2>3 DEF Becomes
  <2>7. QueueOk(q') /\ SameRows(r, q')
    <3>1. SameRows(r, q')
      BY <2>5, <2>6 DEF SameRows, QueueOk, QueueFields
    <3>2. PICK z : z = q'
      OBVIOUS
    <3> QED BY <2>5, <3>1, <3>2, SameRowsOk
  <2>8. /\ HasCurrent(r) /\ Current(r).part # "Continuation" /\ Pending(r) = {}
        /\ r.entries = q'.entries
    <3>1. Rows(q') = Rows(r) /\ q'.entries = r.entries /\ q'.playing = r.playing
      BY <2>7 DEF SameRows, Rows
    <3>2. Pending(q') = Pending(r) /\ Current(q') = Current(r) /\ (HasCurrent(q') <=> HasCurrent(r))
      BY <3>1 DEF Pending, Current, HasCurrent
    <3> QED BY <1>1, <3>1, <3>2
  <2>9. /\ IndexOf(r, "Continuation", r.contMark + 1) = x.playing /\ x.playing > 0
        /\ r.entries[x.playing] = Current(x)
    BY <1>1, <2>2, <2>3, <2>4, <2>8, StepBackReturns
  <2>10. IndexOf(q', "Continuation", q'.contMark + 1) = x.playing
    <3>1. Rows(q') = Rows(r) /\ q'.entries = r.entries /\ q'.contMark = r.contMark
      BY <2>7 DEF SameRows, Rows
    <3>2. RowsOf(q', "Continuation") = RowsOf(r, "Continuation")
      BY <3>1 DEF RowsOf
    <3>3. OrdinalOf(q', x.playing) = OrdinalOf(r, x.playing)
      BY <3>1 DEF OrdinalOf, RowsOf
    <3>4. /\ x.playing \in RowsOf(r, "Continuation")
          /\ OrdinalOf(r, x.playing) = r.contMark + 1
      BY <2>5, <2>9, IndexIs
    <3>5. PICK z : z = q'
      OBVIOUS
    <3>6. IndexOf(z, "Continuation", OrdinalOf(z, x.playing)) = x.playing
      BY <2>7, <3>2, <3>4, <3>5, OrdinalTells
    <3> QED BY <3>1, <3>3, <3>4, <3>5, <3>6
  <2>11. NextRow(q') = IndexOf(q', "Continuation", q'.contMark + 1)
    BY <1>1 DEF NextRow
  <2> QED BY <2>4, <2>8, <2>9, <2>10, <2>11
<1>2. RowsInv /\ NoSeeds /\ [Next]_<<vars, setting>> => [Left /\ ~ Returns => ~ GoBack]_vars
  BY <1>1
<1>3. [][Left /\ ~ Returns => ~ GoBack]_vars => NextReturnsAfterStepBack
  BY PTL DEF NextReturnsAfterStepBack
<1> QED BY <1>2, <1>3, SeedsAlways, PTL DEF Spec

-----------------------------------------------------------------------------
(* The end of a track uses up one of what remained *)

\* Nothing that remaining() reads is different.
LeftAlike(x, y) ==
  /\ y.entries = x.entries /\ y.playing = x.playing /\ y.inHead = x.inHead /\ y.nav = x.nav
  /\ y.repeat = x.repeat /\ y.own = x.own /\ y.contMark = x.contMark

\* So remaining() is the same.
LEMMA SameLeft == ASSUME NEW x, NEW y, LeftAlike(x, y) PROVE Remaining(y) = Remaining(x)
<1>1. Rows(y) = Rows(x) /\ WrapsHead(y) = WrapsHead(x) /\ (HasCurrent(y) <=> HasCurrent(x))
  BY DEF LeftAlike, Rows, WrapsHead, HasCurrent
<1>2. Pending(y) = Pending(x) /\ CountOf(y, "Continuation") = CountOf(x, "Continuation")
  BY <1>1 DEF LeftAlike, Pending, CountOf, RowsOf
<1>3. PICK own : own = (IF HasCurrent(x) THEN 1 ELSE 0)
  OBVIOUS
<1>4. own = (IF HasCurrent(y) THEN 1 ELSE 0)
  BY <1>1, <1>3
<1>5. PICK left, given, waiting :
        /\ left = NavRemaining(x.nav, WrapsHead(x)) /\ given = CountOf(x, "Continuation")
        /\ waiting = Cardinality(Pending(x))
  OBVIOUS
<1>6. left = NavRemaining(y.nav, WrapsHead(y)) /\ given = CountOf(y, "Continuation")
      /\ waiting = Cardinality(Pending(y))
  BY <1>1, <1>2, <1>5 DEF LeftAlike
<1> QED BY <1>3, <1>4, <1>5, <1>6 DEF Remaining, LeftAlike

\* remaining() in its parts.
HeadLeft(r) == IF r.inHead THEN NavRemaining(r.nav, WrapsHead(r)) ELSE 0
ContinuationLeft(r) ==
  LET left == CountOf(r, "Continuation") - r.contMark IN IF left > 0 THEN left ELSE 0
OwnLeft(r) == IF HasCurrent(r) THEN 1 ELSE 0

\* It is their sum, or endless.
LEMMA RemainingParts ==
  ASSUME NEW x
  PROVE  Remaining(x) = IF HeadLeft(x) = Endless THEN Endless
                        ELSE OwnLeft(x) + Cardinality(Pending(x)) + HeadLeft(x) + ContinuationLeft(x)
BY DEF Remaining, HeadLeft, OwnLeft, ContinuationLeft

\* A navigator's order has each ordinal once.
LEMMA OnePlace ==
  ASSUME NEW order, NEW n \in Nat, Covers(order, n), NEW a \in 1..n, NEW b \in 1..n,
         order[a] = order[b]
  PROVE  a = b
<1>1. Len(order) = n /\ (\A m \in 1..n : order[m] \in 1..n)
      /\ \A i \in 1..n : \E m \in 1..n : order[m] = i
  BY DEF Covers, Lists
<1>2. PICK f : f = [m \in 1..n |-> order[m]]
  OBVIOUS
<1>3. f \in [1..n -> 1..n] /\ \A i \in 1..n : \E m \in 1..n : f[m] = i
  BY <1>1, <1>2
<1>4. PICK S : S = 1..n
  OBVIOUS
<1>5. f \in Surjection(S, S)
  BY <1>3, <1>4 DEF Surjection
<1>6. IsFiniteSet(S)
  BY <1>4, FS_Interval
<1>7. f \in Injection(S, S)
  BY <1>5, <1>6, FS_SurjSameCardinalityImpliesInj
<1>8. a \in S /\ b \in S /\ f[a] = f[b]
  BY <1>2, <1>4
<1> QED BY <1>7, <1>8 DEF Injection, IsInjective

\* Playing what next() gives leaves one less.
LEMMA SelectNext ==
  ASSUME NEW nav, NEW n \in Nat, NEW mark, NavOk(nav, n, mark), NEW repeat, NEW luck,
         NavRemaining(nav, repeat) # Endless, NavNext(nav, repeat) # 0,
         NEW r, r = NavSelect(nav, NavNext(nav, repeat), luck)
  PROVE  /\ NavRemaining(nav, repeat) \in 1..n
         /\ NavRemaining(r, repeat) = NavRemaining(nav, repeat) - 1
<1>1. ~ Roams(nav) /\ ~ (repeat /\ Size(nav) > 0)
  BY DEF NavRemaining
<1>2. nav \in Navigator /\ Covers(nav.order, n) /\ nav.position \in 0..n
  BY DEF NavOk
<1>3. Size(nav) = n /\ \A m \in 1..n : nav.order[m] \in 1..n
  BY <1>2 DEF Covers, Lists, Size
<1>4. NavRemaining(nav, repeat) = n - nav.position
  BY <1>1, <1>3 DEF NavRemaining
<1>5. nav.position < n /\ NavNext(nav, repeat) = nav.order[nav.position + 1]
  BY <1>1, <1>3 DEF NavNext
<1>6. PICK next : next = NavNext(nav, repeat)
  OBVIOUS
<1>7. PICK p \in 1..n : p = nav.position + 1
  BY <1>2, <1>5
<1>8. next = nav.order[p] /\ next \in 1..n /\ next \in 0..n
  BY <1>3, <1>5, <1>6, <1>7
<1>9. PlaceOf(nav, next) = p
  <2>1. PICK place : place = PlaceOf(nav, next)
    OBVIOUS
  <2>2. place \in 1..n /\ nav.order[place] = next
    BY <1>2, <1>8, <2>1, PlaceIs
  <2>3. nav.order[place] = nav.order[p]
    BY <1>8, <2>2
  <2>4. place = p
    BY <1>2, <2>2, <2>3, OnePlace
  <2> QED BY <2>1, <2>4
<1>10. r.kind = nav.kind /\ r.order = nav.order /\ r.position = p
  BY <1>2, <1>6, <1>9 DEF NavSelect, Navigator
<1>11. Size(r) = n /\ ~ Roams(r) /\ ~ (repeat /\ Size(r) > 0)
  BY <1>1, <1>3, <1>10 DEF Size, Roams
<1>12. NavRemaining(r, repeat) = n - p
  BY <1>10, <1>11 DEF NavRemaining
<1> QED BY <1>2, <1>4, <1>5, <1>7, <1>12

\* What markCurrent() does to what remains, for each kind of row.
LEMMA MarkedLeft ==
  ASSUME NEW x, QueueOk(x), HasCurrent(x), NEW r, r = MarkCurrent(x)
  PROVE  /\ r.repeat = x.repeat /\ CountOf(r, "Continuation") = CountOf(x, "Continuation")
         /\ Current(x).part = "Item" =>
              r.inHead = x.inHead /\ r.nav = x.nav /\ r.contMark = x.contMark
         /\ Current(x).part = "Head" =>
              /\ r.inHead = TRUE /\ r.contMark = x.contMark
              /\ r.nav = NavSelect(x.nav, OrdinalOf(x, x.playing), x.luck)
         /\ Current(x).part = "Continuation" =>
              r.inHead = FALSE /\ r.contMark = OrdinalOf(x, x.playing)
<1>1. CountOf(r, "Continuation") = CountOf(x, "Continuation")
  <2>1. Marks(x, r)
    BY MarkCurrentIs
  <2>2. Rows(r) = Rows(x) /\ \A i \in Rows(x) : r.entries[i].part = x.entries[i].part
    BY <2>1 DEF Marks, Rows
  <2>3. RowsOf(r, "Continuation") = RowsOf(x, "Continuation")
    BY <2>2 DEF RowsOf
  <2> QED BY <2>3 DEF CountOf
<1>2. Current(x).part \in Parts
  BY SomeRows DEF EntryType
<1>3. PICK ordinal : ordinal = OrdinalOf(x, x.playing)
  OBVIOUS
<1>4. CASE Current(x).part = "Head"
  <2>1. r = [x EXCEPT !.inHead = TRUE, !.headMark = ordinal, !.headStart = 0,
                      !.nav = NavSelect(@, ordinal, x.luck)]
    BY <1>3, <1>4 DEF MarkCurrent
  <2> QED BY <1>1, <1>3, <1>4, <2>1 DEF QueueOk, QueueFields
<1>5. CASE Current(x).part = "Continuation"
  <2>1. r = [x EXCEPT !.inHead = FALSE, !.contMark = ordinal]
    BY <1>3, <1>5 DEF MarkCurrent
  <2> QED BY <1>1, <1>3, <1>5, <2>1 DEF QueueOk, QueueFields
<1>6. CASE Current(x).part = "Item"
  <2>1. r = [x EXCEPT !.entries[x.playing].pending = FALSE]
    BY <1>6 DEF MarkCurrent
  <2>2. PICK es : es = [x.entries EXCEPT ![x.playing].pending = FALSE]
    OBVIOUS
  <2>3. r = [x EXCEPT !.entries = es]
    BY <2>1, <2>2
  <2> QED BY <1>1, <1>6, <2>3 DEF QueueOk, QueueFields
<1>7. CASE Current(x).part = "Other"
  BY <1>1, <1>7 DEF MarkCurrent
<1> QED BY <1>2, <1>4, <1>5, <1>6, <1>7 DEF Parts

\* Rows that go take no more from the continuation than they are.
LEMMA KeptGiven ==
  ASSUME NEW x, QueueOk(x), NEW kept, kept \subseteq Rows(x), NEW r, QueueOk(r),
         r.entries = EntriesAt(x, kept)
  PROVE  /\ CountOf(r, "Continuation") <= CountOf(x, "Continuation")
         /\ (\A i \in Rows(x) : i \in kept => ~ IsPending(x.entries[i])) => Pending(r) = {}
         /\ Len(r.entries) = Len(x.entries) => r.entries = x.entries
<1>1. /\ Len(r.entries) = Cardinality(kept)
      /\ \A i \in kept : Count(kept, i) \in Rows(r) /\ r.entries[Count(kept, i)] = x.entries[i]
      /\ \A m \in Rows(r) : \E i \in kept : Count(kept, i) = m /\ r.entries[m] = x.entries[i]
  BY KeptRows
<1>2. PICK n \in Nat : n = Len(x.entries) /\ Rows(x) = 1..n
  BY SomeRows
<1>3. CountOf(r, "Continuation") <= CountOf(x, "Continuation")
  <2>1. PICK S, T, U : /\ S = {i \in kept : x.entries[i].part = "Continuation"}
                       /\ T = RowsOf(r, "Continuation") /\ U = RowsOf(x, "Continuation")
    OBVIOUS
  <2>2. S \subseteq U /\ U \subseteq 1..n
    BY <1>2, <2>1 DEF RowsOf
  <2>3. IsFiniteSet(U) /\ IsFiniteSet(S) /\ Cardinality(S) <= Cardinality(U)
        /\ Cardinality(U) \in Nat /\ Cardinality(S) \in Nat
    <3>1. IsFiniteSet(U)
      BY <2>2, CountAll
    <3> QED BY <2>2, <3>1, FS_Subset, FS_CardinalityType
  <2>4. PICK f : f = [i \in S |-> Count(kept, i)]
    OBVIOUS
  <2>5. \A i \in S : f[i] \in T
    BY <1>1, <2>1, <2>4 DEF RowsOf
  <2>6. \A m \in T : \E i \in S : f[i] = m
    BY <1>1, <2>1, <2>4 DEF RowsOf
  <2>7. f \in Surjection(S, T)
    BY <2>4, <2>5, <2>6 DEF Surjection
  <2>8. Cardinality(T) <= Cardinality(S) /\ Cardinality(T) \in Nat
    BY <2>3, <2>7, FS_Surjection, FS_CardinalityType
  <2> QED BY <2>1, <2>3, <2>8 DEF CountOf
<1>4. (\A i \in Rows(x) : i \in kept => ~ IsPending(x.entries[i])) => Pending(r) = {}
  BY <1>1 DEF Pending
<1>5. ASSUME Len(r.entries) = Len(x.entries) PROVE r.entries = x.entries
  <2>1. IsFiniteSet(1..n) /\ Cardinality(1..n) = n
    BY <1>2, FS_Interval
  <2>2. Cardinality(kept) = n /\ kept \subseteq 1..n
    BY <1>1, <1>2, <1>5
  <2>3. kept = 1..n
    BY <2>1, <2>2, FS_Subset
  <2>4. PICK s \in Seq(EntryType) : s = x.entries
    BY DEF QueueOk, Entries
  <2>5. Picked(s, 1..Len(s)) = s
    BY <2>4, PickedAll
  <2> QED BY <1>2, <2>3, <2>4, <2>5 DEF EntriesAt
<1> QED BY <1>3, <1>4, <1>5

\* What dropStaleWave() does to what remains: no more of it, and the same if it
\* drops nothing.
LEMMA DroppedLeft ==
  ASSUME NEW x, QueueOk(x), HasCurrent(x), NEW r, r = DropStaleWave(x)
  PROVE  \/ r = x
         \/ /\ Pending(x) = {} /\ Pending(r) = {} /\ HasCurrent(r)
            /\ r.inHead = x.inHead /\ r.nav = x.nav /\ r.repeat = x.repeat /\ r.own = x.own
            /\ r.contMark = x.contMark
            /\ CountOf(r, "Continuation") <= CountOf(x, "Continuation")
            /\ Len(r.entries) = Len(x.entries) =>
                 CountOf(r, "Continuation") = CountOf(x, "Continuation")
<1>1. SUFFICES ASSUME r # x
      PROVE  /\ Pending(x) = {} /\ Pending(r) = {} /\ HasCurrent(r)
             /\ r.inHead = x.inHead /\ r.nav = x.nav /\ r.repeat = x.repeat /\ r.own = x.own
             /\ r.contMark = x.contMark
             /\ CountOf(r, "Continuation") <= CountOf(x, "Continuation")
             /\ Len(r.entries) = Len(x.entries) =>
                  CountOf(r, "Continuation") = CountOf(x, "Continuation")
  OBVIOUS
<1>2. PICK stale : stale = {i \in RowsOf(x, "Continuation") :
                              /\ x.entries[i].giver = "history" /\ FollowsSeeds
                              /\ x.entries[i].seeds # x.hint.version
                              /\ OrdinalOf(x, i) > x.contMark}
  OBVIOUS
<1>3. r = RemoveRows(x, stale) /\ Pending(x) = {} /\ Current(x).giver # "history"
  BY <1>1, <1>2 DEF DropStaleWave
<1>4. stale \subseteq Rows(x) /\ stale \cap Rows(x) = stale /\ x.playing \notin stale
  BY <1>2, <1>3 DEF RowsOf, Current
<1>5. stale \cap RowsOf(x, "Head") = {}
  BY <1>2 DEF RowsOf
<1>6. PICK kept, y : kept = Rows(x) \ stale /\ y = WithoutRows(x, stale, EntriesAt(x, kept))
  OBVIOUS
<1>7. r = KnownStart(y)
  BY <1>3, <1>4, <1>5, <1>6 DEF RemoveRows, When
<1>8. QueueOk(y) /\ y.entries = EntriesAt(x, kept) /\ HasCurrent(y)
  BY <1>4, <1>6, WithoutIs
<1>9. /\ y.inHead = x.inHead /\ y.nav = x.nav /\ y.repeat = x.repeat /\ y.own = x.own
      /\ y.contMark = MarkAfter(x, stale, "Continuation", x.contMark)
  BY <1>6 DEF WithoutRows, QueueOk, QueueFields
<1>10. y.contMark = x.contMark
  <2>1. x.contMark \in Int
    BY DEF QueueOk
  <2>2. \A i \in RowsOf(x, "Continuation") : OrdinalOf(x, i) \in Int
    BY OrdinalTells
  <2>3. PICK gone : gone = {i \in stale \cap RowsOf(x, "Continuation") :
                              OrdinalOf(x, i) <= x.contMark}
    OBVIOUS
  <2>4. gone = {}
    BY <1>2, <2>1, <2>2, <2>3
  <2>5. y.contMark = x.contMark - Cardinality(gone)
    BY <1>9, <2>3 DEF MarkAfter
  <2> QED BY <2>1, <2>4, <2>5, FS_EmptySet
<1>11. /\ CountOf(y, "Continuation") <= CountOf(x, "Continuation")
       /\ Pending(y) = {}
       /\ Len(y.entries) = Len(x.entries) => y.entries = x.entries
  <2>1. kept \subseteq Rows(x)
    BY <1>6
  <2>2. \A i \in Rows(x) : ~ IsPending(x.entries[i])
    BY <1>3 DEF Pending
  <2> QED BY <1>8, <2>1, <2>2, KeptGiven
<1>12. LeftAlike(y, r)
  BY <1>7, <1>8 DEF KnownStart, LeftAlike, QueueOk, QueueFields
<1>13. CountOf(r, "Continuation") = CountOf(y, "Continuation") /\ Pending(r) = Pending(y)
       /\ HasCurrent(r)
  BY <1>8, <1>12 DEF LeftAlike, CountOf, RowsOf, Rows, Pending, HasCurrent
<1>14. Len(y.entries) = Len(x.entries) =>
         CountOf(y, "Continuation") = CountOf(x, "Continuation")
  BY <1>11 DEF CountOf, RowsOf, Rows
<1> QED BY <1>3, <1>9, <1>10, <1>11, <1>12, <1>13, <1>14 DEF LeftAlike

\* The entry that next() gave plays, and nothing else changed.
Played(x, row, n) ==
  /\ QueueOk(n) /\ HasCurrent(n) /\ n.luck = x.luck /\ Len(n.entries) = Len(x.entries)
  /\ n.own = x.own /\ n.repeat = x.repeat /\ Pending(n) = Pending(x) \ {row}
  /\ CountOf(n, "Continuation") = CountOf(x, "Continuation")
  /\ x.entries[row].part = "Item" => n.inHead = x.inHead /\ n.nav = x.nav /\ n.contMark = x.contMark
  /\ x.entries[row].part = "Head" =>
       /\ n.inHead = TRUE /\ n.contMark = x.contMark
       /\ n.nav = NavSelect(x.nav, OrdinalOf(x, row), x.luck)
  /\ x.entries[row].part = "Continuation" =>
       n.inHead = FALSE /\ n.contMark = OrdinalOf(x, row)

\* select() of the row that next() gives moves no waiting item.
LEMMA SelectPlays ==
  ASSUME NEW x, QueueOk(x), Together(x), NEW row \in Rows(x),
         Pending(x) # {} => row = Least(Pending(x)), NEW r, r = Select(x, row)
  PROVE  \E n : Played(x, row, n) /\ r = DropStaleWave(n)
<1>0. PICK m : m = [x EXCEPT !.playing = row, !.changed = @ \/ IsPending(x.entries[row])]
  OBVIOUS
<1>1. PICK n : n = MarkCurrent(m)
  OBVIOUS
<1>2. /\ m.entries = x.entries /\ m.playing = row /\ m.contMark = x.contMark /\ m.hint = x.hint
      /\ m.changed \in BOOLEAN /\ DOMAIN m = DOMAIN x /\ m.inHead = x.inHead /\ m.nav = x.nav
      /\ m.own = x.own /\ m.repeat = x.repeat /\ m.luck = x.luck
  BY <1>0 DEF QueueOk, QueueFields
<1>3. row \in 1..Len(x.entries) /\ row # 0 /\ row \in 0..Len(x.entries)
  BY SomeRows
<1>4. QueueOk(m)
  BY <1>2, <1>3 DEF QueueOk
<1>5. HasCurrent(m) /\ Current(m) = x.entries[row] /\ Rows(m) = Rows(x)
  BY <1>2, <1>3, <1>4, SomeRows DEF Current, Rows
<1>6. Pending(m) = Pending(x) /\ CountOf(m, "Continuation") = CountOf(x, "Continuation")
      /\ OrdinalOf(m, row) = OrdinalOf(x, row)
  BY <1>2, <1>5 DEF Pending, CountOf, RowsOf, OrdinalOf
<1>7. Marks(m, n)
  BY <1>1, <1>4, MarkCurrentIs
<1>8. QueueOk(n) /\ n.playing = row /\ Len(n.entries) = Len(x.entries) /\ n.own = x.own
      /\ Pending(n) = Pending(x) \ {row}
  BY <1>2, <1>6, <1>7 DEF Marks
<1>9. HasCurrent(n)
  BY <1>3, <1>8, SomeRows
<1>10. n.luck = x.luck
  <2>1. PICK ordinal : ordinal = OrdinalOf(m, m.playing)
    OBVIOUS
  <2>2. Current(m).part \in Parts
    BY <1>4, <1>5, SomeRows DEF EntryType
  <2> QED BY <1>1, <1>2, <1>4, <2>1, <2>2 DEF MarkCurrent, Parts, QueueOk, QueueFields
<1>11. Played(x, row, n)
  <2>1. /\ n.repeat = m.repeat /\ CountOf(n, "Continuation") = CountOf(m, "Continuation")
        /\ Current(m).part = "Item" =>
             n.inHead = m.inHead /\ n.nav = m.nav /\ n.contMark = m.contMark
        /\ Current(m).part = "Head" =>
             /\ n.inHead = TRUE /\ n.contMark = m.contMark
             /\ n.nav = NavSelect(m.nav, OrdinalOf(m, m.playing), m.luck)
        /\ Current(m).part = "Continuation" =>
             n.inHead = FALSE /\ n.contMark = OrdinalOf(m, m.playing)
    BY <1>1, <1>4, <1>5, MarkedLeft
  <2>2. PICK e : e = x.entries[row] /\ e = Current(m)
    BY <1>5
  <2> QED BY <1>2, <1>6, <1>8, <1>9, <1>10, <2>1, <2>2 DEF Played
<1>12. GatherPending(n) = n
  <2>1. PICK P : P = Pending(n)
    OBVIOUS
  <2>2. PICK a, b : Run(Pending(x), a, b)
    BY DEF Together
  <2>3. row \in Nat /\ a \in Nat /\ b \in Nat /\ Pending(x) = a..b
    BY <1>3, <2>2 DEF Run
  <2>4. P = (row + 1)..(row + Cardinality(P))
    <3>1. CASE a > b
      <4>1. P = {}
        BY <1>8, <2>1, <2>3, <3>1
      <4> QED BY <2>3, <4>1, FS_EmptySet
    <3>2. CASE a <= b
      <4>1. row = a
        <5>1. Least(Pending(x)) = a /\ Pending(x) # {}
          BY <2>2, <3>2, RunEnds
        <5> QED BY <5>1
      <4>2. P = (a + 1)..b
        BY <1>8, <2>1, <2>3, <4>1
      <4>3. Cardinality(P) = b - a
        <5>1. PICK c \in Int : c = a + 1
          BY <2>3
        <5>2. P = c..b /\ b \in Int
          BY <2>3, <4>2, <5>1
        <5>3. Cardinality(P) = IF c > b THEN 0 ELSE b - c + 1
          BY <5>1, <5>2, FS_Interval
        <5> QED BY <2>3, <3>2, <5>1, <5>3
      <4> QED BY <2>3, <4>1, <4>2, <4>3
    <3> QED BY <2>3, <3>1, <3>2
  <2>5. n.playing = row
    BY <1>8
  <2> QED BY <2>1, <2>4, <2>5 DEF GatherPending
<1>13. r = DropStaleWave(n)
  BY <1>0, <1>1, <1>12 DEF Select
<1> QED BY <1>11, <1>13

\* The generator draws as many as it can.
LEMMA DrawsReach ==
  ASSUME NEW n \in Nat, NEW luck, Draws(luck, n)
  PROVE  n <= Len(luck) /\ Len(luck) \in Nat
<1>1. PICK k \in Nat : k = Len(luck) /\ DOMAIN luck = 1..k
  BY DEF Draws
<1>2. \A i \in 1..n : \E p \in 1..k : luck[p] = i
  BY <1>1 DEF Draws
<1>3. PICK f : f = [i \in 1..n |-> CHOOSE p \in 1..k : luck[p] = i]
  OBVIOUS
<1>4. \A i \in 1..n : f[i] \in 1..k /\ luck[f[i]] = i
  BY <1>2, <1>3
<1>5. f \in [1..n -> 1..k] /\ \A i, j \in 1..n : f[i] = f[j] => i = j
  BY <1>3, <1>4
<1>6. PICK S, T : S = 1..n /\ T = 1..k
  OBVIOUS
<1>7. f \in Injection(S, T)
  BY <1>5, <1>6 DEF Injection, IsInjective
<1>8. IsFiniteSet(S) /\ IsFiniteSet(T) /\ Cardinality(S) = n /\ Cardinality(T) = k
  BY <1>6, FS_Interval
<1>9. n <= k
  BY <1>7, <1>8, FS_Injection
<1> QED BY <1>1, <1>9

\* What remained beside the current entry is what remains with the next one.
LEMMA PlayedLeft ==
  ASSUME RowsInv, NavReady, NEW l \in setting.lucks, NEW x, x = Fresh(l), NextRow(q) > 0,
         NEW n, Played(x, NextRow(q), n), Remaining(q) # Endless
  PROVE  /\ Remaining(n) = Remaining(q) - OwnLeft(q)
         /\ HeadLeft(n) \in Nat /\ HeadLeft(n) # Endless
<1>1. QueueOk(q) /\ Together(q) /\ q.contMark \in Nat
  BY DEF RowsInv, RowsFine, NavReady, NavFine, MarksFine, MarksNear
<1>2. QueueOk(x) /\ LeftAlike(q, x) /\ x.luck = l /\ DOMAIN x = DOMAIN q
  BY <1>1, LuckIs DEF LeftAlike, Fresh, QueueOk, QueueFields
<1>3. /\ Rows(x) = Rows(q) /\ Pending(x) = Pending(q)
      /\ \A i : OrdinalOf(x, i) = OrdinalOf(q, i)
      /\ CountOf(x, "Continuation") = CountOf(q, "Continuation")
  BY <1>2 DEF LeftAlike, Rows, Pending, RowsOf, CountOf, OrdinalOf
<1>4. PICK next, left, row, more :
        /\ next = IF q.inHead THEN NavNext(q.nav, WrapsHead(q)) ELSE 0
        /\ left = IF q.inHead THEN NavRemaining(q.nav, WrapsHead(q)) ELSE 0
        /\ row = IndexOf(q, "Head", next) /\ more = IndexOf(q, "Continuation", q.contMark + 1)
  OBVIOUS
<1>5. next \in 0..CountOf(q, "Head") /\ left \in Nat /\ (next = 0 <=> left = 0)
  BY <1>4, HeadGives
<1>6. HeadLeft(q) = left
  BY <1>4 DEF HeadLeft
<1>7. PICK waiting, given, over, own :
        /\ waiting = Cardinality(Pending(q)) /\ given = CountOf(q, "Continuation")
        /\ over = ContinuationLeft(q) /\ own = OwnLeft(q)
  OBVIOUS
<1>8. waiting \in Nat /\ given \in Nat /\ over \in Nat /\ own \in 0..1
      /\ over = (IF given - q.contMark > 0 THEN given - q.contMark ELSE 0)
  <2>1. PICK s \in Nat : s = Len(q.entries) /\ Rows(q) = 1..s
    BY <1>1, SomeRows
  <2>2. waiting \in Nat /\ given \in Nat
    <3>1. Pending(q) \subseteq 1..s /\ RowsOf(q, "Continuation") \subseteq 1..s
      BY <2>1 DEF Pending, RowsOf
    <3> QED BY <1>7, <3>1, CountAll DEF CountOf
  <2> QED BY <1>1, <1>7, <2>2 DEF ContinuationLeft, OwnLeft
<1>9. left # Endless /\ Remaining(q) = own + waiting + left + over
  BY <1>6, <1>7, RemainingParts
<1>10. WrapsHead(n) = WrapsHead(q)
  BY <1>2 DEF Played, LeftAlike, WrapsHead
<1>11. CountOf(n, "Continuation") = given /\ OwnLeft(n) = 1
  BY <1>3, <1>7 DEF Played, OwnLeft
<1>12. NextRow(q) = IF Pending(q) # {} THEN Least(Pending(q)) ELSE IF next # 0 THEN row ELSE more
  BY <1>4 DEF NextRow
<1>13. CASE Pending(q) # {}
  <2>1. PICK i, P : P = Pending(q) /\ i = NextRow(q) /\ i = Least(P)
    BY <1>12, <1>13
  <2>2. i \in P /\ IsFiniteSet(P)
    <3>1. PICK s \in Nat : s = Len(q.entries) /\ Rows(q) = 1..s
      BY <1>1, SomeRows
    <3>2. P \subseteq 1..s
      BY <2>1, <3>1 DEF Pending
    <3>3. P \subseteq Nat /\ P # {}
      BY <1>13, <2>1, <3>2
    <3> QED BY <2>1, <3>2, <3>3, CountAll, LeastIs
  <2>3. x.entries[i].part = "Item"
    BY <1>2, <2>1, <2>2 DEF LeftAlike, Pending, IsPending
  <2>4. n.inHead = q.inHead /\ n.nav = q.nav /\ n.contMark = q.contMark /\ Pending(n) = P \ {i}
    BY <1>2, <1>3, <2>1, <2>3 DEF Played, LeftAlike
  <2>5. Cardinality(Pending(n)) = waiting - 1
    BY <1>7, <2>1, <2>2, <2>4, FS_RemoveElement
  <2>6. HeadLeft(n) = left /\ ContinuationLeft(n) = over
    BY <1>4, <1>7, <1>10, <1>11, <2>4 DEF HeadLeft, ContinuationLeft
  <2>7. Remaining(n) = 1 + (waiting - 1) + left + over
    BY <1>9, <1>11, <2>5, <2>6, RemainingParts
  <2> QED BY <1>5, <1>7, <1>8, <1>9, <2>6, <2>7
<1>14. CASE Pending(q) = {} /\ next # 0
  <2>1. PICK size, i : size = HeadSize(q) /\ i = NextRow(q)
    OBVIOUS
  <2>2. size \in Nat /\ size = CountOf(q, "Head") /\ NavOk(q.nav, size, q.headMark)
    BY <1>1, <2>1, HeadSizeIs DEF NavReady, NavFine
  <2>3. next \in 1..CountOf(q, "Head") /\ i = row
    BY <1>5, <1>12, <1>14, <2>1, <2>2
  <2>4. i \in RowsOf(q, "Head") /\ OrdinalOf(q, i) = next
    BY <1>1, <1>4, <2>3, IndexIs
  <2>5. x.entries[i].part = "Head" /\ OrdinalOf(x, i) = next
    BY <1>2, <1>3, <2>4 DEF LeftAlike, RowsOf
  <2>6. /\ n.inHead = TRUE /\ n.contMark = q.contMark /\ n.nav = NavSelect(q.nav, next, l)
        /\ Pending(n) = {}
    BY <1>2, <1>3, <1>14, <2>1, <2>5 DEF Played, LeftAlike
  <2>7. q.inHead /\ next = NavNext(q.nav, WrapsHead(q)) /\ left = NavRemaining(q.nav, WrapsHead(q))
    BY <1>4, <1>14
  <2>8. PICK wraps : wraps = WrapsHead(q)
    OBVIOUS
  <2>9. left \in 1..size /\ NavRemaining(n.nav, wraps) = left - 1
    <3>1. PICK nav, given2 : nav = q.nav /\ given2 = n.nav
      OBVIOUS
    <3>2. NavOk(nav, size, q.headMark) /\ NavRemaining(nav, wraps) = left
          /\ NavNext(nav, wraps) = next /\ given2 = NavSelect(nav, NavNext(nav, wraps), l)
      BY <2>2, <2>6, <2>7, <2>8, <3>1
    <3> QED BY <1>9, <1>14, <2>2, <3>1, <3>2, SelectNext
  <2>10. HeadLeft(n) = left - 1
    BY <1>10, <2>6, <2>8, <2>9 DEF HeadLeft
  <2>11. left - 1 # Endless
    <3>1. Draws(l, size)
      BY <2>1 DEF NavReady, LucksReach
    <3>2. size <= Len(l)
      BY <2>2, <3>1, DrawsReach
    <3>3. Len(l) < Endless /\ Len(l) \in Nat
      BY <3>1, LucksFit DEF RowsInv, Draws
    <3> QED BY <2>2, <2>9, <3>2, <3>3 DEF Endless
  <2>12. Cardinality(Pending(n)) = 0 /\ waiting = 0 /\ ContinuationLeft(n) = over
    BY <1>7, <1>11, <1>14, <2>6, FS_EmptySet DEF ContinuationLeft
  <2>13. Remaining(n) = 1 + 0 + (left - 1) + over
    BY <1>11, <2>10, <2>11, <2>12, RemainingParts
  <2> QED BY <1>7, <1>8, <1>9, <2>2, <2>9, <2>10, <2>11, <2>12, <2>13
<1>15. CASE Pending(q) = {} /\ next = 0
  <2>1. PICK i : i = NextRow(q) /\ i = more /\ i > 0
    BY <1>12, <1>15
  <2>2. i \in RowsOf(q, "Continuation") /\ OrdinalOf(q, i) = q.contMark + 1
        /\ q.contMark + 1 \in 1..given
    <3>1. i # 0
      BY <2>1
    <3> QED BY <1>1, <1>4, <1>7, <2>1, <3>1, IndexIs
  <2>3. x.entries[i].part = "Continuation" /\ OrdinalOf(x, i) = q.contMark + 1
    BY <1>2, <1>3, <2>2 DEF LeftAlike, RowsOf
  <2>4. n.inHead = FALSE /\ n.contMark = q.contMark + 1 /\ Pending(n) = {}
    BY <1>3, <1>15, <2>1, <2>3 DEF Played
  <2>5. HeadLeft(n) = 0 /\ 0 # Endless
    BY <2>4 DEF HeadLeft, Endless
  <2>6. Cardinality(Pending(n)) = 0 /\ waiting = 0 /\ left = 0
    BY <1>5, <1>7, <1>15, <2>4, FS_EmptySet
  <2>7. ContinuationLeft(n) = over - 1
    <3>1. ContinuationLeft(n) = IF given - (q.contMark + 1) > 0 THEN given - (q.contMark + 1) ELSE 0
      BY <1>11, <2>4 DEF ContinuationLeft
    <3> QED BY <1>1, <1>8, <2>2, <3>1
  <2>8. Remaining(n) = 1 + 0 + 0 + (over - 1)
    BY <1>11, <2>5, <2>6, <2>7, RemainingParts
  <2> QED BY <1>7, <1>8, <1>9, <2>5, <2>6, <2>8
<1> QED BY <1>13, <1>14, <1>15

\* The end of a track: select() of what next() gives, and what that drops.
LEMMA AdvanceStep ==
  ASSUME RowsInv, NavReady, Remaining(q) # Endless, Advance
  PROVE  IF Len(q'.entries) = Len(q.entries) THEN Remaining(q') = Remaining(q) - OwnLeft(q)
                                             ELSE Remaining(q') <= Remaining(q) - OwnLeft(q)
<1>1. PICK l, x, r :
        /\ l \in setting.lucks /\ x = Fresh(l) /\ r = Select(x, NextRow(q)) /\ Becomes(r)
        /\ NextRow(q) > 0
  BY DEF Advance, SelectRow
<1>2. QueueOk(q) /\ Together(q) /\ q.contMark \in Nat
  BY DEF RowsInv, RowsFine, NavReady, NavFine, MarksFine, MarksNear
<1>3. QueueOk(x) /\ Together(x) /\ x.entries = q.entries /\ Rows(x) = Rows(q)
  BY <1>1, FreshIs DEF RowsInv, RowsFine
<1>4. PICK row : row = NextRow(q)
  OBVIOUS
<1>5. row \in Rows(x) /\ Pending(x) = Pending(q) /\ (Pending(x) # {} => row = Least(Pending(x)))
  <2>1. row \in Rows(q)
    BY <1>1, <1>2, <1>4, NextIsRow
  <2>2. Pending(x) = Pending(q)
    BY <1>3 DEF Pending
  <2>3. Pending(q) # {} => row = Least(Pending(q))
    BY <1>4 DEF NextRow
  <2> QED BY <1>3, <2>1, <2>2, <2>3
<1>6. PICK n : Played(x, row, n) /\ r = DropStaleWave(n)
  BY <1>1, <1>3, <1>4, <1>5, SelectPlays
<1>7. PICK before : before = Remaining(q) - OwnLeft(q)
  OBVIOUS
<1>8. Remaining(n) = before /\ HeadLeft(n) \in Nat /\ HeadLeft(n) # Endless
  BY <1>1, <1>4, <1>6, <1>7, PlayedLeft
<1>9. QueueOk(n) /\ HasCurrent(n) /\ Len(n.entries) = Len(q.entries)
  BY <1>3, <1>6 DEF Played
<1>10. LeftAlike(r, q')
  <2>1. QueueOk(r)
    BY <1>6, <1>9, DropStaleWaveIs
  <2>2. q' = [r EXCEPT !.luck = <<>>]
    BY <1>1 DEF Becomes
  <2>3. PICK y : y = q'
    OBVIOUS
  <2>4. y = [r EXCEPT !.luck = <<>>]
    BY <2>2, <2>3
  <2>5. LeftAlike(r, y)
    BY <2>1, <2>4 DEF LeftAlike, QueueOk, QueueFields
  <2> QED BY <2>3, <2>5
<1>11. Remaining(q') = Remaining(r) /\ Len(q'.entries) = Len(r.entries)
  <2>1. PICK y : y = q'
    OBVIOUS
  <2>2. LeftAlike(r, y)
    BY <1>10, <2>1
  <2>3. Remaining(y) = Remaining(r) /\ Len(y.entries) = Len(r.entries)
    BY <2>2, SameLeft DEF LeftAlike
  <2> QED BY <2>1, <2>3
<1>12. IF Len(r.entries) = Len(q.entries) THEN Remaining(r) = before ELSE Remaining(r) <= before
  <2>1. CASE r = n
    BY <1>8, <1>9, <2>1
  <2>2. CASE r # n
    <3>1. /\ Pending(n) = {} /\ Pending(r) = {} /\ HasCurrent(r)
          /\ r.inHead = n.inHead /\ r.nav = n.nav /\ r.repeat = n.repeat /\ r.own = n.own
          /\ r.contMark = n.contMark
          /\ CountOf(r, "Continuation") <= CountOf(n, "Continuation")
          /\ Len(r.entries) = Len(n.entries) =>
               CountOf(r, "Continuation") = CountOf(n, "Continuation")
      BY <1>6, <1>9, <2>2, DroppedLeft
    <3>2. HeadLeft(r) = HeadLeft(n)
      <4>1. WrapsHead(r) = WrapsHead(n)
        BY <3>1 DEF WrapsHead
      <4> QED BY <3>1, <4>1 DEF HeadLeft
    <3>3. PICK a, b, head, over, under :
            /\ a = CountOf(n, "Continuation") /\ b = CountOf(r, "Continuation")
            /\ head = HeadLeft(n) /\ over = ContinuationLeft(n) /\ under = ContinuationLeft(r)
      OBVIOUS
    <3>4. a \in Nat /\ b \in Nat
      <4>1. ASSUME NEW y, QueueOk(y) PROVE CountOf(y, "Continuation") \in Nat
        <5>1. PICK s \in Nat : s = Len(y.entries) /\ Rows(y) = 1..s
          BY <4>1, SomeRows
        <5>2. RowsOf(y, "Continuation") \subseteq 1..s
          BY <5>1 DEF RowsOf
        <5> QED BY <5>2, CountAll DEF CountOf
      <4>2. QueueOk(r)
        BY <1>6, <1>9, DropStaleWaveIs
      <4> QED BY <1>9, <3>3, <4>1, <4>2
    <3>5. PICK mark \in Int : mark = n.contMark
      BY <1>9 DEF QueueOk
    <3>6. over = (IF a - mark > 0 THEN a - mark ELSE 0)
          /\ under = (IF b - mark > 0 THEN b - mark ELSE 0)
      BY <3>1, <3>3, <3>5 DEF ContinuationLeft
    <3>7. Remaining(n) = 1 + 0 + head + over /\ Remaining(r) = 1 + 0 + head + under
      <4>1. OwnLeft(n) = 1 /\ OwnLeft(r) = 1
        BY <1>9, <3>1 DEF OwnLeft
      <4>2. Cardinality(Pending(n)) = 0 /\ Cardinality(Pending(r)) = 0
        BY <3>1, FS_EmptySet
      <4> QED BY <1>8, <3>2, <3>3, <4>1, <4>2, RemainingParts
    <3>8. b <= a /\ (Len(r.entries) = Len(q.entries) => b = a)
      BY <1>9, <3>1, <3>3
    <3>9. head \in Nat /\ before = 1 + 0 + head + over
      BY <1>8, <3>3, <3>7
    <3> QED BY <3>4, <3>6, <3>7, <3>8, <3>9
  <2> QED BY <2>1, <2>2
<1> QED BY <1>7, <1>11, <1>12

\* Each track that plays because the one before ended uses up exactly one of
\* what remained, so a pass ends and misses nothing (core/queue.cpp, next(),
\* select() and remaining()).
THEOREM AdvanceUsesOne == Spec => AdvanceConsumesOne
<1>1. RowsInv /\ NavReady /\ [Next]_<<vars, setting>>
      => [LET before == Remaining(q) - (IF HasCurrent(q) THEN 1 ELSE 0)
              consumed == IF Len(q'.entries) = Len(q.entries) THEN Remaining(q') = before
                                                              ELSE Remaining(q') <= before
          IN Remaining(q) # Endless /\ ~ consumed => ~ Advance]_vars
  BY AdvanceStep DEF OwnLeft
<1> QED BY <1>1, NavAlways, PTL DEF Spec, AdvanceConsumesOne


-----------------------------------------------------------------------------
(* setLayerItems(): what waits is what the layer was given *)

\* What waits in fs waited in es, in the same order.
WaitsAs(es, fs) ==
  /\ \A j \in 1..Len(fs) : IsPending(fs[j]) => \E b \in 1..Len(es) : es[b] = fs[j]
  /\ \A i \in 1..Len(fs), j \in 1..Len(fs) :
       i < j /\ IsPending(fs[i]) /\ IsPending(fs[j])
         => \E a \in 1..Len(es), b \in 1..Len(es) : a < b /\ es[a] = fs[i] /\ es[b] = fs[j]

\* The layer's items wait before all that was added to play next.
ItemsFirst(es) ==
  \A i \in 1..Len(es), j \in 1..Len(es) :
    i < j /\ IsPending(es[i]) /\ IsWaitingItem(es[j]) => IsWaitingItem(es[i])
NoItems(es) == \A i \in 1..Len(es) : ~ IsWaitingItem(es[i])

\* It is reflexive, transitive, and keeps the layer's items first.
LEMMA WaitsSame ==
  ASSUME NEW es
  PROVE  WaitsAs(es, es)
BY DEF WaitsAs

LEMMA WaitsThrough ==
  ASSUME NEW es, NEW fs, NEW gs, WaitsAs(es, fs), WaitsAs(fs, gs)
  PROVE  WaitsAs(es, gs)
<1>1. ASSUME NEW j \in 1..Len(gs), IsPending(gs[j]) PROVE \E b \in 1..Len(es) : es[b] = gs[j]
  <2>1. PICK b \in 1..Len(fs) : fs[b] = gs[j]
    BY <1>1 DEF WaitsAs
  <2> QED BY <1>1, <2>1 DEF WaitsAs
<1>2. ASSUME NEW i \in 1..Len(gs), NEW j \in 1..Len(gs), i < j, IsPending(gs[i]), IsPending(gs[j])
      PROVE  \E a \in 1..Len(es), b \in 1..Len(es) : a < b /\ es[a] = gs[i] /\ es[b] = gs[j]
  <2>1. PICK a \in 1..Len(fs), b \in 1..Len(fs) : a < b /\ fs[a] = gs[i] /\ fs[b] = gs[j]
    BY <1>2 DEF WaitsAs
  <2>2. \E c \in 1..Len(es), d \in 1..Len(es) : c < d /\ es[c] = fs[a] /\ es[d] = fs[b]
    BY <1>2, <2>1 DEF WaitsAs
  <2> QED BY <2>1, <2>2
<1> QED BY <1>1, <1>2 DEF WaitsAs

LEMMA WaitsKeep ==
  ASSUME NEW es, NEW fs, WaitsAs(es, fs)
  PROVE  (ItemsFirst(es) => ItemsFirst(fs)) /\ (NoItems(es) => NoItems(fs))
<1>1. ASSUME ItemsFirst(es), NEW i \in 1..Len(fs), NEW j \in 1..Len(fs), i < j,
             IsPending(fs[i]), IsWaitingItem(fs[j])
      PROVE  IsWaitingItem(fs[i])
  <2>1. IsPending(fs[j])
    BY <1>1 DEF IsWaitingItem
  <2>2. PICK a \in 1..Len(es), b \in 1..Len(es) : a < b /\ es[a] = fs[i] /\ es[b] = fs[j]
    BY <1>1, <2>1 DEF WaitsAs
  <2> QED BY <1>1, <2>2 DEF ItemsFirst
<1>2. ASSUME NoItems(es), NEW j \in 1..Len(fs), IsWaitingItem(fs[j]) PROVE FALSE
  <2>1. IsPending(fs[j])
    BY <1>2 DEF IsWaitingItem
  <2>2. PICK b \in 1..Len(es) : es[b] = fs[j]
    BY <2>1 DEF WaitsAs
  <2> QED BY <1>2, <2>2 DEF NoItems
<1>3. ItemsFirst(es) => ItemsFirst(fs)
  BY <1>1 DEF ItemsFirst
<1>4. NoItems(es) => NoItems(fs)
  BY <1>2 DEF NoItems
<1> QED BY <1>3, <1>4

\* Row by row the same, but for what waits no more.
LEMMA WaitsFewer ==
  ASSUME NEW es, NEW fs, Len(fs) = Len(es),
         \A i \in 1..Len(fs) : IsPending(fs[i]) => fs[i] = es[i]
  PROVE  WaitsAs(es, fs)
<1>1. ASSUME NEW j \in 1..Len(fs), IsPending(fs[j]) PROVE j \in 1..Len(es) /\ es[j] = fs[j]
  BY <1>1
<1> QED BY <1>1 DEF WaitsAs

\* What is picked keeps its order.
LEMMA WaitsPicked ==
  ASSUME NEW x, QueueOk(x), NEW kept, kept \subseteq Rows(x)
  PROVE  WaitsAs(x.entries, EntriesAt(x, kept))
<1>1. PICK s, fs, k : s = x.entries /\ fs = EntriesAt(x, kept) /\ k = Cardinality(kept)
  OBVIOUS
<1>2. s \in Seq(EntryType) /\ kept \subseteq 1..Len(s) /\ kept \in RowSets
  BY <1>1, SomeRows DEF QueueOk, Entries, RowSets
<1>3. Chosen(fs, s, kept, EntryType)
  <2>1. fs = Picked(s, kept)
    BY <1>1 DEF EntriesAt
  <2> QED BY <1>2, <2>1, PickedGives
<1>4. Len(fs) = k /\ \A m \in 1..k : \E i \in kept : Count(kept, i) = m /\ fs[m] = s[i]
  BY <1>1, <1>3 DEF Chosen
<1>5. ASSUME NEW i \in 1..k, NEW j \in 1..k, i < j
      PROVE  \E a \in 1..Len(s), b \in 1..Len(s) : a < b /\ s[a] = fs[i] /\ s[b] = fs[j]
  <2>1. PICK a \in kept : Count(kept, a) = i /\ fs[i] = s[a]
    BY <1>4
  <2>2. PICK b \in kept : Count(kept, b) = j /\ fs[j] = s[b]
    BY <1>4
  <2>3. a \in Nat /\ b \in Nat
    BY <1>2
  <2>4. Count(kept, b) <= Count(kept, a) <=> b <= a
    BY <1>2, <2>3, CountOrder
  <2>5. a < b
    BY <1>5, <2>1, <2>2, <2>3, <2>4
  <2> QED BY <1>2, <2>1, <2>2, <2>5
<1>6. ASSUME NEW j \in 1..k PROVE \E b \in 1..Len(s) : s[b] = fs[j]
  BY <1>2, <1>4
<1>7. WaitsAs(s, fs)
  BY <1>4, <1>5, <1>6 DEF WaitsAs
<1> QED BY <1>1, <1>7

\* markCurrent() makes one wait no more.
LEMMA WaitsMarked ==
  ASSUME NEW x, QueueOk(x), NEW r, r = MarkCurrent(x)
  PROVE  WaitsAs(x.entries, r.entries)
<1>1. Marks(x, r)
  BY MarkCurrentIs
<1>2. Rows(x) = 1..Len(x.entries) /\ Len(r.entries) = Len(x.entries) /\ Rows(r) = Rows(x)
  BY <1>1, SomeRows DEF Marks, Rows
<1>3. ASSUME NEW i \in 1..Len(r.entries), IsPending(r.entries[i]) PROVE r.entries[i] = x.entries[i]
  <2>1. i \in Rows(x) /\ i # x.playing
    BY <1>1, <1>2, <1>3 DEF Marks, Pending
  <2>2. CASE HasCurrent(x) /\ Current(x).part # "Continuation"
    BY <2>1, <2>2, MarkedElsewhere
  <2>3. CASE HasCurrent(x) /\ Current(x).part = "Continuation"
    BY <2>3 DEF MarkCurrent, QueueOk, QueueFields
  <2>4. CASE ~ HasCurrent(x)
    BY <2>4 DEF MarkCurrent
  <2> QED BY <2>2, <2>3, <2>4
<1>4. PICK es, fs : es = x.entries /\ fs = r.entries
  OBVIOUS
<1>5. WaitsAs(es, fs)
  BY <1>2, <1>3, <1>4, WaitsFewer
<1> QED BY <1>4, <1>5

\* remove() keeps the order of what stays.
LEMMA WaitsRemoved ==
  ASSUME NEW x, QueueOk(x), NEW given, NEW r, r = RemoveRows(x, given)
  PROVE  WaitsAs(x.entries, r.entries)
<1> DEFINE cRows == given \cap Rows(x)
<1>1. PICK rows, kept : rows = cRows /\ kept = Rows(x) \ cRows
  OBVIOUS
<1>2. PICK m : m = WithoutRows(x, rows, EntriesAt(x, kept))
  OBVIOUS
<1>3. QueueOk(m) /\ m.entries = EntriesAt(x, kept)
  <2>1. rows \subseteq Rows(x) /\ kept = Rows(x) \ rows
    BY <1>1
  <2> QED BY <1>2, <2>1, WithoutIs
<1>4. WaitsAs(x.entries, m.entries)
  BY <1>1, <1>3, WaitsPicked
<1>5. PICK n : n = When(x.playing \in rows, MarkCurrent(m), m)
  OBVIOUS
<1>6. QueueOk(n) /\ WaitsAs(m.entries, n.entries)
  <2>1. CASE x.playing \in rows
    <3>1. n = MarkCurrent(m)
      BY <1>5, <2>1 DEF When
    <3> QED BY <1>3, <3>1, MarkCurrentIs, WaitsMarked DEF Marks
  <2>2. CASE x.playing \notin rows
    <3>1. n = m
      BY <1>5, <2>2 DEF When
    <3> QED BY <1>3, <3>1, WaitsSame
  <2> QED BY <2>1, <2>2
<1>7. PICK k : k = KnownStart(n)
  OBVIOUS
<1>8. QueueOk(k) /\ k.entries = n.entries
  BY <1>6, <1>7, KnownStartIs, SameRowsOk DEF SameRows
<1>9. r = When(rows \cap RowsOf(x, "Head") # {}, ResetNavigator(k), k)
  BY <1>1, <1>2, <1>5, <1>7 DEF RemoveRows
<1>10. r.entries = k.entries
  <2>1. r = ResetNavigator(k) \/ r = k
    BY <1>9 DEF When
  <2> QED BY <1>8, <2>1, ResetNavigatorIs DEF SameRows
<1>11. PICK es, fs, gs : es = x.entries /\ fs = m.entries /\ gs = n.entries
  OBVIOUS
<1>12. WaitsAs(es, gs)
  BY <1>4, <1>6, <1>11, WaitsThrough
<1> QED BY <1>8, <1>10, <1>11, <1>12

\* dropStaleWave() drops nothing while something waits.
LEMMA WaitsDropped ==
  ASSUME NEW x, QueueOk(x), NEW r, r = DropStaleWave(x)
  PROVE  WaitsAs(x.entries, r.entries) /\ (r = x \/ Pending(x) = {})
<1>1. CASE r = x
  BY <1>1, WaitsSame
<1>2. CASE r # x
  <2>1. PICK given : r = RemoveRows(x, given)
    BY <1>2 DEF DropStaleWave
  <2>2. Pending(x) = {}
    BY <1>2 DEF DropStaleWave
  <2> QED BY <2>1, <2>2, WaitsRemoved
<1> QED BY <1>1, <1>2

\* gatherPending() keeps the order of what it moves.
LEMMA WaitsGathered ==
  ASSUME NEW x, QueueOk(x), HasCurrent(x), ~ IsPending(Current(x)), NEW r, r = GatherPending(x)
  PROVE  WaitsAs(x.entries, r.entries)
<1>1. PICK P, k, n : P = Pending(x) /\ k = Cardinality(P) /\ n = Len(x.entries)
  OBVIOUS
<1>2. /\ P \subseteq 1..n /\ n \in Nat /\ k \in Nat /\ x.entries \in Seq(EntryType)
      /\ Rows(x) = 1..n
  <2>1. P \subseteq 1..n /\ n \in Nat /\ x.entries \in Seq(EntryType) /\ Rows(x) = 1..n
    BY <1>1, SomeRows, SomePending DEF QueueOk, Entries
  <2> QED BY <1>1, <2>1, CountAll
<1>3. CASE P = (x.playing + 1)..(x.playing + k)
  <2>1. r = x
    BY <1>1, <1>3 DEF GatherPending
  <2> QED BY <2>1, WaitsSame
<1>4. CASE P # (x.playing + 1)..(x.playing + k)
  <2>1. PICK y, kept : kept = Rows(x) \ P
                       /\ y = x.playing - Cardinality({i \in P : i < x.playing})
    OBVIOUS
  <2>2. y \in 1..Cardinality(kept) /\ kept \subseteq Rows(x) /\ Cardinality(kept) \in Nat
    BY <1>1, <2>1, GatheredCursor
  <2>3. PICK m, more : m = [x EXCEPT !.entries = EntriesAt(x, kept), !.playing = y]
                       /\ more = EntriesAt(x, P)
    OBVIOUS
  <2>4. r = InsertRows(m, y + 1, more)
    BY <1>1, <1>4, <2>1, <2>3 DEF GatherPending
  <2>5. /\ m.entries = EntriesAt(x, kept) /\ m.playing = y /\ m.contMark = x.contMark
        /\ m.hint = x.hint /\ m.changed = x.changed /\ DOMAIN m = DOMAIN x
    BY <2>3 DEF QueueOk, QueueFields
  <2>6. /\ EntriesAt(x, kept) \in Seq(EntryType) /\ Len(EntriesAt(x, kept)) = Cardinality(kept)
        /\ \A j \in 1..Cardinality(kept) :
             \E i \in kept : Count(kept, i) = j /\ EntriesAt(x, kept)[j] = x.entries[i]
    BY <2>2, EntriesAtIs
  <2>7. QueueOk(m)
    BY <2>2, <2>5, <2>6 DEF QueueOk, Entries
  <2>8. more \in Seq(EntryType) /\ WaitsAs(x.entries, more)
    <3>1. P \subseteq Rows(x)
      BY <1>2
    <3> QED BY <2>3, <3>1, EntriesAtIs, WaitsPicked
  <2>9. PICK at, l, s, u : /\ at = y + 1 /\ l = Len(more) /\ s = m.entries
                           /\ u = Inserted(s, at, more)
    OBVIOUS
  <2>10. at \in 1..(Len(s) + 1) /\ s \in Seq(EntryType) /\ at \in Nat /\ l \in Nat
    BY <2>2, <2>5, <2>6, <2>8, <2>9
  <2>11. Grown(m, r, at, more)
    BY <2>4, <2>7, <2>8, <2>9, <2>10, InsertRowsIs
  <2>12. Pending(m) = {}
    <3> SUFFICES ASSUME NEW j \in Pending(m) PROVE FALSE
      OBVIOUS
    <3>1. j \in 1..Cardinality(kept) /\ IsPending(m.entries[j])
      BY <2>5, <2>6, <2>7, SomeRows DEF Pending
    <3>2. PICK i \in kept : m.entries[j] = x.entries[i]
      BY <2>5, <2>6, <3>1
    <3> QED BY <1>1, <2>1, <3>1, <3>2 DEF Pending
  <2>13. r.entries = u
    BY <2>4, <2>7, <2>9 DEF InsertRows, QueueOk, QueueFields
  <2>14. \A i \in 1..l : u[at - 1 + i] = more[i]
    <3>1. /\ Inserted(s, at, more) \in Seq(EntryType)
          /\ Len(Inserted(s, at, more)) = Len(s) + Len(more)
          /\ \A i \in 1..(at - 1) : Inserted(s, at, more)[i] = s[i]
          /\ \A i \in 1..Len(more) : Inserted(s, at, more)[at - 1 + i] = more[i]
          /\ \A i \in at..Len(s) : Inserted(s, at, more)[i + Len(more)] = s[i]
      BY <2>8, <2>10, InsertedIs, ZenonT(60)
    <3> QED BY <2>9, <3>1
  <2>15. Len(r.entries) \in Nat /\ Rows(r) = 1..Len(r.entries)
    BY <2>11, SomeRows DEF Grown
  <2>16. ASSUME NEW j \in 1..Len(u), IsPending(u[j])
         PROVE  j - at + 1 \in 1..l /\ more[j - at + 1] = u[j]
    <3>1. j \in Nat /\ j \in Pending(r)
      BY <2>13, <2>15, <2>16 DEF Pending
    <3>2. j >= at /\ j < at + l
      BY <2>9, <2>11, <2>12, <3>1 DEF Grown
    <3>3. PICK i : i = j - at + 1
      OBVIOUS
    <3>4. i \in 1..l /\ at - 1 + i = j
      BY <2>10, <3>1, <3>2, <3>3
    <3>5. more[i] = u[j]
      BY <2>14, <3>4
    <3> QED BY <3>3, <3>4, <3>5
  <2>17. WaitsAs(more, u)
    <3>1. ASSUME NEW i \in 1..Len(u), NEW j \in 1..Len(u), i < j, IsPending(u[i]), IsPending(u[j])
          PROVE  \E a \in 1..Len(more), b \in 1..Len(more) : a < b /\ more[a] = u[i] /\ more[b] = u[j]
      <4>1. PICK a, b : a = i - at + 1 /\ b = j - at + 1
        OBVIOUS
      <4>2. a \in 1..l /\ b \in 1..l /\ more[a] = u[i] /\ more[b] = u[j]
        BY <2>16, <3>1, <4>1
      <4>3. i \in Nat /\ j \in Nat
        BY <2>13, <2>15
      <4>4. a < b
        BY <2>10, <3>1, <4>1, <4>3
      <4> QED BY <2>9, <4>2, <4>4
    <3>2. ASSUME NEW j \in 1..Len(u), IsPending(u[j]) PROVE \E b \in 1..Len(more) : more[b] = u[j]
      BY <2>9, <2>16, <3>2
    <3> QED BY <3>1, <3>2 DEF WaitsAs
  <2>18. PICK es : es = x.entries
    OBVIOUS
  <2>19. WaitsAs(es, u)
    BY <2>8, <2>17, <2>18, WaitsThrough
  <2> QED BY <2>13, <2>18, <2>19
<1> QED BY <1>3, <1>4

\* A selection keeps the order of what waits on.
LEMMA WaitsSelected ==
  ASSUME NEW x, QueueOk(x), NEW row, NEW r, r = Select(x, row)
  PROVE  WaitsAs(x.entries, r.entries)
<1>1. CASE row \notin Rows(x)
  <2>1. r = x
    BY <1>1 DEF Select
  <2> QED BY <2>1, WaitsSame
<1>2. CASE row \in Rows(x)
  <2>1. PICK m : m = [x EXCEPT !.playing = row, !.changed = @ \/ IsPending(x.entries[row])]
    OBVIOUS
  <2>2. /\ m.entries = x.entries /\ m.playing = row /\ m.contMark = x.contMark
        /\ m.hint = x.hint /\ m.changed \in BOOLEAN /\ DOMAIN m = DOMAIN x
    BY <2>1 DEF QueueOk, QueueFields
  <2>3. row \in 1..Len(x.entries) /\ row # 0 /\ row \in 0..Len(x.entries)
    BY <1>2, SomeRows
  <2>4. QueueOk(m)
    BY <2>2, <2>3 DEF QueueOk
  <2>5. PICK n, k : n = MarkCurrent(m) /\ k = GatherPending(n)
    OBVIOUS
  <2>6. Marks(m, n)
    BY <2>4, <2>5, MarkCurrentIs
  <2>7. QueueOk(n) /\ HasCurrent(n) /\ ~ IsPending(Current(n))
    <3>1. HasCurrent(m)
      BY <2>2, <2>3, <2>4, SomeRows
    <3> QED BY <2>4, <2>6, <3>1, MarksKeep DEF Marks
  <2>8. QueueOk(k)
    BY <2>5, <2>7, GatherPendingIs
  <2>9. r = DropStaleWave(k)
    BY <1>2, <2>1, <2>5 DEF Select
  <2>10. /\ WaitsAs(m.entries, n.entries) /\ WaitsAs(n.entries, k.entries)
         /\ WaitsAs(k.entries, r.entries)
    BY <2>4, <2>5, <2>7, <2>8, <2>9, WaitsMarked, WaitsGathered, WaitsDropped
  <2>11. PICK es, fs, gs, hs : es = m.entries /\ fs = n.entries /\ gs = k.entries /\ hs = r.entries
    OBVIOUS
  <2>12. WaitsAs(es, gs)
    BY <2>10, <2>11, WaitsThrough
  <2>13. WaitsAs(es, hs)
    BY <2>10, <2>11, <2>12, WaitsThrough
  <2> QED BY <2>2, <2>11, <2>13
<1> QED BY <1>1, <1>2

\* A continuation's reply waits behind nothing, and before nothing.
LEMMA WaitsReplied ==
  ASSUME NEW x, QueueOk(x), NEW tracks \in Seq(Tracks), NEW giver \in Givers, NEW seeds \in Nat,
         NEW r, r = AppendContinuation(x, tracks, giver, seeds)
  PROVE  WaitsAs(x.entries, r.entries)
<1>1. PICK no, part : no = FALSE /\ part = "Continuation"
  OBVIOUS
<1>2. no \in BOOLEAN /\ part \in Parts
  <2>1. no \in BOOLEAN
    BY <1>1, Zenon
  <2> QED BY <1>1, <2>1 DEF Parts
<1>3. PICK added : added = EntriesOf(tracks, part, giver, seeds, no)
  OBVIOUS
<1>4. OfKind(added, part, no)
  BY <1>2, <1>3, EntriesAre
<1>5. added \in Seq(EntryType) /\ \A i \in 1..Len(added) : ~ IsPending(added[i])
  BY <1>1, <1>4 DEF OfKind
<1>6. PICK m : m = [x EXCEPT !.entries = @ \o added, !.changed = TRUE,
                             !.historyGave = @ \/ giver = "history"]
  OBVIOUS
<1>7. PICK n : n = [m EXCEPT !.playing = 1]
  OBVIOUS
<1>8. r = IF added = <<>> THEN x
          ELSE IF x.playing = 0 /\ x.entries = <<>> THEN MarkCurrent(n) ELSE m
  BY <1>1, <1>3, <1>6, <1>7 DEF AppendContinuation
<1>9. /\ m.entries = x.entries \o added /\ m.playing = x.playing /\ m.contMark = x.contMark
      /\ m.hint = x.hint /\ m.changed = TRUE /\ DOMAIN m = DOMAIN x
  BY <1>6 DEF QueueOk, QueueFields
<1>10. /\ n.entries = m.entries /\ n.playing = 1 /\ n.contMark = x.contMark
       /\ n.hint = x.hint /\ n.changed = TRUE /\ DOMAIN n = DOMAIN x
  BY <1>7, <1>9 DEF QueueOk, QueueFields
<1>11. PICK s, u : s = x.entries /\ u = s \o added
  OBVIOUS
<1>12. /\ s \in Seq(EntryType) /\ u \in Seq(EntryType) /\ Len(u) = Len(s) + Len(added)
       /\ \A i \in 1..Len(u) : \/ i \in 1..Len(s) /\ u[i] = s[i]
                               \/ i - Len(s) \in 1..Len(added) /\ u[i] = added[i - Len(s)]
  <2>1. s \in Seq(EntryType)
    BY <1>11 DEF QueueOk, Entries
  <2> QED BY <1>5, <1>11, <2>1, JoinedAre
<1>13. ASSUME NEW i \in 1..Len(u), IsPending(u[i]) PROVE i \in 1..Len(s) /\ u[i] = s[i]
  BY <1>5, <1>12, <1>13
<1>14. WaitsAs(s, u)
  BY <1>13 DEF WaitsAs
<1>15. CASE added = <<>>
  BY <1>8, <1>15, WaitsSame
<1>16. CASE added # <<>> /\ ~ (x.playing = 0 /\ x.entries = <<>>)
  BY <1>8, <1>9, <1>11, <1>14, <1>16
<1>17. CASE added # <<>> /\ x.playing = 0 /\ x.entries = <<>>
  <2>1. Len(u) \in Nat /\ Len(u) > 0
    <3>1. Len(added) # 0 /\ Len(added) \in Nat /\ Len(s) \in Nat
      BY <1>5, <1>12, <1>17, EmptySeq
    <3> QED BY <1>12, <3>1
  <2>2. QueueOk(n)
    <3>1. n.changed \in BOOLEAN
      <4>1. n.changed = TRUE
        BY <1>10
      <4> QED BY <4>1, Zenon
    <3>2. n.entries \in Entries /\ n.playing \in 0..Len(n.entries)
      BY <1>9, <1>10, <1>11, <1>12, <2>1 DEF Entries
    <3>3. n.hint \in Hint /\ QueueFields \subseteq DOMAIN n /\ n.contMark \in Int
      BY <1>10 DEF QueueOk
    <3> QED BY <3>1, <3>2, <3>3 DEF QueueOk
  <2>3. r = MarkCurrent(n)
    BY <1>8, <1>17
  <2>4. WaitsAs(n.entries, r.entries)
    BY <2>2, <2>3, WaitsMarked
  <2>5. PICK fs : fs = r.entries
    OBVIOUS
  <2>6. WaitsAs(s, fs)
    BY <1>9, <1>10, <1>11, <1>14, <2>4, <2>5, WaitsThrough
  <2> QED BY <1>11, <2>5, <2>6
<1> QED BY <1>15, <1>16, <1>17

\* Tracks that are added are no layer's items.
LEMMA NoItemsOf ==
  ASSUME NEW tracks \in Seq(Tracks), NEW part, NEW giver, NEW seeds, NEW pending,
         NEW es, es = EntriesOf(tracks, part, giver, seeds, pending)
  PROVE  NoItems(es)
<1>1. PICK S : S = {i \in DOMAIN tracks : tracks[i] \notin Unavailable}
  OBVIOUS
<1>2. PICK some : some = Picked(tracks, S)
  OBVIOUS
<1>3. some \in Seq(Tracks)
  <2>1. S \subseteq 1..Len(tracks)
    BY <1>1
  <2>2. Chosen(Picked(tracks, S), tracks, S, Tracks)
    BY <2>1, PickedGives
  <2> QED BY <1>2, <2>2 DEF Chosen
<1>4. es = [i \in 1..Len(some) |-> Entry(some[i], part, giver, seeds, NoItem, pending)]
  BY <1>1, <1>2 DEF EntriesOf
<1>5. Len(some) \in Nat
  BY <1>3
<1>6. Len(es) = Len(some)
  BY <1>4, <1>5
<1>7. ASSUME NEW i \in 1..Len(es) PROVE ~ IsWaitingItem(es[i])
  <2>1. es[i] = Entry(some[i], part, giver, seeds, NoItem, pending)
    BY <1>4, <1>6
  <2>2. es[i].item = NoItem
    BY <2>1 DEF Entry
  <2> QED BY <2>2 DEF IsWaitingItem
<1> QED BY <1>7 DEF NoItems

\* None comes in with rows that are none.
LEMMA NoItemsInserted ==
  ASSUME NEW x, QueueOk(x), NoItems(x.entries), NEW es \in Seq(EntryType), NoItems(es),
         NEW at \in 1..(Len(x.entries) + 1), NEW r, r.entries = Inserted(x.entries, at, es)
  PROVE  NoItems(r.entries)
<1>1. PICK s, u, n, l : s = x.entries /\ u = Inserted(s, at, es) /\ n = Len(s) /\ l = Len(es)
  OBVIOUS
<1>2. s \in Seq(EntryType) /\ at \in 1..(n + 1) /\ n \in Nat /\ l \in Nat
  BY <1>1 DEF QueueOk, Entries
<1>3. /\ Len(u) = n + l
      /\ \A i \in 1..(at - 1) : u[i] = s[i]
      /\ \A i \in 1..l : u[at - 1 + i] = es[i]
      /\ \A i \in at..n : u[i + l] = s[i]
  <2>1. at \in 1..(Len(s) + 1)
    BY <1>1, <1>2
  <2>2. /\ Inserted(s, at, es) \in Seq(EntryType)
        /\ Len(Inserted(s, at, es)) = Len(s) + Len(es)
        /\ \A i \in 1..(at - 1) : Inserted(s, at, es)[i] = s[i]
        /\ \A i \in 1..Len(es) : Inserted(s, at, es)[at - 1 + i] = es[i]
        /\ \A i \in at..Len(s) : Inserted(s, at, es)[i + Len(es)] = s[i]
    BY <1>2, <2>1, InsertedIs, ZenonT(60)
  <2> QED BY <1>1, <2>2
<1>4. ASSUME NEW i \in 1..Len(u) PROVE ~ IsWaitingItem(u[i])
  <2>0. i \in Nat /\ i > 0 /\ i <= n + l
    BY <1>2, <1>3
  <2>1. CASE i < at
    <3>1. i \in 1..(at - 1) /\ i \in 1..n
      BY <1>2, <2>0, <2>1
    <3> QED BY <1>1, <1>3, <3>1 DEF NoItems
  <2>2. CASE i >= at /\ i < at + l
    <3>1. PICK j : j = i - at + 1
      OBVIOUS
    <3>2. j \in 1..l /\ at - 1 + j = i
      BY <1>2, <2>0, <2>2, <3>1
    <3>3. u[i] = es[j]
      BY <1>3, <3>2
    <3> QED BY <1>1, <3>2, <3>3 DEF NoItems
  <2>3. CASE i >= at + l
    <3>1. PICK j : j = i - l
      OBVIOUS
    <3>2. j \in at..n /\ j + l = i /\ j \in 1..n
      BY <1>2, <2>0, <2>3, <3>1
    <3>3. u[i] = s[j]
      BY <1>3, <3>2
    <3> QED BY <1>1, <3>2, <3>3 DEF NoItems
  <2> QED BY <1>2, <2>0, <2>1, <2>2, <2>3
<1> QED BY <1>1, <1>4 DEF NoItems

\* add() brings in no layer's item.
LEMMA NoItemsAdded ==
  ASSUME NEW x, QueueOk(x), NoItems(x.entries), NEW tracks \in Seq(Tracks),
         NEW placement \in {"Next", "End"}, NEW r, r = Add(x, tracks, placement)
  PROVE  NoItems(r.entries)
<1> DEFINE toHead == placement = "End" /\ x.inHead /\ CountOf(x, "Head") > 0
<1>1. PICK part, waits : part = (IF toHead THEN "Head" ELSE "Item") /\ waits = ~ toHead
  OBVIOUS
<1>2. PICK es : es = EntriesOf(tracks, part, "none", 0, waits)
  OBVIOUS
<1>3. part \in Parts /\ "none" \in Givers /\ 0 \in Nat
  BY <1>1 DEF Parts, Givers
<1>4. waits \in BOOLEAN
  BY <1>1, Zenon
<1>5. es \in Seq(EntryType) /\ NoItems(es)
  <2>1. OfKind(es, part, waits)
    BY <1>2, <1>3, <1>4, EntriesAre
  <2> QED BY <1>2, <2>1, NoItemsOf DEF OfKind
<1>6. PICK at : at = IF Pending(x) = {} THEN x.playing + 1
                     ELSE IF placement = "Next" THEN Least(Pending(x)) ELSE Greatest(Pending(x)) + 1
  OBVIOUS
<1>7. r = IF es = <<>> THEN x ELSE IF toHead THEN AddToHead(x, es) ELSE InsertRows(x, at, es)
  BY <1>1, <1>2, <1>6 DEF Add
<1>8. Rows(x) = 1..Len(x.entries) /\ Len(x.entries) \in Nat /\ x.playing \in 0..Len(x.entries)
  BY SomeRows DEF QueueOk
<1>9. at \in 1..(Len(x.entries) + 1)
  <2>1. CASE Pending(x) = {}
    BY <1>6, <1>8, <2>1
  <2>2. CASE Pending(x) # {}
    <3>1. Least(Pending(x)) \in Rows(x) /\ Greatest(Pending(x)) \in Rows(x)
      BY <2>2, SomePending
    <3> QED BY <1>6, <1>8, <2>2, <3>1
  <2> QED BY <2>1, <2>2
<1>10. ASSUME NEW to \in 1..(Len(x.entries) + 1), NEW y, y.entries = Inserted(x.entries, to, es)
       PROVE  NoItems(y.entries)
  BY <1>5, <1>10, NoItemsInserted
<1>11. CASE es = <<>>
  BY <1>7, <1>11
<1>12. CASE es # <<>> /\ ~ toHead
  <2>1. r = InsertRows(x, at, es)
    BY <1>7, <1>12
  <2>2. r.entries = Inserted(x.entries, at, es)
    BY <2>1 DEF InsertRows, QueueOk, QueueFields
  <2> QED BY <1>9, <1>10, <2>2
<1>13. CASE es # <<>> /\ toHead
  <2>1. PICK last : last = Greatest(RowsOf(x, "Head"))
    OBVIOUS
  <2>2. PICK behind, to : /\ behind = {i \in (last + 1)..(Len(x.entries) + 1) : i \notin Pending(x)}
                          /\ to = Least(behind)
    OBVIOUS
  <2>3. to \in 1..(Len(x.entries) + 1)
    BY <1>13, <2>1, <2>2, HeadEndIs
  <2>4. PICK y : y = InsertRows(x, to, es)
    OBVIOUS
  <2>5. y.entries = Inserted(x.entries, to, es) /\ QueueFields \subseteq DOMAIN y
    BY <2>4 DEF InsertRows, QueueOk, QueueFields
  <2>6. r = [y EXCEPT !.nav = NavAppend(@, Len(es), x.luck)]
    BY <1>7, <1>13, <2>1, <2>2, <2>4 DEF AddToHead
  <2>7. r.entries = y.entries
    BY <2>5, <2>6 DEF QueueFields
  <2> QED BY <1>10, <2>3, <2>5, <2>7
<1> QED BY <1>11, <1>12, <1>13

\* A new queue has no item waiting.
LEMMA NoItemsReplaced ==
  ASSUME NEW x, QueueOk(x), NEW source \in Source, NEW r, r = Replace(x, source)
  PROVE  NoItems(r.entries)
<1>1. PICK es : es = SourceEntries(source)
  OBVIOUS
<1>2. /\ es \in Seq(EntryType) /\ \A i \in 1..Len(es) : ~ IsPending(es[i])
      /\ es # <<>> => StartOf(source) \in 1..Len(es)
  BY <1>1, SourceEntriesAre
<1>3. PICK playing : playing = IF es = <<>> THEN 0 ELSE StartOf(source)
  OBVIOUS
<1>4. PICK m : m = [x EXCEPT !.own = source.own, !.historyAllowed = source.historyAllowed,
                             !.entries = es, !.playing = playing, !.changed = TRUE]
  OBVIOUS
<1>5. PICK n : n = [NewBase(m) EXCEPT !.history = source.history]
  OBVIOUS
<1>6. PICK k : k = MarkCurrent(n)
  OBVIOUS
<1>7. r = ResetNavigator(k)
  BY <1>1, <1>3, <1>4, <1>5, <1>6 DEF Replace
<1>8. /\ m.entries = es /\ m.playing = playing /\ m.hint = x.hint /\ m.changed = TRUE
      /\ DOMAIN m = DOMAIN x
  BY <1>4 DEF QueueOk, QueueFields
<1>9. /\ n.entries = es /\ n.playing = playing /\ n.hint = x.hint /\ n.changed = TRUE
      /\ n.contMark = 0 /\ DOMAIN n = DOMAIN x
  BY <1>5, <1>8 DEF NewBase, QueueOk, QueueFields
<1>10. playing \in 0..Len(es)
  BY <1>2, <1>3
<1>11. QueueOk(n)
  <2>1. n.changed \in BOOLEAN
    <3>1. n.changed = TRUE
      BY <1>9
    <3> QED BY <3>1, Zenon
  <2>2. n.hint \in Hint /\ QueueFields \subseteq DOMAIN n /\ n.contMark \in Int
    BY <1>9 DEF QueueOk
  <2>3. n.entries \in Entries /\ n.playing \in 0..Len(n.entries)
    BY <1>2, <1>9, <1>10 DEF Entries
  <2> QED BY <2>1, <2>2, <2>3 DEF QueueOk
<1>12. QueueOk(k) /\ WaitsAs(n.entries, k.entries)
  BY <1>6, <1>11, MarkCurrentIs, WaitsMarked DEF Marks
<1>13. NoItems(n.entries)
  BY <1>2, <1>9 DEF NoItems, IsWaitingItem
<1>14. PICK fs, gs : fs = n.entries /\ gs = k.entries
  OBVIOUS
<1>15. NoItems(gs)
  BY <1>12, <1>13, <1>14, WaitsKeep
<1>16. r.entries = k.entries
  BY <1>7, <1>12, ResetNavigatorIs DEF SameRows
<1> QED BY <1>14, <1>15, <1>16

\* The end of a layer leaves its items without their ids.
LEMMA NoItemsLeft ==
  ASSUME NEW x, QueueOk(x), NEW r, r = EndLayer(x)
  PROVE  NoItems(r.entries)
<1> DEFINE stale == {i \in RowsOf(x, "Continuation") :
                       x.entries[i].seeds # 0 /\ OrdinalOf(x, i) > x.contMark}
           bare == [i \in Rows(x) |-> [x.entries[i] EXCEPT !.item = NoItem]]
<1>1. PICK es, n, gone : es = bare /\ n = Len(x.entries) /\ gone = stale
  OBVIOUS
<1>2. PICK m : m = [x EXCEPT !.hint = NoHint, !.entries = es, !.changed = TRUE]
  OBVIOUS
<1>3. r = RemoveRows(m, gone)
  BY <1>1, <1>2 DEF EndLayer
<1>4. Rows(x) = 1..n /\ n \in Nat /\ \A i \in 1..n : x.entries[i] \in EntryType
  BY <1>1, SomeRows
<1>5. DOMAIN es = 1..n /\ \A i \in 1..n : es[i] = [x.entries[i] EXCEPT !.item = NoItem]
  BY <1>1, <1>4
<1>6. ASSUME NEW i \in 1..n PROVE es[i] \in EntryType /\ es[i].item = NoItem
  <2>1. PICK e : e = x.entries[i]
    OBVIOUS
  <2>2. e \in EntryType /\ es[i] = [e EXCEPT !.item = NoItem]
    BY <1>4, <1>5, <2>1
  <2> QED BY <2>2 DEF EntryType
<1>7. es \in Seq(EntryType) /\ Len(es) = n
  <2>1. es = [i \in 1..n |-> es[i]]
    BY <1>1, <1>4
  <2>2. es \in [1..n -> EntryType]
    BY <1>6, <2>1
  <2> QED BY <1>4, <2>2
<1>8. /\ m.entries = es /\ m.playing = x.playing /\ m.contMark = x.contMark /\ m.hint = NoHint
      /\ m.changed = TRUE /\ DOMAIN m = DOMAIN x
  BY <1>2 DEF QueueOk, QueueFields
<1>9. QueueOk(m)
  <2>1. m.changed \in BOOLEAN
    <3>1. m.changed = TRUE
      BY <1>8
    <3> QED BY <3>1, Zenon
  <2>2. NoHint \in Hint
    BY DEF NoHint, Hint
  <2>3. m.entries \in Entries /\ m.playing \in 0..Len(m.entries) /\ m.contMark \in Int
        /\ QueueFields \subseteq DOMAIN m
    BY <1>1, <1>7, <1>8 DEF Entries, QueueOk
  <2> QED BY <1>8, <2>1, <2>2, <2>3 DEF QueueOk
<1>10. WaitsAs(m.entries, r.entries)
  BY <1>3, <1>9, WaitsRemoved
<1>11. NoItems(m.entries)
  BY <1>6, <1>7, <1>8 DEF NoItems, IsWaitingItem
<1>12. PICK fs, gs : fs = m.entries /\ gs = r.entries
  OBVIOUS
<1>13. NoItems(gs)
  BY <1>10, <1>11, <1>12, WaitsKeep
<1> QED BY <1>12, <1>13

\* A base under a layer: only the layer's items still wait.
LEMMA ItemsBased ==
  ASSUME NEW x, QueueOk(x), Together(x), NEW source \in Source, NEW r, r = ReplaceBase(x, source)
  PROVE  ItemsFirst(r.entries)
<1> DEFINE one == [Current(x) EXCEPT !.part = IF @ = "Item" THEN @ ELSE "Other"]
           items == {i \in Rows(x) : IsWaitingItem(x.entries[i])}
<1>1. PICK base, S, current : /\ base = SourceEntries(source) /\ S = items
                              /\ current = IF ~ HasCurrent(x) THEN <<>> ELSE <<one>>
  OBVIOUS
<1>2. base \in Seq(EntryType) /\ \A i \in 1..Len(base) : ~ IsPending(base[i])
  BY <1>1, SourceEntriesAre
<1>3. PICK waiting : waiting = EntriesAt(x, S)
  OBVIOUS
<1>4. PICK front : front = current \o waiting
  OBVIOUS
<1>5. PICK es : es = front \o base
  OBVIOUS
<1>6. PICK m : m = [x EXCEPT !.own = source.own, !.historyAllowed = source.historyAllowed,
                             !.entries = es,
                             !.playing = IF HasCurrent(x) THEN 1 ELSE 0, !.changed = TRUE]
  OBVIOUS
<1>7. PICK n : n = [NewBase(m) EXCEPT !.headStart = IF source.start > 0 THEN StartOf(source) ELSE 0,
                                      !.history = source.history]
  OBVIOUS
<1>8. r = ResetNavigator(n)
  BY <1>1, <1>3, <1>4, <1>5, <1>6, <1>7 DEF ReplaceBase
<1>9. waiting \in Seq(EntryType) /\ \A i \in 1..Len(waiting) : IsWaitingItem(waiting[i])
  <2>1. S \subseteq Rows(x) /\ \A i \in S : IsWaitingItem(x.entries[i])
    BY <1>1
  <2>2. /\ EntriesAt(x, S) \in Seq(EntryType) /\ Len(EntriesAt(x, S)) = Cardinality(S)
        /\ \A k \in 1..Cardinality(S) : \E i \in S : Count(S, i) = k /\ EntriesAt(x, S)[k] = x.entries[i]
    BY <2>1, EntriesAtIs
  <2> QED BY <1>3, <2>1, <2>2
<1>10. current \in Seq(EntryType) /\ \A i \in 1..Len(current) : ~ IsPending(current[i])
  <2>1. CASE HasCurrent(x)
    <3>1. PICK e, c : e = one /\ c = Current(x)
      OBVIOUS
    <3>2. c \in EntryType /\ ~ IsPending(c) /\ e = [c EXCEPT !.part = IF @ = "Item" THEN @ ELSE "Other"]
      BY <2>1, <3>1, SomeRows DEF Together
    <3>3. e \in EntryType /\ ~ IsPending(e)
      BY <3>2 DEF EntryType, Parts, IsPending
    <3>4. current = <<e>>
      BY <1>1, <2>1, <3>1
    <3> QED BY <3>3, <3>4
  <2>2. CASE ~ HasCurrent(x)
    BY <1>1, <2>2
  <2> QED BY <2>1, <2>2
<1>11. /\ front \in Seq(EntryType)
       /\ \A i \in 1..Len(front) : \/ i \in 1..Len(current) /\ front[i] = current[i]
                                   \/ i - Len(current) \in 1..Len(waiting)
                                        /\ front[i] = waiting[i - Len(current)]
  BY <1>4, <1>9, <1>10, JoinedAre
<1>12. /\ es \in Seq(EntryType)
       /\ \A i \in 1..Len(es) : \/ i \in 1..Len(front) /\ es[i] = front[i]
                                \/ i - Len(front) \in 1..Len(base) /\ es[i] = base[i - Len(front)]
  BY <1>2, <1>5, <1>11, JoinedAre
<1>13. ASSUME NEW i \in 1..Len(es), IsPending(es[i]) PROVE IsWaitingItem(es[i])
  <2>1. i \in 1..Len(front) /\ es[i] = front[i]
    BY <1>2, <1>12, <1>13
  <2>2. i - Len(current) \in 1..Len(waiting) /\ front[i] = waiting[i - Len(current)]
    BY <1>10, <1>11, <1>13, <2>1
  <2> QED BY <1>9, <2>1, <2>2
<1>14. ItemsFirst(es)
  BY <1>13 DEF ItemsFirst
<1>15. r.entries = es
  <2>1. m.entries = es /\ DOMAIN m = DOMAIN x
    BY <1>6 DEF QueueOk, QueueFields
  <2>2. n.entries = es /\ DOMAIN n = DOMAIN x
    BY <1>7, <2>1 DEF NewBase, QueueOk, QueueFields
  <2> QED BY <1>8, <2>2 DEF ResetNavigator, QueueOk, QueueFields
<1> QED BY <1>14, <1>15

\* The layer's items that wait in r are those of w, from row start to row e.
ItemsAt(r, w, start, e) ==
  /\ \A i \in Rows(r) : IsWaitingItem(r.entries[i]) <=> i \in start..e
  /\ start..e \subseteq Rows(r)
  /\ \A i \in start..e : r.entries[i].item = w[i - start + 1].item

\* Where the layer's items wait in one piece, they are read off one by one.
LEMMA WaitingIs ==
  ASSUME NEW r, QueueOk(r), NEW w, NEW l \in Nat, Len(w) = l, NEW start \in Nat \ {0},
         NEW e \in Int, e = start + l - 1, ItemsAt(r, w, start, e)
  PROVE  WaitingOf(r) = [n \in 1..Len(w) |-> w[n].item]
<1>1. PICK S : S = {i \in Rows(r) : IsWaitingItem(r.entries[i])}
  OBVIOUS
<1>2. S = start..e
  BY <1>1 DEF ItemsAt
<1>3. S \in RowSets /\ S \subseteq Rows(r)
  BY <1>1, <1>2 DEF RowSets
<1>4. PICK c \in Int : c = start
  OBVIOUS
<1>a. e = c + l - 1
  BY <1>4
<1>5. ASSUME NEW i \in S PROVE Count(S, i) = i - start + 1
  <2>1. i \in Int /\ c <= i /\ i <= e
    BY <1>2, <1>4
  <2>2. UpTo(S, i) = c..i
    BY <1>2, <1>4, <2>1 DEF UpTo
  <2>3. Cardinality(c..i) = IF c > i THEN 0 ELSE i - c + 1
    BY <2>1, FS_Interval
  <2> QED BY <1>4, <2>1, <2>2, <2>3 DEF Count
<1>6. Cardinality(S) = l
  <2>1. Cardinality(c..e) = IF c > e THEN 0 ELSE e - c + 1
    BY FS_Interval
  <2>2. S = c..e
    BY <1>2, <1>4
  <2>3. (IF c > e THEN 0 ELSE e - c + 1) = l
    BY <1>a
  <2> QED BY <2>1, <2>2, <2>3
<1>7. PICK waiting : waiting = EntriesAt(r, S)
  OBVIOUS
<1>8. /\ Len(waiting) = l
      /\ \A m \in 1..l : \E i \in S : Count(S, i) = m /\ waiting[m] = r.entries[i]
  <2>1. /\ EntriesAt(r, S) \in Seq(EntryType) /\ Len(EntriesAt(r, S)) = Cardinality(S)
        /\ \A m \in 1..Cardinality(S) :
             \E i \in S : Count(S, i) = m /\ EntriesAt(r, S)[m] = r.entries[i]
    BY <1>3, EntriesAtIs
  <2> QED BY <1>6, <1>7, <2>1
<1>9. ASSUME NEW m \in 1..l PROVE waiting[m].item = w[m].item
  <2>1. PICK i \in S : Count(S, i) = m /\ waiting[m] = r.entries[i]
    BY <1>8
  <2>2. i - start + 1 = m
    BY <1>5, <2>1
  <2> QED BY <1>2, <2>1, <2>2 DEF ItemsAt
<1>10. WaitingOf(r) = [n \in 1..Len(waiting) |-> waiting[n].item]
  BY <1>1, <1>7 DEF WaitingOf
<1> QED BY <1>1, <1>8, <1>9, <1>10

\* setItems() on a queue whose layer's items wait first.
LEMMA ItemsSet ==
  ASSUME NEW x, QueueOk(x), Together(x), ItemsFirst(x.entries), NEW items \in ItemList,
         NEW hint \in Hint, NEW w, w = Wanted(x, items), NEW r, r = SetItems(x, items, hint)
  PROVE  ItemsFirst(r.entries) /\ WaitingOf(r) = [n \in 1..Len(w) |-> w[n].item]
<1>1. PICK m, added : \E start \in Nat \ {0}, b \in Nat, p \in Nat, c \in Nat :
        /\ Cut(x, m, start, b, p, c, added) /\ ItemsCut(x, m, hint)
        /\ r = DropStaleWave(m)
        /\ CutFits(x, w, start, b, p, c, added)
  BY SetItemsFits
<1>2. PICK start \in Nat \ {0}, b \in Nat, p \in Nat, c \in Nat :
        /\ Cut(x, m, start, b, p, c, added) /\ CutFits(x, w, start, b, p, c, added)
        /\ r = DropStaleWave(m)
  BY <1>1
<1>3. QueueOk(m)
  BY <1>2, CutKeeps DEF Keeps
<1>4. PICK n, l, u : n = Len(x.entries) /\ l = Len(added) /\ u = m.entries
  OBVIOUS
<1>5. /\ CutSizes(start, b, p, c, n, l, x.playing, Len(u))
      /\ CutEntries(x.entries, p, c, added, n, l, u)
  BY <1>2, <1>4, CutRows
<1>6. /\ n \in Nat /\ l \in Nat /\ Len(u) \in Nat /\ Len(u) = p + l + (n - c + 1)
      /\ b <= n /\ start <= p + 1 /\ p < c /\ c <= b + 1
  BY <1>5 DEF CutSizes
<1>e. PICK e \in Int : e = p + l
  BY <1>6
<1>7. \A i \in 1..Len(u) :
        \/ i <= p /\ u[i] = x.entries[i]
        \/ i > p /\ i <= p + l /\ u[i] = added[i - p]
        \/ i > p + l /\ i - p - l + c - 1 \in c..n /\ u[i] = x.entries[i - p - l + c - 1]
  BY <1>5 DEF CutEntries
<1>8. /\ Pending(x) = start..b /\ \A i \in 1..n : IsPending(x.entries[i]) <=> i \in start..b
      /\ \A i \in 1..l : IsPending(added[i])
  <2>1. Pending(x) = start..b /\ \A i \in 1..Len(added) : IsPending(added[i])
    BY <1>2 DEF Cut
  <2>2. \A i \in 1..n : IsPending(x.entries[i]) <=> i \in start..b
    BY <1>4, <2>1, SomeRows DEF Pending
  <2> QED BY <1>4, <2>1, <2>2
<1>9. /\ e = start + Len(w) - 1 /\ w \in ItemList
      /\ \A j \in start..p : /\ IsWaitingItem(x.entries[j])
                             /\ x.entries[j].item = w[j - start + 1].item
      /\ \A i \in 1..l : added[i].item = w[p - start + 1 + i].item /\ added[i].item \in Items
      /\ c \in start..b => ~ IsWaitingItem(x.entries[c])
  BY <1>2, <1>4, <1>e DEF CutFits
<1>10. Len(w) \in Nat
  BY <1>9 DEF ItemList
<1>11. e \in Nat /\ e <= Len(u) /\ start..e \subseteq 1..Len(u)
  <2>1. n - c + 1 \in Nat
    BY <1>6
  <2>2. e \in Nat /\ e <= Len(u)
    BY <1>6, <1>e, <2>1
  <2> QED BY <1>6, <2>2
<1>12. ASSUME NEW j \in c..n PROVE ~ IsWaitingItem(x.entries[j])
  <2> SUFFICES ASSUME IsWaitingItem(x.entries[j]) PROVE FALSE
    OBVIOUS
  <2>1. j \in 1..n /\ c \in 1..n /\ c >= start /\ c <= j
    BY <1>6
  <2>2. IsPending(x.entries[j])
    BY DEF IsWaitingItem
  <2>3. j \in start..b
    BY <1>8, <2>1, <2>2
  <2>4. c \in start..b
    BY <1>6, <2>1, <2>3
  <2>5. IsPending(x.entries[c])
    BY <1>8, <2>1, <2>4
  <2>6. c = j \/ c < j
    BY <2>1
  <2>7. c < j => IsWaitingItem(x.entries[c])
    BY <1>4, <2>1, <2>5 DEF ItemsFirst
  <2> QED BY <1>9, <2>4, <2>6, <2>7
<1>13. ASSUME NEW i \in 1..Len(u)
       PROVE  /\ IsWaitingItem(u[i]) <=> i \in start..e
              /\ i \in start..e => u[i].item = w[i - start + 1].item
  <2>0. i \in Nat /\ i > 0
    BY <1>6
  <2>1. CASE i <= p /\ u[i] = x.entries[i]
    <3>1. i \in 1..n
      BY <1>6, <2>0, <2>1
    <3>2. CASE i >= start
      <4>1. i \in start..p /\ i \in start..e
        BY <1>6, <1>e, <2>0, <2>1, <3>2
      <4> QED BY <1>9, <2>1, <4>1
    <3>3. CASE i < start
      <4>1. i \notin start..b /\ i \notin start..e
        BY <2>0, <3>3
      <4>2. ~ IsWaitingItem(u[i])
        BY <1>8, <2>1, <3>1, <4>1 DEF IsWaitingItem
      <4> QED BY <4>1, <4>2
    <3> QED BY <2>0, <3>2, <3>3
  <2>2. CASE i > p /\ i <= p + l /\ u[i] = added[i - p]
    <3>1. PICK j : j = i - p
      OBVIOUS
    <3>2. j \in 1..l /\ p - start + 1 + j = i - start + 1 /\ i \in start..e
      <4>1. j \in 1..l
        BY <1>6, <2>0, <2>2, <3>1
      <4>2. i >= start /\ i <= e
        BY <1>6, <1>e, <2>0, <2>2
      <4>3. p - start + 1 + j = i - start + 1
        BY <2>0, <3>1
      <4> QED BY <1>e, <2>0, <4>1, <4>2, <4>3
    <3>3. IsPending(added[j]) /\ added[j].item = w[i - start + 1].item /\ added[j].item \in Items
      BY <1>8, <1>9, <3>2
    <3>4. IsWaitingItem(added[j])
      BY <3>3, NoItemAssumption DEF IsWaitingItem
    <3> QED BY <2>2, <3>1, <3>2, <3>3, <3>4
  <2>3. CASE i > p + l /\ i - p - l + c - 1 \in c..n /\ u[i] = x.entries[i - p - l + c - 1]
    <3>1. PICK j : j = i - p - l + c - 1
      OBVIOUS
    <3>2. j \in c..n /\ u[i] = x.entries[j]
      BY <2>3, <3>1
    <3>3. i \notin start..e
      BY <1>6, <1>e, <2>0, <2>3
    <3> QED BY <1>12, <3>2, <3>3
  <2> QED BY <1>7, <2>1, <2>2, <2>3
<1>14. ItemsFirst(u)
  <2> SUFFICES ASSUME NEW i \in 1..Len(u), NEW j \in 1..Len(u), i < j, IsPending(u[i]),
                      IsWaitingItem(u[j])
               PROVE  IsWaitingItem(u[i])
    BY DEF ItemsFirst
  <2>1. PICK d \in Nat : Pending(m) = start..d
    BY <1>2, <1>3, CutWaits
  <2>2. i \in Pending(m)
    BY <1>3, <1>4, SomeRows DEF Pending
  <2>3. j \in start..e /\ i \in Nat /\ j \in Nat
    BY <1>6, <1>13
  <2>4. i \in start..e
    BY <1>11, <2>1, <2>2, <2>3
  <2> QED BY <1>13, <2>4
<1>15. WaitsAs(m.entries, r.entries) /\ QueueOk(r) /\ (r = m \/ Pending(m) = {})
  BY <1>2, <1>3, WaitsDropped, DropStaleWaveIs
<1>16. PICK gs : gs = r.entries
  OBVIOUS
<1>17. ItemsFirst(gs)
  BY <1>4, <1>14, <1>15, <1>16, WaitsKeep
<1>18. Rows(r) = 1..Len(gs)
  BY <1>15, <1>16, SomeRows
<1>a. PICK k \in Nat : k = Len(w) /\ e = start + k - 1
  BY <1>9, <1>10
<1>19. CASE r = m
  <2>1. ItemsAt(r, w, start, e)
    BY <1>4, <1>11, <1>13, <1>16, <1>18, <1>19 DEF ItemsAt
  <2>2. WaitingOf(r) = [i \in 1..Len(w) |-> w[i].item]
    BY <1>15, <1>a, <2>1, WaitingIs
  <2> QED BY <1>16, <1>17, <2>2
<1>20. CASE Pending(m) = {}
  <2>1. \A i \in 1..Len(u) : ~ IsPending(u[i])
    BY <1>3, <1>4, <1>20, SomeRows DEF Pending
  <2>2. NoItems(u)
    BY <2>1 DEF NoItems, IsWaitingItem
  <2>3. NoItems(gs)
    BY <1>4, <1>15, <1>16, <2>2, WaitsKeep
  <2>4. start..e = {}
    <3> SUFFICES ASSUME NEW i \in start..e PROVE FALSE
      OBVIOUS
    <3> QED BY <1>11, <1>13, <2>2 DEF NoItems
  <2>5. ItemsAt(r, w, start, e)
    BY <1>16, <1>18, <2>3, <2>4 DEF NoItems, ItemsAt
  <2>6. WaitingOf(r) = [i \in 1..Len(w) |-> w[i].item]
    BY <1>15, <1>a, <2>5, WaitingIs
  <2> QED BY <1>16, <1>17, <2>6
<1> QED BY <1>15, <1>19, <1>20

\* An add() asked for before the jam never comes during it, in any setting.
NoLateAdds == \A s \in Settings : ~ s.lateAdds

\* In a layer its items wait before all that was added earlier, and outside one
\* none wait.
ItemsInv == ItemsFirst(q.entries) /\ (~ layer => NoItems(q.entries))

LEMMA NoneFirst ==
  ASSUME NEW es, NoItems(es)
  PROVE  ItemsFirst(es)
BY DEF NoItems, ItemsFirst

\* What a call leaves behind has the rows it was given.
LEMMA BecomesRows ==
  ASSUME NEW r, QueueOk(r), Becomes(r)
  PROVE  q'.entries = r.entries
BY DEF Becomes, QueueOk, QueueFields

\* A call that keeps the order of what waits.
LEMMA ItemsKept ==
  ASSUME RowsInv, ItemsInv, layer' = layer, NEW l, NEW r, QueueOk(r), Becomes(r),
         WaitsAs(Fresh(l).entries, r.entries)
  PROVE  ItemsInv'
<1>1. Fresh(l).entries = q.entries /\ q'.entries = r.entries
  BY FreshIs, BecomesRows DEF RowsInv
<1>2. PICK es, fs : es = q.entries /\ fs = r.entries
  OBVIOUS
<1>3. (ItemsFirst(es) => ItemsFirst(fs)) /\ (NoItems(es) => NoItems(fs))
  BY <1>1, <1>2, WaitsKeep
<1> QED BY <1>1, <1>2, <1>3 DEF ItemsInv

\* A call after which no item waits.
LEMMA ItemsGone ==
  ASSUME NEW r, QueueOk(r), Becomes(r), NoItems(r.entries)
  PROVE  ItemsInv'
<1>1. q'.entries = r.entries
  BY BecomesRows
<1>2. ItemsFirst(r.entries)
  BY NoneFirst
<1> QED BY <1>1, <1>2 DEF ItemsInv

\* setLayerItems() makes the waiting items match.
LEMMA ItemsStep ==
  ASSUME RowsInv, ItemsInv, NEW items \in setting.itemLists, NEW h \in Hints,
         SetLayerItems(items, h)
  PROVE  /\ ItemsInv'
         /\ WaitingOf(q') = [n \in 1..Len(Wanted(q, items)) |-> Wanted(q, items)[n].item]
<1>1. PICK l \in setting.lucks : Becomes(SetItems(Fresh(l), items, h))
  BY DEF SetLayerItems
<1>2. PICK x, r, w : x = Fresh(l) /\ r = SetItems(x, items, h) /\ w = Wanted(x, items)
  OBVIOUS
<1>3. /\ QueueOk(x) /\ Together(x) /\ x.entries = q.entries /\ x.playing = q.playing
      /\ items \in ItemList
  BY <1>2, FreshIs, SettingIs DEF RowsInv, RowsFine
<1>4. h \in Hint
  BY SettingIs DEF Hints, Hint, RowsInv
<1>5. w = Wanted(q, items)
  BY <1>2, <1>3 DEF Wanted, HasCurrent, Current, Rows
<1>6. ItemsFirst(x.entries)
  BY <1>3 DEF ItemsInv
<1>7. ItemsFirst(r.entries) /\ WaitingOf(r) = [n \in 1..Len(w) |-> w[n].item]
  BY <1>2, <1>3, <1>4, <1>6, ItemsSet
<1>8. QueueOk(r)
  BY <1>2, <1>3, <1>4, SetItemsKeeps DEF Edit, Keeps
<1>9. q'.entries = r.entries
  BY <1>1, <1>2, <1>8, BecomesRows
<1>10. WaitingOf(q') = WaitingOf(r)
  <2>1. PICK y : y = q'
    OBVIOUS
  <2>2. y.entries = r.entries
    BY <1>9, <2>1
  <2>3. WaitingOf(y) = WaitingOf(r)
    BY <2>2 DEF WaitingOf, EntriesAt, Rows
  <2> QED BY <2>1, <2>3
<1>11. layer' = layer /\ layer
  BY DEF SetLayerItems
<1> QED BY <1>5, <1>7, <1>9, <1>10, <1>11 DEF ItemsInv

\* Every call keeps the items first, and lets none stay when the layer ends.
LEMMA ItemsCalls ==
  ASSUME NoLateAdds, RowsInv, ItemsInv, Calls
  PROVE  ItemsInv'
<1>0. ASSUME NEW l PROVE /\ RowsFine(Fresh(l)) /\ QueueOk(Fresh(l)) /\ Together(Fresh(l))
                         /\ Fresh(l).entries = q.entries /\ PreviousRow(Fresh(l)) = PreviousRow(q)
  BY FreshIs DEF RowsInv, RowsFine
<1>1. QueueOk(q)
  BY DEF RowsInv, RowsFine
<1>2. ASSUME layer' = layer, q'.entries = q.entries PROVE ItemsInv'
  BY <1>2 DEF ItemsInv
<1>3. CASE NewQueue
  <2>1. PICK s \in setting.sources, l \in setting.lucks : Becomes(Replace(Fresh(l), s))
    BY <1>3 DEF NewQueue
  <2>2. PICK x, r : x = Fresh(l) /\ r = Replace(x, s)
    OBVIOUS
  <2>3. QueueOk(x) /\ s \in Source
    BY <1>0, <2>2, SettingIs DEF RowsInv
  <2>4. QueueOk(r) /\ NoItems(r.entries)
    BY <2>2, <2>3, ReplaceIs, NoItemsReplaced
  <2> QED BY <2>1, <2>2, <2>4, ItemsGone
<1>4. CASE NewBaseUnderLayer
  <2>1. PICK s \in setting.sources, l \in setting.lucks : Becomes(ReplaceBase(Fresh(l), s))
    BY <1>4 DEF NewBaseUnderLayer
  <2>2. PICK x, r : x = Fresh(l) /\ r = ReplaceBase(x, s)
    OBVIOUS
  <2>3. QueueOk(x) /\ Together(x) /\ s \in Source
    BY <1>0, <2>2, SettingIs DEF RowsInv
  <2>4. QueueOk(r) /\ ItemsFirst(r.entries)
    BY <2>2, <2>3, ReplaceBaseKeeps, ItemsBased DEF Keeps
  <2>5. q'.entries = r.entries
    BY <2>1, <2>2, <2>4, BecomesRows
  <2>6. layer' = layer /\ layer
    BY <1>4 DEF NewBaseUnderLayer
  <2> QED BY <2>4, <2>5, <2>6 DEF ItemsInv
<1>5. CASE GetHistoryWave
  <2>1. q'.entries = q.entries /\ layer' = layer
    BY <1>1, <1>5 DEF GetHistoryWave, QueueOk, QueueFields
  <2> QED BY <1>2, <2>1
<1>6. CASE Reply
  <2>1. PICK tracks \in setting.trackLists, l \in setting.lucks, seeds \in 0..setting.seeds :
          \/ seeds = 0 /\ Becomes(AppendContinuation(Fresh(l), tracks, "own", 0))
          \/ Becomes(AppendContinuation(Fresh(l), tracks, "history", seeds))
    BY <1>6 DEF Reply
  <2>2. tracks \in Seq(Tracks) /\ seeds \in Nat
    BY SettingIs DEF RowsInv
  <2>3. \E giver \in Givers : Becomes(AppendContinuation(Fresh(l), tracks, giver, seeds))
    BY <2>1 DEF Givers
  <2>4. PICK giver, x, r : /\ giver \in Givers /\ x = Fresh(l)
                           /\ r = AppendContinuation(x, tracks, giver, seeds) /\ Becomes(r)
    BY <2>3
  <2>5. QueueOk(x)
    BY <1>0, <2>4
  <2>6. QueueOk(r) /\ WaitsAs(x.entries, r.entries)
    BY <2>2, <2>4, <2>5, AppendKeeps, WaitsReplied DEF Edit, Keeps
  <2>7. layer' = layer
    BY <1>6 DEF Reply
  <2> QED BY <2>4, <2>6, <2>7, ItemsKept
<1>7. CASE AddTracks
  <2>1. PICK tracks \in setting.trackLists, placement \in {"Next", "End"}, l \in setting.lucks :
          Becomes(Add(Fresh(l), tracks, placement))
    BY <1>7 DEF AddTracks
  <2>2. PICK x, r : x = Fresh(l) /\ r = Add(x, tracks, placement)
    OBVIOUS
  <2>3. QueueOk(x) /\ tracks \in Seq(Tracks) /\ x.entries = q.entries
    BY <1>0, <2>2, SettingIs DEF RowsInv
  <2>4. ~ layer
    BY <1>7 DEF AddTracks, NoLateAdds, RowsInv
  <2>5. NoItems(x.entries)
    BY <2>3, <2>4 DEF ItemsInv
  <2>6. QueueOk(r) /\ NoItems(r.entries)
    BY <2>2, <2>3, <2>5, AddKeeps, NoItemsAdded DEF Edit, Keeps
  <2> QED BY <2>1, <2>2, <2>6, ItemsGone
<1>8. CASE RemoveSome
  <2>1. PICK rows \in SUBSET Removable, l \in setting.lucks : Becomes(RemoveRows(Fresh(l), rows))
    BY <1>8 DEF RemoveSome
  <2>2. PICK x, r : x = Fresh(l) /\ r = RemoveRows(x, rows)
    OBVIOUS
  <2>3. QueueOk(r) /\ WaitsAs(x.entries, r.entries)
    BY <1>0, <2>2, RemoveRowsIs, WaitsRemoved
  <2>4. layer' = layer
    BY <1>8 DEF RemoveSome
  <2> QED BY <2>1, <2>2, <2>3, <2>4, ItemsKept
<1>9. CASE BeginLayer
  BY <1>9 DEF BeginLayer, ItemsInv
<1>10. CASE \E items \in setting.itemLists, h \in Hints : SetLayerItems(items, h)
  BY <1>10, ItemsStep
<1>11. CASE FinishLayer
  <2>1. PICK l \in setting.lucks : Becomes(EndLayer(Fresh(l)))
    BY <1>11 DEF FinishLayer
  <2>2. PICK x, r : x = Fresh(l) /\ r = EndLayer(x)
    OBVIOUS
  <2>3. QueueOk(r) /\ NoItems(r.entries)
    BY <1>0, <2>2, EndLayerKeeps, NoItemsLeft DEF Keeps
  <2> QED BY <2>1, <2>2, <2>3, ItemsGone
<1>12. CASE Advance \/ Jump
  <2>1. Jump
    BY <1>12, JumpStep
  <2>2. PICK row \in Rows(q), l \in setting.lucks : Becomes(Select(Fresh(l), row))
    BY <2>1 DEF Jump, SelectRow
  <2>3. PICK x, r : x = Fresh(l) /\ r = Select(x, row)
    OBVIOUS
  <2>4. row \in Rows(x)
    BY <1>0, <2>3 DEF Rows
  <2>5. QueueOk(r) /\ WaitsAs(x.entries, r.entries)
    BY <1>0, <2>3, <2>4, SelectIs, WaitsSelected
  <2>6. layer' = layer
    BY <2>1 DEF Jump, SelectRow
  <2> QED BY <2>2, <2>3, <2>5, <2>6, ItemsKept
<1>13. CASE GoBack
  <2>1. PICK l \in setting.lucks : Becomes(Select(StepBack(Fresh(l)), PreviousRow(q)))
    BY <1>13 DEF GoBack
  <2>2. PICK x, y, row, r : /\ x = Fresh(l) /\ y = StepBack(x) /\ row = PreviousRow(q)
                            /\ r = Select(y, row)
    OBVIOUS
  <2>3. QueueOk(y) /\ y.entries = x.entries
    BY <1>0, <2>2, StepBackIs
  <2>4. QueueOk(r)
    <3>1. CASE row \in Rows(y)
      BY <2>2, <2>3, <3>1, SelectIs
    <3>2. CASE row \notin Rows(y)
      BY <2>2, <2>3, <3>2 DEF Select
    <3> QED BY <3>1, <3>2
  <2>5. WaitsAs(x.entries, r.entries)
    BY <2>2, <2>3, WaitsSelected
  <2>6. layer' = layer
    BY <1>13 DEF GoBack
  <2> QED BY <2>1, <2>2, <2>4, <2>5, <2>6, ItemsKept
<1>14. CASE ChangeModes
  <2>1. PICK l \in setting.lucks :
          \/ Becomes(SetShuffle(Fresh(l), ~ q.shuffle))
          \/ \E a \in {"random", "shuffled"} \ {q.algorithm} :
               Becomes(SetShuffleAlgorithm(Fresh(l), a))
          \/ Becomes(SetRepeat(Fresh(l), ~ q.repeat))
    BY <1>14 DEF ChangeModes
  <2>2. PICK x, on, re : x = Fresh(l) /\ on = (~ q.shuffle) /\ re = (~ q.repeat)
    OBVIOUS
  <2>3. QueueOk(x) /\ x.entries = q.entries
    BY <1>0, <2>2
  <2>4. \A v : /\ SetShuffle(x, v).entries = x.entries /\ SetRepeat(x, v).entries = x.entries
               /\ SetShuffleAlgorithm(x, v).entries = x.entries
               /\ QueueFields \subseteq DOMAIN SetShuffle(x, v)
               /\ QueueFields \subseteq DOMAIN SetRepeat(x, v)
               /\ QueueFields \subseteq DOMAIN SetShuffleAlgorithm(x, v)
    BY <2>3 DEF SetShuffle, SetRepeat, SetShuffleAlgorithm, ResetNavigator, QueueOk, QueueFields
  <2>5. \/ Becomes(SetShuffle(x, on)) \/ Becomes(SetRepeat(x, re))
        \/ \E a : Becomes(SetShuffleAlgorithm(x, a))
    BY <2>1, <2>2
  <2>6. PICK r : Becomes(r) /\ r.entries = x.entries /\ QueueFields \subseteq DOMAIN r
    BY <2>4, <2>5, Zenon
  <2>7. q'.entries = q.entries
    BY <2>3, <2>6 DEF Becomes, QueueFields
  <2>8. layer' = layer
    BY <1>14 DEF ChangeModes
  <2> QED BY <1>2, <2>7, <2>8
<1> QED BY <1>3, <1>4, <1>5, <1>6, <1>7, <1>8, <1>9, <1>10, <1>11, <1>12, <1>13, <1>14 DEF Calls

\* setLayerItems() keeps its promise: once it is done, the items that wait are
\* the ones the layer was given but for the current one, in their order, each
\* once, whatever was selected, removed or laid under the layer in between
\* (core/queue.cpp, setItems()).  Without the assumption the property fails: the
\* run with an add() that comes during the jam finds how.
THEOREM LayerGetsItsItems ==
  ASSUME NoLateAdds
  PROVE  Spec => LayerItemsMatch
<1> DEFINE Kept == \A items \in setting.itemLists :
                     WaitingOf(q') # [n \in 1..Len(Wanted(q, items)) |-> Wanted(q, items)[n].item]
                       => ~ \E h \in Hints : SetLayerItems(items, h)
<1>1. Init => RowsInv /\ ItemsInv
  <2> SUFFICES ASSUME Init PROVE RowsInv /\ ItemsInv
    OBVIOUS
  <2>1. q.entries = <<>>
    BY DEF Init, EmptyQueue
  <2>2. NoItems(q.entries)
    BY <2>1 DEF NoItems
  <2> QED BY <2>2, RowsStart, NoneFirst DEF ItemsInv
<1>2. RowsInv /\ ItemsInv /\ [Next]_<<vars, setting>> => (RowsInv /\ ItemsInv)'
  <2> SUFFICES ASSUME RowsInv, ItemsInv, [Next]_<<vars, setting>> PROVE (RowsInv /\ ItemsInv)'
    OBVIOUS
  <2>1. RowsInv'
    BY RowsStep
  <2>2. CASE Calls
    BY <2>1, <2>2, ItemsCalls
  <2>3. CASE UNCHANGED vars
    BY <2>1, <2>3 DEF ItemsInv, vars
  <2> QED BY <2>2, <2>3 DEF Next, vars
<1>3. RowsInv /\ ItemsInv /\ [Next]_<<vars, setting>> => [Kept]_vars
  BY ItemsStep
<1>4. [][Kept]_vars => LayerItemsMatch
  BY PTL DEF LayerItemsMatch
<1> QED BY <1>1, <1>2, <1>3, <1>4, PTL DEF Spec
=============================================================================
