---------------------------- MODULE PlayerProofs ----------------------------
(***************************************************************************)
(* Whatever sources, users, timers and the engine do and in whatever       *)
(* order: the engine plays the track the player calls current, the preload *)
(* is what comes next, and a wait for the network can end.                 *)
(*                                                                         *)
(* Each private method of the player has a lemma: what it needs and what   *)
(* it leaves.  Midway is what holds between any two of them; the rest of   *)
(* the invariant may be broken in the middle of an action.                 *)
(***************************************************************************)
EXTENDS Player, QueueProofs

-----------------------------------------------------------------------------
(* The inductive invariant *)

FeedFields == {"stream", "loading", "downloaded", "failure", "arrived"}
CurrentFields == {"track", "started", "feed", "waits", "resume", "halted"}
PreloadFields == {"row", "track", "asked", "feed"}
EngineFields == {"state", "current", "queued", "full", "finished", "givenUp"}
PlayerFields ==
  {"q", "engine", "current", "preload", "opening", "more", "seeded", "waiting", "failures",
   "retry", "online", "layer", "shut", "open", "calls"}

\* Only a stream that is held is complete.
EngineOk(e) ==
  /\ EngineFields \subseteq DOMAIN e
  /\ e.state \in {"Stopped", "Buffering", "Playing", "Paused"}
  /\ e.current \in Nat /\ e.queued \in Nat
  /\ e.full \subseteq {e.current, e.queued} \ {0}

FeedOk(feed) ==
  /\ FeedFields \subseteq DOMAIN feed /\ feed.stream \in Nat
  /\ feed.loading => ~ feed.downloaded /\ feed.stream # 0

CurrentOk(c) ==
  /\ CurrentFields \subseteq DOMAIN c /\ FeedOk(c.feed)
  /\ c.track = NoTrack =>
       ~ c.started /\ ~ c.waits /\ ~ c.feed.loading /\ ~ c.feed.downloaded

PreloadOk(l) ==
  /\ PreloadFields \subseteq DOMAIN l /\ FeedOk(l.feed)
  /\ l.track = NoTrack \/ l.asked => l.feed.stream = 0

MoreOk(m) == m.giver \in Givers /\ m.seeds \in Nat

\* The queued stream is the preload's, a track is opened or waits only before it
\* has its data, the events are in pairs, and nothing plays after the shutdown.
Joints(x) ==
  /\ x.engine.queued # 0 => HasPreload(x) /\ x.preload.feed.stream = x.engine.queued
  /\ ~ HasTrack(x) => ~ x.opening
  /\ x.current.feed.downloaded \/ x.current.feed.loading => ~ x.opening /\ ~ x.current.waits
  /\ x.open = IF x.current.started THEN <<x.current.track>> ELSE <<>>
  /\ x.shut => x.engine.current = 0 /\ ~ HasTrack(x) /\ ~ HasPreload(x)

PartsOk(x) ==
  /\ PlayerFields \subseteq DOMAIN x /\ EngineOk(x.engine) /\ CurrentOk(x.current)
  /\ PreloadOk(x.preload) /\ MoreOk(x.more)
QueueFine(q) == QueueOk(q) /\ Together(q) /\ ~ q.changed

\* What every method of the player leaves, in the middle of an action too.
Midway(x) == PartsOk(x) /\ QueueFine(x.q) /\ Joints(x)

\* The current track is the marked one; its stream is the one that sounds.
IsMarked(x) == HasCurrent(x.q) /\ Current(x.q).track = x.current.track
Sounds(x) ==
  /\ HasTrack(x) <=> x.engine.current # 0
  /\ HasTrack(x) => x.current.feed.stream = x.engine.current /\ IsMarked(x)
Marked(x) == ~ x.shut => MarkAgrees(x.q)

\* A preload is for when the current track, open and with all its data, ends.
Behind(x) ==
  HasPreload(x) => /\ HasTrack(x) /\ x.current.started /\ x.current.feed.downloaded
                   /\ ~ x.opening /\ ~ x.current.waits
NextLoads(x) ==
  HasPreload(x) => /\ x.preload.row # 0 /\ x.preload.row = NextRow(x.q)
                   /\ x.preload.track = TrackAt(x.q, x.preload.row)

Core(x) == Midway(x) /\ Sounds(x) /\ Marked(x)
Upright(x) == Core(x) /\ Behind(x) /\ NextLoads(x)

\* The system tells whether there is a network, in every setting.
NetworkTold == \A s \in Settings : s.reports \subseteq {"yes", "no"}
CanEnd(x) == NetworkTold /\ x.current.waits => x.retry \/ x.opening \/ x.online = "no"
PlayerInv(x) == Upright(x) /\ CanEnd(x)

-----------------------------------------------------------------------------
(* What the invariant does not read *)

FeedAlike(f, g) ==
  /\ FeedFields \subseteq DOMAIN g
  /\ g.stream = f.stream /\ g.loading = f.loading /\ g.downloaded = f.downloaded
CurrentAlike(c, d) ==
  /\ CurrentFields \subseteq DOMAIN d /\ FeedAlike(c.feed, d.feed)
  /\ d.track = c.track /\ d.started = c.started /\ d.waits = c.waits
PreloadAlike(l, m) ==
  /\ PreloadFields \subseteq DOMAIN m /\ FeedAlike(l.feed, m.feed)
  /\ m.row = l.row /\ m.track = l.track /\ m.asked = l.asked
QueueAlike(q, r) == SameRows(q, r) /\ NextAlike(q, r)
Alike(x, r) ==
  /\ PlayerFields \subseteq DOMAIN r /\ MoreOk(r.more)
  /\ QueueAlike(x.q, r.q) /\ r.engine = x.engine
  /\ CurrentAlike(x.current, r.current) /\ PreloadAlike(x.preload, r.preload)
  /\ r.opening = x.opening /\ r.retry = x.retry /\ r.online = x.online
  /\ r.shut = x.shut /\ r.open = x.open

LEMMA QueueAlikeFine ==
  ASSUME NEW q, QueueFine(q), NEW r, QueueAlike(q, r)
  PROVE  /\ QueueFine(r) /\ NextRow(r) = NextRow(q) /\ Rows(r) = Rows(q)
         /\ HasCurrent(r) = HasCurrent(q) /\ (HasCurrent(q) => Current(r) = Current(q))
         /\ MarkAgrees(q) => MarkAgrees(r)
         /\ r.entries = q.entries
<1>1. SameRows(q, r) /\ NextAlike(q, r) /\ QueueOk(q) /\ Together(q) /\ ~ q.changed
  BY DEF QueueAlike, QueueFine
<1>2. /\ QueueOk(r) /\ Together(r) /\ HasCurrent(r) = HasCurrent(q)
      /\ HasCurrent(q) => Current(r) = Current(q)
  BY <1>1, SameRowsOk
<1>3. NextRow(r) = NextRow(q) /\ Rows(r) = Rows(q)
  BY <1>1, <1>2, SameNext
<1>4. MarkAgrees(q) => MarkAgrees(r)
  BY <1>1, MarkSame
<1>5. ~ r.changed /\ r.entries = q.entries
  BY <1>1 DEF SameRows
<1> QED BY <1>2, <1>3, <1>4, <1>5, <1>1 DEF QueueFine

LEMMA PartsAlike ==
  ASSUME NEW x, PartsOk(x), NEW r, Alike(x, r)
  PROVE  PartsOk(r) /\ HasTrack(r) = HasTrack(x) /\ HasPreload(r) = HasPreload(x)
<1>1. HasTrack(r) = HasTrack(x) /\ HasPreload(r) = HasPreload(x)
  BY DEF Alike, HasTrack, HasPreload, CurrentAlike, PreloadAlike
<1>2. FeedOk(r.current.feed) /\ FeedOk(r.preload.feed)
  BY DEF Alike, CurrentAlike, PreloadAlike, FeedAlike, PartsOk, CurrentOk, PreloadOk, FeedOk
<1>3. CurrentOk(r.current)
  BY <1>2 DEF Alike, CurrentAlike, FeedAlike, PartsOk, CurrentOk
<1>4. PreloadOk(r.preload)
  BY <1>2 DEF Alike, PreloadAlike, FeedAlike, PartsOk, PreloadOk
<1> QED BY <1>1, <1>3, <1>4 DEF Alike, PartsOk

\* What is alike for the invariant keeps each of its parts.
LEMMA AlikeKeeps ==
  ASSUME NEW x, Midway(x), NEW r, Alike(x, r)
  PROVE  /\ Midway(r) /\ HasTrack(r) = HasTrack(x) /\ HasPreload(r) = HasPreload(x)
         /\ (Sounds(x) => Sounds(r)) /\ (Marked(x) => Marked(r))
         /\ (Behind(x) => Behind(r)) /\ (NextLoads(x) => NextLoads(r))
         /\ (CanEnd(x) => CanEnd(r)) /\ (IsMarked(x) => IsMarked(r))
<1>1. PartsOk(r) /\ HasTrack(r) = HasTrack(x) /\ HasPreload(r) = HasPreload(x)
  BY PartsAlike DEF Midway
<1>2. /\ QueueFine(r.q) /\ NextRow(r.q) = NextRow(x.q)
      /\ HasCurrent(r.q) = HasCurrent(x.q) /\ (HasCurrent(x.q) => Current(r.q) = Current(x.q))
      /\ MarkAgrees(x.q) => MarkAgrees(r.q)
      /\ r.q.entries = x.q.entries
  BY QueueAlikeFine DEF Midway, Alike
<1>3. /\ r.engine = x.engine /\ r.opening = x.opening /\ r.retry = x.retry /\ r.online = x.online
      /\ r.shut = x.shut /\ r.open = x.open
  BY DEF Alike
<1>4. /\ r.current.track = x.current.track /\ r.current.started = x.current.started
      /\ r.current.waits = x.current.waits /\ r.current.feed.stream = x.current.feed.stream
      /\ r.current.feed.loading = x.current.feed.loading
      /\ r.current.feed.downloaded = x.current.feed.downloaded
      /\ r.preload.feed.stream = x.preload.feed.stream
      /\ r.preload.row = x.preload.row /\ r.preload.track = x.preload.track
  BY DEF Alike, CurrentAlike, PreloadAlike, FeedAlike
<1>5. Joints(r)
  BY <1>1, <1>3, <1>4 DEF Midway, Joints
<1>6. (Sounds(x) => Sounds(r)) /\ (IsMarked(x) => IsMarked(r))
  BY <1>1, <1>2, <1>3, <1>4 DEF Sounds, IsMarked
<1>7. Marked(x) => Marked(r)
  BY <1>2, <1>3 DEF Marked
<1>8. Behind(x) => Behind(r)
  BY <1>1, <1>3, <1>4 DEF Behind
<1>9. NextLoads(x) => NextLoads(r)
  BY <1>1, <1>2, <1>4 DEF NextLoads, TrackAt
<1>10. CanEnd(x) => CanEnd(r)
  BY <1>3, <1>4 DEF CanEnd
<1> QED BY <1>1, <1>2, <1>5, <1>6, <1>7, <1>8, <1>9, <1>10 DEF Midway

LEMMA AlikeInv ==
  ASSUME NEW x, PlayerInv(x), NEW r, Alike(x, r)
  PROVE  PlayerInv(r)
BY AlikeKeeps DEF PlayerInv, Upright, Core

LEMMA AlikeSelf ==
  ASSUME NEW x, Midway(x)
  PROVE  Alike(x, x)
<1>1. QueueAlike(x.q, x.q)
  BY DEF Midway, QueueFine, QueueOk, QueueAlike, SameRows, NextAlike
<1>2. CurrentAlike(x.current, x.current) /\ PreloadAlike(x.preload, x.preload)
  BY DEF Midway, PartsOk, CurrentOk, PreloadOk, FeedOk, CurrentAlike, PreloadAlike, FeedAlike
<1> QED BY <1>1, <1>2 DEF Alike, Midway, PartsOk

LEMMA AlikeFrom ==
  ASSUME NEW x, Midway(x), NEW r, PlayerFields \subseteq DOMAIN r, MoreOk(r.more),
         r.q = x.q, r.engine = x.engine, r.current = x.current, r.preload = x.preload,
         r.opening = x.opening, r.retry = x.retry, r.online = x.online, r.shut = x.shut,
         r.open = x.open
  PROVE  Alike(x, r)
BY AlikeSelf DEF Alike

LEMMA SomeFields ==
  ASSUME NEW x, Midway(x)
  PROVE  PlayerFields \subseteq DOMAIN x /\ MoreOk(x.more) /\ QueueFields \subseteq DOMAIN x.q
BY DEF Midway, PartsOk, QueueFine, QueueOk

-----------------------------------------------------------------------------
(* The preload, and asking for more *)

\* The counters of waiting, failures and calls are not read.
LEMMA CountersAlike ==
  ASSUME NEW x, Midway(x), NEW v
  PROVE  /\ Alike(x, [x EXCEPT !.waiting = v]) /\ Alike(x, [x EXCEPT !.failures = v])
         /\ Alike(x, [x EXCEPT !.calls = v]) /\ Alike(x, [x EXCEPT !.seeded = v])
         /\ Alike(x, [x EXCEPT !.layer = v])
<1>1. ASSUME NEW r, r = [x EXCEPT !.waiting = v]  PROVE Alike(x, r)
  BY <1>1, AlikeFrom, SomeFields DEF PlayerFields
<1>2. ASSUME NEW r, r = [x EXCEPT !.failures = v]  PROVE Alike(x, r)
  BY <1>2, AlikeFrom, SomeFields DEF PlayerFields
<1>3. ASSUME NEW r, r = [x EXCEPT !.calls = v]  PROVE Alike(x, r)
  BY <1>3, AlikeFrom, SomeFields DEF PlayerFields
<1>4. ASSUME NEW r, r = [x EXCEPT !.seeded = v]  PROVE Alike(x, r)
  BY <1>4, AlikeFrom, SomeFields DEF PlayerFields
<1>5. ASSUME NEW r, r = [x EXCEPT !.layer = v]  PROVE Alike(x, r)
  BY <1>5, AlikeFrom, SomeFields DEF PlayerFields
<1> QED BY <1>1, <1>2, <1>3, <1>4, <1>5

LEMMA ByUserAlike ==
  ASSUME NEW x, Midway(x)
  PROVE  Alike(x, ByUser(x))
BY CountersAlike DEF ByUser

\* A queue whose rows and marks are what they were.
LEMMA QueueOnly ==
  ASSUME NEW x, Midway(x), NEW q, QueueAlike(x.q, q), NEW m, MoreOk(m), NEW w,
         NEW r, r = [x EXCEPT !.q = q, !.more = m, !.waiting = w]
  PROVE  Alike(x, r)
<1>1. /\ PlayerFields \subseteq DOMAIN r /\ r.q = q /\ r.more = m
      /\ r.engine = x.engine /\ r.current = x.current /\ r.preload = x.preload
      /\ r.opening = x.opening /\ r.retry = x.retry /\ r.online = x.online
      /\ r.shut = x.shut /\ r.open = x.open
  BY SomeFields DEF PlayerFields
<1> QED BY <1>1, AlikeSelf DEF Alike

LEMMA QueueBits ==
  ASSUME NEW q, QueueOk(q), NEW a, NEW s, NEW v
  PROVE  QueueAlike(q, [q EXCEPT !.asking = a, !.stalled = s, !.withVibe = v])
BY DEF QueueAlike, SameRows, NextAlike, QueueOk, QueueFields

LEMMA MaybeLoadMoreIs ==
  ASSUME NEW x, Midway(x), NEW r, r = MaybeLoadMore(x)
  PROVE  Alike(x, r)
<1>1. CASE r = x
  BY <1>1, AlikeSelf
<1>2. CASE r # x
  <2>1. PICK m : m = [giver |-> Giver(x),
                      seeds |-> IF Giver(x) = "history" /\ x.q.hint.seeds
                                  THEN x.q.hint.version ELSE 0]
    OBVIOUS
  <2>2. MoreOk(m)
    <3>1. Giver(x) \in Givers
      BY DEF Giver, Givers
    <3>2. x.q.hint.version \in Nat
      BY DEF Midway, QueueFine, QueueOk, Hint
    <3> QED BY <2>1, <3>1, <3>2 DEF MoreOk
  <2>3. PICK q : q = [x.q EXCEPT !.asking = TRUE]
    OBVIOUS
  <2>4. QueueAlike(x.q, q)
    BY <2>3 DEF QueueAlike, SameRows, NextAlike, QueueOk, QueueFields, Midway, QueueFine
  <2>5. r = [x EXCEPT !.q = q, !.more = m]
    BY <1>2, <2>1, <2>3 DEF MaybeLoadMore
  <2>6. /\ PlayerFields \subseteq DOMAIN r /\ r.q = q /\ r.more = m
        /\ r.engine = x.engine /\ r.current = x.current /\ r.preload = x.preload
        /\ r.opening = x.opening /\ r.retry = x.retry /\ r.online = x.online
        /\ r.shut = x.shut /\ r.open = x.open
    BY <2>5, SomeFields DEF PlayerFields
  <2> QED BY <2>2, <2>4, <2>6, AlikeSelf DEF Alike
<1> QED BY <1>1, <1>2

\* A method that leaves the track and the queue alone.
OnlyPreload(x, r) ==
  /\ PlayerFields \subseteq DOMAIN r /\ MoreOk(r.more)
  /\ r.q = x.q /\ r.current = x.current
  /\ r.opening = x.opening /\ r.retry = x.retry /\ r.online = x.online
  /\ r.shut = x.shut /\ r.open = x.open
  /\ r.engine.current = x.engine.current /\ r.engine.state = x.engine.state

LEMMA OnlyPreloadKeeps ==
  ASSUME NEW x, Midway(x), NEW r, OnlyPreload(x, r), Midway(r)
  PROVE  /\ HasTrack(r) = HasTrack(x) /\ (Sounds(x) => Sounds(r)) /\ (Marked(x) => Marked(r))
         /\ (IsMarked(x) => IsMarked(r)) /\ (CanEnd(x) => CanEnd(r))
         /\ (Core(x) => Core(r))
<1>1. HasTrack(r) = HasTrack(x) /\ (Sounds(x) => Sounds(r)) /\ (IsMarked(x) => IsMarked(r))
  BY DEF OnlyPreload, HasTrack, Sounds, IsMarked
<1>2. (Marked(x) => Marked(r)) /\ (CanEnd(x) => CanEnd(r))
  BY DEF OnlyPreload, Marked, CanEnd
<1> QED BY <1>1, <1>2 DEF Core

LEMMA NoPreloadIs ==
  /\ PreloadOk(NoPreload) /\ NoPreload.track = NoTrack /\ NoPreload.feed.stream = 0
  /\ NoPreload.feed.loading = FALSE /\ NoPreload.asked = FALSE /\ NoPreload.feed = NoFeed
  /\ FeedOk(NoFeed) /\ NoFeed.stream = 0 /\ NoFeed.loading = FALSE /\ NoFeed.downloaded = FALSE
BY DEF NoPreload, NoFeed, PreloadOk, FeedOk, PreloadFields, FeedFields

\* clearQueued() of the engine.
LEMMA QueueClearedIs ==
  ASSUME NEW e, EngineOk(e), NEW f, f = QueueCleared(e)
  PROVE  EngineOk(f) /\ f.current = e.current /\ f.queued = 0 /\ f.state = e.state
<1>1. /\ EngineFields \subseteq DOMAIN f /\ f.current = e.current /\ f.queued = 0
      /\ f.state = e.state /\ f.full = e.full \ {e.queued}
  BY DEF QueueCleared, EngineOk, EngineFields
<1> QED BY <1>1 DEF EngineOk

LEMMA NothingBehind ==
  ASSUME NEW x, ~ HasPreload(x)
  PROVE  Behind(x) /\ NextLoads(x)
BY DEF Behind, NextLoads

\* cancelPreload() leaves the engine nothing to go on into.
LEMMA CancelPreloadIs ==
  ASSUME NEW x, Midway(x), NEW r, r = CancelPreload(x)
  PROVE  Midway(r) /\ OnlyPreload(x, r) /\ ~ HasPreload(r) /\ r.engine.queued = 0
<1>1. /\ PlayerFields \subseteq DOMAIN r /\ r.q = x.q /\ r.current = x.current /\ r.more = x.more
      /\ r.opening = x.opening /\ r.retry = x.retry /\ r.online = x.online
      /\ r.shut = x.shut /\ r.open = x.open /\ r.preload = NoPreload
      /\ r.engine = IF x.preload.feed.stream # 0 /\ x.preload.feed.stream = x.engine.queued
                      THEN QueueCleared(x.engine) ELSE x.engine
  BY SomeFields DEF CancelPreload, PlayerFields
<1>2. EngineOk(x.engine) /\ (x.engine.queued # 0 => x.preload.feed.stream = x.engine.queued)
  BY DEF Midway, PartsOk, Joints
<1>3. /\ EngineOk(r.engine) /\ r.engine.current = x.engine.current /\ r.engine.queued = 0
      /\ r.engine.state = x.engine.state
  BY <1>1, <1>2, QueueClearedIs
<1>4. ~ HasPreload(r) /\ HasTrack(r) = HasTrack(x)
  BY <1>1, NoPreloadIs DEF HasPreload, HasTrack
<1>5. OnlyPreload(x, r)
  BY <1>1, <1>3, SomeFields DEF OnlyPreload
<1>6. PartsOk(r)
  BY <1>1, <1>3, NoPreloadIs DEF Midway, PartsOk
<1>7. Joints(r)
  BY <1>1, <1>3, <1>4 DEF Midway, Joints
<1> QED BY <1>1, <1>3, <1>4, <1>5, <1>6, <1>7 DEF Midway

LEMMA TrackIsSome ==
  ASSUME NEW q, QueueOk(q), NEW row \in Rows(q)
  PROVE  TrackAt(q, row) \in Tracks /\ TrackAt(q, row) # NoTrack
BY SomeRows, NoTrackAssumption DEF EntryType, TrackAt

\* A preload begins when the current track has all its data, for what next() gives.
LEMMA MaybePreloadIs ==
  ASSUME NEW x, Midway(x), NEW r, r = MaybePreload(x)
  PROVE  /\ Midway(r) /\ OnlyPreload(x, r) /\ (Behind(x) => Behind(r))
         /\ (NextLoads(x) => NextLoads(r)) /\ r.engine = x.engine
<1>1. CASE r = x
  BY <1>1, SomeFields DEF OnlyPreload
<1>2. CASE r # x
  <2>1. PICK row : row = NextRow(x.q)
    OBVIOUS
  <2>2. PICK l : l = [NoPreload EXCEPT !.row = row, !.track = TrackAt(x.q, row), !.asked = TRUE]
    OBVIOUS
  <2>3. /\ ~ HasPreload(x) /\ ~ x.shut /\ HasTrack(x) /\ x.current.started
        /\ x.current.feed.downloaded /\ row # 0 /\ r = [x EXCEPT !.preload = l]
    BY <1>2, <2>1, <2>2 DEF MaybePreload
  <2>4. row \in Rows(x.q)
    BY <2>1, <2>3, NextIsRow DEF Midway, QueueFine
  <2>5. /\ l.row = row /\ l.track = TrackAt(x.q, row) /\ l.asked = TRUE /\ l.feed = NoFeed
        /\ PreloadFields \subseteq DOMAIN l
    BY <2>2 DEF NoPreload, PreloadFields
  <2>6. PreloadOk(l)
    BY <2>5, NoPreloadIs DEF PreloadOk
  <2>7. /\ PlayerFields \subseteq DOMAIN r /\ r.q = x.q /\ r.current = x.current
        /\ r.more = x.more /\ r.opening = x.opening /\ r.retry = x.retry /\ r.online = x.online
        /\ r.shut = x.shut /\ r.open = x.open /\ r.preload = l /\ r.engine = x.engine
    BY <2>3, SomeFields DEF PlayerFields
  <2>8. HasPreload(r) /\ HasTrack(r)
    BY <2>3, <2>4, <2>5, <2>7, TrackIsSome DEF HasPreload, HasTrack, Midway, QueueFine
  <2>9. x.engine.queued = 0 /\ ~ x.opening /\ ~ x.current.waits
    BY <2>3 DEF Midway, Joints
  <2>10. OnlyPreload(x, r)
    BY <2>7, SomeFields DEF OnlyPreload
  <2>11. PartsOk(r) /\ QueueFine(r.q)
    BY <2>6, <2>7 DEF Midway, PartsOk
  <2>12. Joints(r)
    BY <2>3, <2>7, <2>8, <2>9 DEF Midway, Joints
  <2>13. Behind(r)
    BY <2>3, <2>7, <2>8, <2>9 DEF Behind
  <2>14. NextLoads(r)
    BY <2>1, <2>3, <2>5, <2>7 DEF NextLoads
  <2> QED BY <2>7, <2>10, <2>11, <2>12, <2>13, <2>14 DEF Midway
<1> QED BY <1>1, <1>2

LEMMA MaybePreloadKeeps ==
  ASSUME NEW x, Core(x), Behind(x), NextLoads(x), NEW r, r = MaybePreload(x)
  PROVE  Upright(r) /\ (CanEnd(x) => CanEnd(r))
BY MaybePreloadIs, OnlyPreloadKeeps DEF Core, Upright

\* Whatever became of the queue: the preload is what next() gives, or it goes.
LEMMA RefreshPreloadIs ==
  ASSUME NEW x, Core(x), Behind(x), NEW r, r = RefreshPreload(x)
  PROVE  Upright(r) /\ (CanEnd(x) => CanEnd(r))
<1>0. Midway(x) /\ QueueOk(x.q)
  BY DEF Core, Midway, QueueFine
<1>1. CASE HasPreload(x) /\ NextRow(x.q) > 0 /\ TrackAt(x.q, NextRow(x.q)) = x.preload.track
  <2>1. PICK row : row = NextRow(x.q)
    OBVIOUS
  <2>2. row # 0 /\ TrackAt(x.q, row) = x.preload.track
    BY <1>1, <2>1
  <2>3. r = [x EXCEPT !.preload.row = row]
    BY <1>1, <2>1 DEF RefreshPreload
  <2>4. PreloadFields \subseteq DOMAIN x.preload /\ FeedFields \subseteq DOMAIN x.preload.feed
    BY <1>0 DEF Midway, PartsOk, PreloadOk, FeedOk
  <2>5. /\ PlayerFields \subseteq DOMAIN r /\ r.q = x.q /\ r.current = x.current
        /\ r.more = x.more /\ r.opening = x.opening /\ r.retry = x.retry /\ r.online = x.online
        /\ r.shut = x.shut /\ r.open = x.open /\ r.engine = x.engine
        /\ PreloadFields \subseteq DOMAIN r.preload /\ r.preload.row = row
        /\ r.preload.track = x.preload.track /\ r.preload.asked = x.preload.asked
        /\ r.preload.feed = x.preload.feed
    BY <2>3, <2>4, <1>0, SomeFields DEF PlayerFields, PreloadFields
  <2>6. HasPreload(r) = HasPreload(x) /\ HasTrack(r) = HasTrack(x)
    BY <2>5 DEF HasPreload, HasTrack
  <2>7. PreloadOk(r.preload)
    BY <1>0, <2>5 DEF Midway, PartsOk, PreloadOk
  <2>8. PartsOk(r) /\ QueueFine(r.q)
    BY <1>0, <2>5, <2>7 DEF Midway, PartsOk
  <2>9. Joints(r)
    BY <1>0, <2>5, <2>6 DEF Midway, Joints
  <2>10. OnlyPreload(x, r)
    BY <1>0, <2>5, SomeFields DEF OnlyPreload
  <2>11. Behind(r)
    BY <2>5, <2>6 DEF Behind
  <2>12. NextLoads(r)
    BY <2>1, <2>2, <2>5 DEF NextLoads
  <2> QED BY <1>0, <2>8, <2>9, <2>10, <2>11, <2>12, OnlyPreloadKeeps DEF Midway, Upright, Core
<1>2. CASE ~ (HasPreload(x) /\ NextRow(x.q) > 0 /\ TrackAt(x.q, NextRow(x.q)) = x.preload.track)
  <2>1. PICK y : y = CancelPreload(x)
    OBVIOUS
  <2>2. r = MaybePreload(y)
    BY <1>2, <2>1 DEF RefreshPreload
  <2>3. Midway(y) /\ OnlyPreload(x, y) /\ ~ HasPreload(y)
    BY <1>0, <2>1, CancelPreloadIs
  <2>4. Core(y) /\ (CanEnd(x) => CanEnd(y))
    BY <1>0, <2>3, OnlyPreloadKeeps
  <2>5. Behind(y) /\ NextLoads(y)
    BY <2>3, NothingBehind
  <2> QED BY <2>2, <2>4, <2>5, MaybePreloadKeeps
<1> QED BY <1>1, <1>2

-----------------------------------------------------------------------------
(* The queue, the engine, and the end of the current track *)

LEMMA TakenIs ==
  ASSUME NEW q, QueueOk(q), NEW r, r = [q EXCEPT !.changed = FALSE, !.generation = 0]
  PROVE  /\ QueueOk(r) /\ ~ r.changed /\ NextAlike(q, r) /\ r.entries = q.entries
         /\ r.playing = q.playing /\ r.hint = q.hint
         /\ (Together(q) => Together(r)) /\ (MarkAgrees(q) => MarkAgrees(r))
         /\ HasCurrent(r) = HasCurrent(q) /\ (HasCurrent(q) => Current(r) = Current(q))
         /\ NextRow(r) = NextRow(q) /\ Rows(r) = Rows(q)
<1>1. PICK s : s = [q EXCEPT !.changed = q.changed, !.generation = 0]
  OBVIOUS
<1>2. SameRows(q, s)
  BY <1>1 DEF SameRows, QueueOk, QueueFields
<1>3. QueueOk(s) /\ (Together(q) => Together(s)) /\ (MarkAgrees(q) => MarkAgrees(s))
  BY <1>2, SameRowsOk, MarkSame
<1>4. /\ QueueFields \subseteq DOMAIN r /\ r.entries = q.entries /\ r.playing = q.playing
      /\ r.contMark = q.contMark /\ r.hint = q.hint /\ r.changed = FALSE
      /\ r.inHead = q.inHead /\ r.nav = q.nav /\ r.repeat = q.repeat /\ r.own = q.own
  BY DEF QueueOk, QueueFields
<1>5. QueueOk(r) /\ NextAlike(q, r)
  BY <1>4 DEF QueueOk, NextAlike
<1>6. /\ HasCurrent(r) = HasCurrent(q) /\ (HasCurrent(q) => Current(r) = Current(q))
      /\ Rows(r) = Rows(q)
  BY <1>4 DEF HasCurrent, Current, Rows
<1>7. Pending(r) = Pending(q)
  BY <1>4 DEF Pending, Rows
<1>8. Together(q) => Together(r)
  BY <1>4, <1>6, <1>7 DEF Together
<1>9. MarkAgrees(q) => MarkAgrees(r)
  BY <1>4 DEF MarkAgrees, HasCurrent, Rows, Current, OrdinalOf, RowsOf
<1>10. NextRow(r) = NextRow(q)
  BY <1>5, SameNext
<1> QED BY <1>4, <1>5, <1>6, <1>8, <1>9, <1>10

LEMMA WithQueueIs ==
  ASSUME NEW x, Midway(x), NEW q, QueueOk(q), Together(q), NEW r, r = WithQueue(x, q)
  PROVE  /\ Midway(r) /\ r.engine = x.engine /\ r.current = x.current /\ r.preload = x.preload
         /\ r.opening = x.opening /\ r.retry = x.retry /\ r.online = x.online /\ r.layer = x.layer
         /\ r.shut = x.shut /\ r.open = x.open /\ r.waiting = x.waiting
         /\ r.q.entries = q.entries /\ r.q.playing = q.playing /\ Rows(r.q) = Rows(q)
         /\ HasCurrent(r.q) = HasCurrent(q) /\ (HasCurrent(q) => Current(r.q) = Current(q))
         /\ NextRow(r.q) = NextRow(q) /\ NextAlike(q, r.q) /\ (MarkAgrees(q) => MarkAgrees(r.q))
<1>1. PICK s : s = [q EXCEPT !.changed = FALSE, !.generation = 0]
  OBVIOUS
<1>2. r = [x EXCEPT !.q = s]
  BY <1>1 DEF WithQueue
<1>3. /\ PlayerFields \subseteq DOMAIN r /\ r.q = s
      /\ r.engine = x.engine /\ r.current = x.current /\ r.preload = x.preload
      /\ r.more = x.more /\ r.opening = x.opening /\ r.retry = x.retry /\ r.online = x.online
      /\ r.layer = x.layer /\ r.shut = x.shut /\ r.open = x.open /\ r.waiting = x.waiting
  BY <1>2, SomeFields DEF PlayerFields
<1>4. /\ QueueOk(s) /\ ~ s.changed /\ NextAlike(q, s) /\ s.entries = q.entries
      /\ s.playing = q.playing /\ Together(s) /\ (MarkAgrees(q) => MarkAgrees(s))
      /\ HasCurrent(s) = HasCurrent(q) /\ (HasCurrent(q) => Current(s) = Current(q))
      /\ NextRow(s) = NextRow(q) /\ Rows(s) = Rows(q)
  BY <1>1, TakenIs
<1>5. PartsOk(r) /\ QueueFine(r.q)
  BY <1>3, <1>4 DEF Midway, PartsOk, QueueFine
<1>6. Joints(r)
  BY <1>3 DEF Midway, Joints, HasTrack, HasPreload
<1> QED BY <1>3, <1>4, <1>5, <1>6 DEF Midway

\* An edit that keeps the current entry keeps everything but the preload's row.
LEMMA WithQueueKeeps ==
  ASSUME NEW x, Core(x), Behind(x), NEW q, Keeps(x.q, q), NEW r, r = WithQueue(x, q)
  PROVE  Core(r) /\ Behind(r) /\ (CanEnd(x) => CanEnd(r))
<1>1. Midway(x) /\ Sounds(x) /\ Marked(x) /\ QueueOk(x.q) /\ Together(x.q)
  BY DEF Core, Midway, QueueFine
<1>2. QueueOk(q) /\ Together(q)
  BY <1>1 DEF Keeps
<1>3. /\ Midway(r) /\ r.engine = x.engine /\ r.current = x.current /\ r.preload = x.preload
      /\ r.opening = x.opening /\ r.retry = x.retry /\ r.online = x.online /\ r.shut = x.shut
      /\ HasCurrent(r.q) = HasCurrent(q) /\ (HasCurrent(q) => Current(r.q) = Current(q))
      /\ MarkAgrees(q) => MarkAgrees(r.q)
  BY <1>1, <1>2, WithQueueIs
<1>4. HasTrack(r) = HasTrack(x) /\ HasPreload(r) = HasPreload(x)
  BY <1>3 DEF HasTrack, HasPreload
<1>5. ~ x.shut => MarkAgrees(q) /\ KeepsCurrent(x.q, q)
  BY <1>1 DEF Keeps, Marked
<1>6. Marked(r)
  BY <1>3, <1>5 DEF Marked
<1>7. HasTrack(x) => ~ x.shut
  BY <1>1 DEF Midway, Joints
<1>8. Sounds(r)
  BY <1>1, <1>3, <1>4, <1>5, <1>7 DEF Sounds, IsMarked, KeepsCurrent
<1>9. Behind(r) /\ (CanEnd(x) => CanEnd(r))
  BY <1>3, <1>4 DEF Behind, CanEnd
<1> QED BY <1>3, <1>6, <1>8, <1>9 DEF Core

\* queueEdited()
LEMMA EditedIs ==
  ASSUME NEW x, PlayerInv(x), NEW q, Edit(x.q, q), NEW r, r = Edited(x, q)
  PROVE  PlayerInv(r)
<1>1. PICK y : y = WithQueue(x, q)
  OBVIOUS
<1>2. /\ Core(x) /\ Behind(x) /\ NextLoads(x) /\ Midway(x) /\ CanEnd(x) /\ QueueOk(x.q)
      /\ Together(x.q) /\ Keeps(x.q, q)
  BY DEF PlayerInv, Upright, Core, Edit, Midway, QueueFine
<1>3. Core(y) /\ Behind(y) /\ CanEnd(y)
  BY <1>1, <1>2, WithQueueKeeps
<1>4. CASE q.changed
  <2>1. r = RefreshPreload(y)
    BY <1>1, <1>4 DEF Edited
  <2> QED BY <1>3, <2>1, RefreshPreloadIs DEF PlayerInv
<1>5. CASE ~ q.changed
  <2>1. r = y
    BY <1>1, <1>5 DEF Edited
  <2>2. NextAlike(x.q, q) /\ QueueOk(q) /\ Together(q)
    BY <1>2, <1>5 DEF Edit, Quiet, Keeps
  <2>3. /\ y.preload = x.preload /\ y.q.entries = q.entries /\ NextRow(y.q) = NextRow(q)
    BY <1>1, <1>2, <2>2, WithQueueIs
  <2>4. NextRow(q) = NextRow(x.q) /\ q.entries = x.q.entries
    BY <1>2, <2>2, SameNext DEF NextAlike
  <2>5. NextLoads(y)
    BY <1>2, <2>3, <2>4 DEF NextLoads, HasPreload, TrackAt
  <2> QED BY <1>3, <2>1, <2>5 DEF PlayerInv, Upright
<1> QED BY <1>4, <1>5

\* What the engine does is heard; what it has queued it may give up.
LEMMA WithEngineIs ==
  ASSUME NEW x, Midway(x), NEW e, EngineOk(e), e.queued \in {0, x.engine.queued},
         x.shut => e.current = 0, NEW r, r = WithEngine(x, e)
  PROVE  /\ Midway(r) /\ r.engine = e /\ r.q = x.q /\ r.current = x.current
         /\ r.preload = x.preload /\ r.opening = x.opening /\ r.retry = x.retry
         /\ r.online = x.online /\ r.shut = x.shut /\ r.open = x.open
<1>1. /\ PlayerFields \subseteq DOMAIN r /\ r.engine = e /\ r.q = x.q /\ r.current = x.current
      /\ r.more = x.more /\ r.preload = x.preload /\ r.opening = x.opening /\ r.retry = x.retry
      /\ r.online = x.online /\ r.shut = x.shut /\ r.open = x.open
  BY SomeFields DEF WithEngine, PlayerFields
<1>2. PartsOk(r)
  BY <1>1 DEF Midway, PartsOk
<1>3. Joints(r)
  BY <1>1 DEF Midway, Joints, HasTrack, HasPreload
<1> QED BY <1>1, <1>2, <1>3 DEF Midway

LEMMA WithEngineKeeps ==
  ASSUME NEW x, PlayerInv(x), NEW e, EngineOk(e), e.queued \in {0, x.engine.queued},
         e.current = x.engine.current, NEW r, r = WithEngine(x, e)
  PROVE  PlayerInv(r)
<1>1. Midway(x) /\ Sounds(x) /\ Marked(x) /\ Behind(x) /\ NextLoads(x) /\ CanEnd(x)
  BY DEF PlayerInv, Upright, Core
<1>2. x.shut => e.current = 0
  BY <1>1 DEF Midway, Joints
<1>3. /\ Midway(r) /\ r.engine = e /\ r.q = x.q /\ r.current = x.current
      /\ r.preload = x.preload /\ r.opening = x.opening /\ r.retry = x.retry
      /\ r.online = x.online /\ r.shut = x.shut /\ r.open = x.open
  BY <1>1, <1>2, WithEngineIs
<1>4. HasTrack(r) = HasTrack(x) /\ HasPreload(r) = HasPreload(x)
  BY <1>3 DEF HasTrack, HasPreload
<1>5. Sounds(r) /\ Marked(r)
  BY <1>1, <1>3, <1>4 DEF Sounds, IsMarked, Marked
<1>6. Behind(r) /\ NextLoads(r) /\ CanEnd(r)
  BY <1>1, <1>3, <1>4 DEF Behind, NextLoads, CanEnd
<1> QED BY <1>3, <1>5, <1>6 DEF PlayerInv, Upright, Core

LEMMA IdleIs ==
  /\ CurrentOk(Idle) /\ Idle.track = NoTrack /\ Idle.started = FALSE /\ Idle.feed = NoFeed
  /\ Idle.waits = FALSE /\ CurrentFields \subseteq DOMAIN Idle
BY NoPreloadIs DEF Idle, CurrentOk, CurrentFields

LEMMA OneOpen ==
  ASSUME NEW t
  PROVE  /\ Append(<<>>, t) = <<t>> /\ <<t>> # <<>> /\ Tail(<<t>>) = <<>>
OBVIOUS

\* closeCurrent(): no track, and the events in pairs.
LEMMA CloseCurrentIs ==
  ASSUME NEW x, Midway(x), NEW r, r = CloseCurrent(x)
  PROVE  /\ Midway(r) /\ ~ HasTrack(r) /\ r.q = x.q /\ r.engine = x.engine
         /\ r.preload = x.preload /\ r.shut = x.shut /\ r.online = x.online
<1>1. /\ PlayerFields \subseteq DOMAIN r /\ r.q = x.q /\ r.engine = x.engine
      /\ r.preload = x.preload /\ r.shut = x.shut /\ r.online = x.online /\ r.more = x.more
      /\ r.opening = FALSE /\ r.retry = FALSE /\ r.current = Idle
      /\ r.open = IF x.current.started /\ x.open # <<>> THEN Tail(x.open) ELSE x.open
  BY SomeFields DEF CloseCurrent, PlayerFields
<1>2. r.open = <<>>
  BY <1>1, OneOpen DEF Midway, Joints
<1>3. ~ HasTrack(r)
  BY <1>1, IdleIs DEF HasTrack
<1>4. PartsOk(r)
  BY <1>1, IdleIs DEF Midway, PartsOk
<1>5. Joints(r)
  BY <1>1, <1>2, <1>3, IdleIs, NoPreloadIs DEF Midway, Joints, HasPreload
<1> QED BY <1>1, <1>3, <1>4, <1>5 DEF Midway

LEMMA StoppedEngineIs ==
  EngineOk(StoppedEngine) /\ StoppedEngine.current = 0 /\ StoppedEngine.queued = 0
BY DEF StoppedEngine, EngineOk, EngineFields

\* With neither a track nor a preload nor sound there is nothing to get wrong.
LEMMA SilentInv ==
  ASSUME NEW x, Midway(x), Marked(x), ~ HasTrack(x), ~ HasPreload(x), x.engine.current = 0
  PROVE  PlayerInv(x)
<1>1. Sounds(x) /\ Behind(x) /\ NextLoads(x)
  BY NothingBehind DEF Sounds
<1>2. CanEnd(x)
  BY DEF CanEnd, Midway, PartsOk, CurrentOk, HasTrack
<1> QED BY <1>1, <1>2 DEF PlayerInv, Upright, Core

LEMMA ShutInv ==
  ASSUME NEW x, Midway(x), x.shut
  PROVE  PlayerInv(x)
BY SilentInv DEF Midway, Joints, Marked

\* stop()
LEMMA StopAllIs ==
  ASSUME NEW x, Midway(x), NEW r, r = StopAll(x)
  PROVE  /\ Midway(r) /\ ~ HasTrack(r) /\ ~ HasPreload(r) /\ r.engine.current = 0
         /\ r.q = x.q /\ r.shut = x.shut /\ (Marked(x) => PlayerInv(r))
<1>1. PICK a : a = CloseCurrent(x)
  OBVIOUS
<1>2. PICK b : b = [a EXCEPT !.waiting = FALSE]
  OBVIOUS
<1>3. PICK c : c = CancelPreload(b)
  OBVIOUS
<1>4. r = WithEngine(c, StoppedEngine)
  BY <1>1, <1>2, <1>3 DEF StopAll
<1>5. Midway(a) /\ ~ HasTrack(a) /\ a.q = x.q /\ a.shut = x.shut
  BY <1>1, CloseCurrentIs
<1>6. Midway(b) /\ ~ HasTrack(b) /\ b.q = x.q /\ b.shut = x.shut
  BY <1>2, <1>5, CountersAlike, AlikeKeeps, SomeFields DEF PlayerFields
<1>7. Midway(c) /\ ~ HasTrack(c) /\ ~ HasPreload(c) /\ c.q = x.q /\ c.shut = x.shut
  BY <1>3, <1>6, CancelPreloadIs DEF OnlyPreload, HasTrack
<1>8. /\ Midway(r) /\ r.engine = StoppedEngine /\ r.q = x.q /\ r.shut = x.shut
      /\ r.current = c.current /\ r.preload = c.preload
  BY <1>4, <1>7, StoppedEngineIs, WithEngineIs
<1>9. ~ HasTrack(r) /\ ~ HasPreload(r) /\ r.engine.current = 0
  BY <1>7, <1>8, StoppedEngineIs DEF HasTrack, HasPreload
<1>10. Marked(x) => Marked(r)
  BY <1>8 DEF Marked
<1> QED BY <1>8, <1>9, <1>10, SilentInv

-----------------------------------------------------------------------------
(* The current track *)

\* The event Started goes out once, and the next track may be preloaded.
LEMMA StartCurrentIs ==
  ASSUME NEW x, Core(x), ~ HasPreload(x), HasTrack(x), ~ x.current.started,
         NEW r, r = StartCurrent(x)
  PROVE  Upright(r) /\ (CanEnd(x) => CanEnd(r))
<1>0. Midway(x) /\ Sounds(x) /\ Marked(x)
  BY DEF Core
<1>1. PICK s : s = (x.seeded \/ (HasCurrent(x.q) /\ Current(x.q).part # "Continuation"))
  OBVIOUS
<1>2. PICK y : y = [x EXCEPT !.current.started = TRUE, !.open = Append(@, x.current.track),
                             !.seeded = s]
  OBVIOUS
<1>3. PICK z : z = IF Giver(y) = "history" THEN MaybeLoadMore(y) ELSE y
  OBVIOUS
<1>4. r = MaybePreload(z)
  BY <1>1, <1>2, <1>3 DEF StartCurrent
<1>5. CurrentFields \subseteq DOMAIN x.current
  BY <1>0 DEF Midway, PartsOk, CurrentOk
<1>6. /\ PlayerFields \subseteq DOMAIN y /\ y.q = x.q /\ y.engine = x.engine
      /\ y.preload = x.preload /\ y.more = x.more /\ y.opening = x.opening /\ y.retry = x.retry
      /\ y.online = x.online /\ y.shut = x.shut /\ y.open = Append(x.open, x.current.track)
  BY <1>0, <1>2, SomeFields DEF PlayerFields
<1>7. y.current = [x.current EXCEPT !.started = TRUE]
  BY <1>0, <1>2, SomeFields DEF PlayerFields
<1>8. /\ CurrentFields \subseteq DOMAIN y.current /\ y.current.started = TRUE
      /\ y.current.track = x.current.track /\ y.current.waits = x.current.waits
      /\ y.current.feed = x.current.feed
  BY <1>5, <1>7 DEF CurrentFields
<1>9. HasTrack(y) /\ ~ HasPreload(y) /\ y.current.track # NoTrack
  BY <1>6, <1>8 DEF HasTrack, HasPreload
<1>10. x.open = <<>>
  BY <1>0 DEF Midway, Joints
<1>11. y.open = <<y.current.track>>
  BY <1>6, <1>8, <1>10, OneOpen
<1>12. CurrentOk(y.current)
  BY <1>0, <1>8, <1>9 DEF Midway, PartsOk, CurrentOk
<1>13. PartsOk(y) /\ QueueFine(y.q)
  BY <1>0, <1>6, <1>12 DEF Midway, PartsOk
<1>14. Joints(y)
  BY <1>0, <1>6, <1>8, <1>9, <1>11 DEF Midway, Joints, HasTrack, HasPreload
<1>15. Midway(y) /\ Sounds(y) /\ Marked(y) /\ (CanEnd(x) => CanEnd(y))
  BY <1>0, <1>6, <1>8, <1>9, <1>13, <1>14 DEF Midway, Sounds, IsMarked, Marked, HasTrack, CanEnd
<1>16. Behind(y) /\ NextLoads(y)
  BY <1>9, NothingBehind
<1>17. Alike(y, z)
  BY <1>3, <1>15, MaybeLoadMoreIs, AlikeSelf
<1>18. Core(z) /\ Behind(z) /\ NextLoads(z) /\ (CanEnd(x) => CanEnd(z))
  BY <1>15, <1>16, <1>17, AlikeKeeps DEF Core
<1> QED BY <1>4, <1>18, MaybePreloadKeeps

\* What the engine plays already, or plays on into, becomes the current track.
LEMMA PreloadIsCurrentIs ==
  ASSUME NEW x, Midway(x), Marked(x), ~ HasTrack(x), ~ x.shut, HasCurrent(x.q),
         x.engine.queued = 0, x.engine.current # 0,
         x.engine.current = x.preload.feed.stream,
         NEW r, r = PreloadIsCurrent(x)
  PROVE  PlayerInv(r)
<1>1. PICK c : c = TheCurrent(x, x.preload.feed)
  OBVIOUS
<1>2. PICK y : y = [x EXCEPT !.preload = NoPreload, !.opening = FALSE, !.waiting = FALSE,
                             !.current = c]
  OBVIOUS
<1>3. PICK z : z = MaybeLoadMore(y)
  OBVIOUS
<1>4. r = StartCurrent(z)
  BY <1>1, <1>2, <1>3 DEF PreloadIsCurrent
<1>5. /\ c.track = Current(x.q).track /\ c.feed = x.preload.feed /\ c.started = FALSE
      /\ c.waits = FALSE /\ CurrentFields \subseteq DOMAIN c
  BY <1>1, IdleIs DEF TheCurrent, CurrentFields
<1>6. c.track \in Tracks /\ c.track # NoTrack
  <2>1. QueueOk(x.q) /\ x.q.playing \in Rows(x.q)
    BY DEF Midway, QueueFine, HasCurrent
  <2> QED BY <1>5, <2>1, TrackIsSome DEF TrackAt, Current
<1>7. /\ PlayerFields \subseteq DOMAIN y /\ y.q = x.q /\ y.engine = x.engine /\ y.current = c
      /\ y.preload = NoPreload /\ y.more = x.more /\ y.opening = FALSE /\ y.retry = x.retry
      /\ y.online = x.online /\ y.shut = x.shut /\ y.open = x.open
  BY <1>2, SomeFields DEF PlayerFields
<1>8. HasTrack(y) /\ ~ HasPreload(y)
  BY <1>6, <1>7, NoPreloadIs DEF HasTrack, HasPreload
<1>9. CurrentOk(c)
  BY <1>5, <1>6 DEF CurrentOk, Midway, PartsOk, PreloadOk
<1>10. PartsOk(y) /\ QueueFine(y.q)
  BY <1>7, <1>9, NoPreloadIs DEF Midway, PartsOk
<1>11. x.open = <<>>
  BY DEF Midway, Joints, PartsOk, CurrentOk, HasTrack
<1>12. Joints(y)
  BY <1>5, <1>7, <1>8, <1>11 DEF Joints
<1>13. Sounds(y) /\ Marked(y) /\ CanEnd(y)
  BY <1>5, <1>7, <1>8 DEF Sounds, IsMarked, Marked, CanEnd
<1>14. Midway(y)
  BY <1>10, <1>12 DEF Midway
<1>15. Alike(y, z)
  BY <1>3, <1>14, MaybeLoadMoreIs
<1>16. Core(z) /\ HasTrack(z) /\ ~ HasPreload(z) /\ CanEnd(z)
  BY <1>8, <1>13, <1>14, <1>15, AlikeKeeps DEF Core
<1>17. ~ z.current.started
  BY <1>5, <1>7, <1>15 DEF Alike, CurrentAlike
<1> QED BY <1>4, <1>16, <1>17, StartCurrentIs DEF PlayerInv

LEMMA BegunIs ==
  ASSUME NEW e, NEW s \in Nat \ {0}
  PROVE  EngineOk(Begun(e, s)) /\ Begun(e, s).current = s /\ Begun(e, s).queued = 0
BY DEF Begun, StoppedEngine, EngineOk, EngineFields

\* A source is asked to open the selected row's track.
LEMMA OpenOnIs ==
  ASSUME NEW x, Midway(x), Marked(x), ~ HasTrack(x), ~ HasPreload(x), ~ x.shut, HasCurrent(x.q),
         NEW stream \in Nat \ {0}, NEW r, r = OpenOn(x, stream)
  PROVE  PlayerInv(r)
<1>1. PICK f : f = [NoFeed EXCEPT !.stream = stream]
  OBVIOUS
<1>2. PICK c : c = TheCurrent(x, f)
  OBVIOUS
<1>3. PICK y : y = [x EXCEPT !.engine = Begun(@, stream), !.current = c]
  OBVIOUS
<1>4. PICK z : z = MaybeLoadMore(y)
  OBVIOUS
<1>5. r = [z EXCEPT !.opening = TRUE]
  BY <1>1, <1>2, <1>3, <1>4 DEF OpenOn, OpenCurrent
<1>6. /\ f.stream = stream /\ f.loading = FALSE /\ f.downloaded = FALSE
      /\ FeedFields \subseteq DOMAIN f
  BY <1>1 DEF NoFeed, FeedFields
<1>7. /\ c.track = Current(x.q).track /\ c.feed = f /\ c.started = FALSE
      /\ c.waits = FALSE /\ CurrentFields \subseteq DOMAIN c
  BY <1>2, IdleIs DEF TheCurrent, CurrentFields
<1>8. c.track \in Tracks /\ c.track # NoTrack
  <2>1. QueueOk(x.q) /\ x.q.playing \in Rows(x.q)
    BY DEF Midway, QueueFine, HasCurrent
  <2> QED BY <1>7, <2>1, TrackIsSome DEF TrackAt, Current
<1>9. /\ PlayerFields \subseteq DOMAIN y /\ y.q = x.q /\ y.engine = Begun(x.engine, stream)
      /\ y.current = c /\ y.preload = x.preload /\ y.more = x.more /\ y.opening = x.opening
      /\ y.retry = x.retry /\ y.online = x.online /\ y.shut = x.shut /\ y.open = x.open
  BY <1>3, SomeFields DEF PlayerFields
<1>10. EngineOk(y.engine) /\ y.engine.current = stream /\ y.engine.queued = 0
  BY <1>9, BegunIs
<1>11. HasTrack(y) /\ ~ HasPreload(y)
  BY <1>8, <1>9 DEF HasTrack, HasPreload
<1>12. CurrentOk(c)
  BY <1>6, <1>7, <1>8 DEF CurrentOk, FeedOk
<1>13. PartsOk(y) /\ QueueFine(y.q)
  BY <1>9, <1>10, <1>12 DEF Midway, PartsOk
<1>14. x.open = <<>>
  BY DEF Midway, Joints, PartsOk, CurrentOk, HasTrack
<1>15. Joints(y)
  BY <1>6, <1>7, <1>9, <1>10, <1>11, <1>14 DEF Joints
<1>16. Sounds(y) /\ Marked(y)
  BY <1>6, <1>7, <1>9, <1>10, <1>11 DEF Sounds, IsMarked, Marked
<1>17. Midway(y)
  BY <1>13, <1>15 DEF Midway
<1>18. Alike(y, z)
  BY <1>4, <1>17, MaybeLoadMoreIs
<1>19. Core(z) /\ HasTrack(z) /\ ~ HasPreload(z)
  BY <1>11, <1>16, <1>17, <1>18, AlikeKeeps DEF Core
<1>20. ~ z.current.waits /\ ~ z.current.feed.downloaded /\ ~ z.current.feed.loading
  BY <1>6, <1>7, <1>9, <1>18 DEF Alike, CurrentAlike, FeedAlike
<1>21. /\ PlayerFields \subseteq DOMAIN r /\ r.q = z.q /\ r.engine = z.engine
       /\ r.current = z.current /\ r.preload = z.preload /\ r.more = z.more /\ r.opening = TRUE
       /\ r.retry = z.retry /\ r.online = z.online /\ r.shut = z.shut /\ r.open = z.open
  BY <1>5, <1>19, SomeFields DEF PlayerFields, Core
<1>22. HasTrack(r) /\ ~ HasPreload(r)
  BY <1>19, <1>21 DEF HasTrack, HasPreload
<1>23. PartsOk(r) /\ QueueFine(r.q)
  BY <1>19, <1>21 DEF Core, Midway, PartsOk
<1>24. Joints(r)
  BY <1>19, <1>20, <1>21, <1>22 DEF Core, Midway, Joints
<1>25. Sounds(r) /\ Marked(r) /\ CanEnd(r)
  BY <1>19, <1>20, <1>21, <1>22 DEF Core, Sounds, IsMarked, Marked, CanEnd
<1>26. Behind(r) /\ NextLoads(r)
  BY <1>22, NothingBehind
<1> QED BY <1>23, <1>24, <1>25, <1>26 DEF PlayerInv, Upright, Core, Midway

\* There is always a stream id nothing holds.
LEMMA FreshStreamIs ==
  ASSUME NEW x
  PROVE  FreshStream(x) \in Nat \ {0}
<1>1. PICK a, b, c, d : /\ a = x.engine.current /\ b = x.engine.queued
                        /\ c = x.current.feed.stream /\ d = x.preload.feed.stream
  OBVIOUS
<1>2. PICK S : S = 1..5 \ {a, b, c, d}
  OBVIOUS
<1>3. FreshStream(x) = Least(S)
  BY <1>1, <1>2 DEF FreshStream
<1>4. \E n \in S : TRUE
  <2>1. \/ 1 \notin {a, b, c, d} \/ 2 \notin {a, b, c, d} \/ 3 \notin {a, b, c, d}
        \/ 4 \notin {a, b, c, d} \/ 5 \notin {a, b, c, d}
    OBVIOUS
  <2> QED BY <1>2, <2>1
<1>5. S \subseteq Nat /\ S # {} /\ 0 \notin S
  BY <1>2, <1>4
<1>6. Least(S) \in S
  BY <1>5, LeastIs
<1> QED BY <1>3, <1>5, <1>6

-----------------------------------------------------------------------------
(* Going to a row *)

\* x is y with a row selected.
LEMMA SelectedIs ==
  ASSUME NEW x, Midway(x), NEW row \in Rows(x.q), NEW r, r = Selected(x, row)
  PROVE  /\ Midway(r) /\ Marked(r) /\ HasCurrent(r.q) /\ r.q.playing \in Rows(r.q)
         /\ Current(r.q).track = TrackAt(x.q, row)
         /\ r.engine = x.engine /\ r.current = x.current /\ r.preload = x.preload
         /\ r.shut = x.shut /\ HasTrack(r) = HasTrack(x) /\ HasPreload(r) = HasPreload(x)
<1>1. PICK q : q = Select(x.q, row)
  OBVIOUS
<1>2. QueueOk(x.q)
  BY DEF Midway, QueueFine
<1>3. /\ QueueOk(q) /\ HasCurrent(q) /\ Current(q).track = x.q.entries[row].track
      /\ Together(q) /\ MarkAgrees(q)
  BY <1>1, <1>2, SelectIs, MarkSelected
<1>4. r = WithQueue(x, q)
  BY <1>1 DEF Selected
<1>5. /\ Midway(r) /\ r.engine = x.engine /\ r.current = x.current /\ r.preload = x.preload
      /\ r.shut = x.shut
  BY <1>3, <1>4, WithQueueIs
<1>6. HasCurrent(r.q)
  BY <1>3, <1>4, WithQueueIs
<1>8. HasCurrent(q) => Current(r.q) = Current(q)
  BY <1>3, <1>4, WithQueueIs
<1>7. MarkAgrees(q) => MarkAgrees(r.q)
  BY <1>3, <1>4, WithQueueIs
<1> QED BY <1>3, <1>5, <1>6, <1>7, <1>8 DEF Marked, TrackAt, HasTrack, HasPreload, HasCurrent

\* It adopts the preload the engine plays or goes on into.
LEMMA AdoptPreloadIs ==
  ASSUME NEW x, Midway(x), ~ HasTrack(x), ~ x.shut, NEW row \in Rows(x.q),
         x.engine.queued = 0, x.engine.current # 0, x.engine.current = x.preload.feed.stream,
         NEW r, r = AdoptPreload(x, row)
  PROVE  PlayerInv(r)
<1>1. PICK y : y = Selected(x, row)
  OBVIOUS
<1>2. /\ Midway(y) /\ Marked(y) /\ HasCurrent(y.q) /\ y.engine = x.engine
      /\ y.preload = x.preload /\ y.shut = x.shut /\ ~ HasTrack(y)
  BY <1>1, SelectedIs
<1>3. r = PreloadIsCurrent(y)
  BY <1>1 DEF AdoptPreload
<1> QED BY <1>2, <1>3, PreloadIsCurrentIs

LEMMA QueuedPlaysNowIs ==
  ASSUME NEW e, EngineOk(e), NEW f, f = QueuedPlaysNow(e)
  PROVE  EngineOk(f) /\ f.current = e.queued /\ f.queued = 0
<1>1. /\ EngineFields \subseteq DOMAIN f /\ f.current = e.queued /\ f.queued = 0
      /\ f.state = "Buffering" /\ f.full = e.full \cap {e.queued}
  BY DEF QueuedPlaysNow, Begun, StoppedEngine, EngineFields
<1> QED BY <1>1 DEF EngineOk

LEMMA PlaySelectedIs ==
  ASSUME NEW x, Midway(x), Marked(x), ~ HasTrack(x), ~ x.shut, HasCurrent(x.q),
         NEW r, r = PlaySelected(x)
  PROVE  PlayerInv(r)
<1>1. EngineOk(x.engine) /\ x.q.playing \in Rows(x.q)
  BY DEF Midway, PartsOk, HasCurrent
<1>2. CASE PreloadReady(x)
  <2>1. PICK e : e = QueuedPlaysNow(x.engine)
    OBVIOUS
  <2>2. PICK y : y = WithEngine(x, e)
    OBVIOUS
  <2>3. r = AdoptPreload(y, x.q.playing)
    BY <1>2, <2>1, <2>2 DEF PlaySelected
  <2>4. EngineOk(e) /\ e.current = x.engine.queued /\ e.queued = 0
    BY <1>1, <2>1, QueuedPlaysNowIs
  <2>5. /\ Midway(y) /\ y.engine = e /\ y.q = x.q /\ y.current = x.current
        /\ y.preload = x.preload /\ y.shut = x.shut
    BY <2>2, <2>4, WithEngineIs
  <2>6. /\ ~ HasTrack(y) /\ ~ y.shut /\ x.q.playing \in Rows(y.q) /\ y.engine.queued = 0
        /\ y.engine.current # 0 /\ y.engine.current = y.preload.feed.stream
    BY <1>1, <1>2, <2>4, <2>5 DEF PreloadReady, HasTrack
  <2> QED BY <2>3, <2>5, <2>6, AdoptPreloadIs
<1>3. CASE ~ PreloadReady(x)
  <2>1. PICK y : y = CancelPreload(x)
    OBVIOUS
  <2>2. PICK stream : stream = FreshStream(y)
    OBVIOUS
  <2>3. r = OpenOn(y, stream)
    BY <1>3, <2>1, <2>2 DEF PlaySelected, OpenFresh
  <2>4. stream \in Nat \ {0}
    BY <2>2, FreshStreamIs
  <2>5. Midway(y) /\ OnlyPreload(x, y) /\ ~ HasPreload(y)
    BY <2>1, CancelPreloadIs
  <2>6. Marked(y) /\ ~ HasTrack(y) /\ ~ y.shut /\ HasCurrent(y.q)
    BY <2>5 DEF OnlyPreload, Marked, HasTrack
  <2> QED BY <2>3, <2>4, <2>5, <2>6, OpenOnIs
<1> QED BY <1>2, <1>3

\* playIndex()
LEMMA PlayRowIs ==
  ASSUME NEW x, Midway(x), NEW row, NEW r, r = PlayRow(x, row)
  PROVE  /\ row \in Rows(x.q) => PlayerInv(r)
         /\ PlayerInv(x) => PlayerInv(r)
<1>1. CASE x.shut
  <2>1. r = x
    BY <1>1 DEF PlayRow
  <2> QED BY <1>1, <2>1, ShutInv
<1>2. CASE row \notin Rows(x.q)
  BY <1>2 DEF PlayRow
<1>3. CASE ~ x.shut /\ row \in Rows(x.q)
  <2>1. PICK a : a = [x EXCEPT !.waiting = FALSE]
    OBVIOUS
  <2>2. PICK b : b = CloseCurrent(a)
    OBVIOUS
  <2>3. PICK c : c = Selected(b, row)
    OBVIOUS
  <2>4. r = PlaySelected(c)
    BY <1>3, <2>1, <2>2, <2>3 DEF PlayRow
  <2>5. Midway(a) /\ a.q = x.q /\ a.shut = x.shut
    BY <2>1, CountersAlike, AlikeKeeps, SomeFields DEF PlayerFields
  <2>6. Midway(b) /\ ~ HasTrack(b) /\ b.q = x.q /\ b.shut = x.shut
    BY <2>2, <2>5, CloseCurrentIs
  <2>7. Midway(c) /\ Marked(c) /\ ~ HasTrack(c) /\ ~ c.shut /\ HasCurrent(c.q)
    BY <1>3, <2>3, <2>6, SelectedIs
  <2> QED BY <2>4, <2>7, PlaySelectedIs
<1> QED BY <1>1, <1>2, <1>3

\* A preload's row is one of the queue's.
RowThere(x) == HasPreload(x) => x.preload.row \in Rows(x.q)

LEMMA RowIsThere ==
  ASSUME NEW x, Upright(x)
  PROVE  RowThere(x) /\ Midway(x)
BY NextIsRow DEF Upright, Core, Midway, QueueFine, NextLoads, RowThere

\* advance()
LEMMA GoOnIs ==
  ASSUME NEW x, Midway(x), Marked(x), RowThere(x), x.q.entries = <<>> => PlayerInv(x),
         NEW byUser, NEW r, r = GoOn(x, byUser)
  PROVE  PlayerInv(r)
<1>1. CASE x.q.entries = <<>>
  BY <1>1 DEF GoOn
<1>2. CASE x.q.entries # <<>> /\ (HasPreload(x) \/ NextRow(x.q) > 0)
  <2>1. FollowingRow(x) \in Rows(x.q)
    BY <1>2, NextIsRow DEF FollowingRow, RowThere, Midway, QueueFine
  <2>2. r = PlayRow(x, FollowingRow(x))
    BY <1>2 DEF GoOn
  <2> QED BY <2>1, <2>2, PlayRowIs
<1>3. CASE x.q.entries # <<>> /\ ~ (HasPreload(x) \/ NextRow(x.q) > 0)
  <2>1. PICK s : s = StopAll(x)
    OBVIOUS
  <2>2. PlayerInv(s)
    BY <2>1, StopAllIs
  <2>3. CASE Giver(x) = "none"
    BY <1>3, <2>1, <2>2, <2>3 DEF GoOn
  <2>4. CASE Giver(x) # "none"
    <3>1. PICK q : q = [s.q EXCEPT !.stalled = @ /\ ~ byUser]
      OBVIOUS
    <3>2. PICK a : a = [s EXCEPT !.waiting = TRUE, !.q = q]
      OBVIOUS
    <3>3. PICK b : b = MaybeLoadMore(a)
      OBVIOUS
    <3>4. Midway(s)
      BY <2>2 DEF PlayerInv, Upright, Core
    <3>5. a = [s EXCEPT !.waiting = TRUE, !.q.stalled = @ /\ ~ byUser]
      BY <3>1, <3>2, <3>4, SomeFields DEF PlayerFields
    <3>6. r = [b EXCEPT !.waiting = b.q.asking]
      BY <1>3, <2>1, <2>4, <3>3, <3>5 DEF GoOn, WaitForMore, WaitIfAsked
    <3>7. QueueAlike(s.q, q)
      BY <3>1, <3>4 DEF Midway, QueueFine, QueueAlike, SameRows, NextAlike, QueueOk, QueueFields
    <3>8. /\ PlayerFields \subseteq DOMAIN a /\ a.q = q /\ a.more = s.more
          /\ a.engine = s.engine /\ a.current = s.current /\ a.preload = s.preload
          /\ a.opening = s.opening /\ a.retry = s.retry /\ a.online = s.online
          /\ a.shut = s.shut /\ a.open = s.open
      BY <3>2, <3>4, SomeFields DEF PlayerFields
    <3>9. Alike(s, a)
      BY <3>4, <3>7, <3>8, AlikeSelf, SomeFields DEF Alike
    <3>10. PlayerInv(a) /\ Midway(a)
      BY <2>2, <3>9, AlikeInv DEF PlayerInv, Upright, Core
    <3>11. PlayerInv(b) /\ Midway(b)
      BY <3>3, <3>10, AlikeInv, MaybeLoadMoreIs DEF PlayerInv, Upright, Core
    <3> QED BY <3>6, <3>11, AlikeInv, CountersAlike
  <2> QED BY <2>3, <2>4
<1> QED BY <1>1, <1>2, <1>3

-----------------------------------------------------------------------------
(* Failures *)

\* pause() of a new stream.
LEMMA PausedIs ==
  ASSUME NEW e, EngineOk(e), NEW f, f = PausedEngine(e)
  PROVE  EngineOk(f) /\ f.current = e.current /\ f.queued = e.queued
<1>1. /\ EngineFields \subseteq DOMAIN f /\ f.current = e.current /\ f.queued = e.queued
      /\ f.full = e.full
      /\ f.state = IF e.state \in {"Playing", "Buffering"} THEN "Paused" ELSE e.state
  BY DEF PausedEngine, EngineOk, EngineFields
<1> QED BY <1>1 DEF EngineOk

\* A track that is parked is not opened or loaded, and has a stream of its own.
LEMMA ParkedOnIs ==
  ASSUME NEW x, Midway(x), Marked(x), HasTrack(x), IsMarked(x), ~ HasPreload(x), ~ x.opening,
         NEW stream \in Nat \ {0}, NEW r, r = [ParkedOn(x, stream) EXCEPT !.retry = x.online # "no"]
  PROVE  PlayerInv(r)
<1>1. PICK f : f = [NoFeed EXCEPT !.stream = stream]
  OBVIOUS
<1>2. PICK e : e = PausedEngine(Begun(x.engine, stream))
  OBVIOUS
<1>3. PICK y : y = ParkedOn(x, stream)
  OBVIOUS
<1>4. /\ CurrentFields \subseteq DOMAIN x.current /\ PlayerFields \subseteq DOMAIN x
  BY DEF Midway, PartsOk, CurrentOk
<1>5. /\ PlayerFields \subseteq DOMAIN y /\ y.q = x.q /\ y.engine = e /\ y.preload = x.preload
      /\ y.more = x.more /\ y.opening = x.opening
      /\ y.online = x.online /\ y.shut = x.shut /\ y.open = x.open
  BY <1>2, <1>3, <1>4 DEF ParkedOn, PlayerFields
<1>6. /\ CurrentFields \subseteq DOMAIN y.current /\ y.current.feed = f
      /\ y.current.waits = TRUE /\ y.current.track = x.current.track
      /\ y.current.started = x.current.started
  BY <1>1, <1>3, <1>4 DEF ParkedOn, PlayerFields, CurrentFields
<1>7. /\ PlayerFields \subseteq DOMAIN r /\ r.q = y.q /\ r.engine = y.engine
      /\ r.preload = y.preload /\ r.current = y.current
      /\ r.more = y.more /\ r.opening = y.opening /\ r.retry = (x.online # "no")
      /\ r.online = y.online /\ r.shut = y.shut /\ r.open = y.open
  BY <1>3, <1>5 DEF PlayerFields
<1>8. /\ f.stream = stream /\ f.loading = FALSE /\ f.downloaded = FALSE
      /\ FeedFields \subseteq DOMAIN f
  BY <1>1 DEF NoFeed, FeedFields
<1>9. HasTrack(r) /\ ~ HasPreload(r) /\ IsMarked(r) /\ r.current.track # NoTrack
  BY <1>5, <1>6, <1>7 DEF HasTrack, HasPreload, IsMarked
<1>10. EngineOk(e) /\ e.current = stream /\ e.queued = 0
  BY <1>2, BegunIs, PausedIs
<1>11. CurrentOk(r.current)
  BY <1>6, <1>7, <1>8, <1>9 DEF CurrentOk, FeedOk
<1>12. PartsOk(r) /\ QueueFine(r.q)
  BY <1>5, <1>7, <1>10, <1>11 DEF Midway, PartsOk
<1>13. ~ x.shut
  BY DEF Midway, Joints
<1>14. Joints(r)
  BY <1>5, <1>6, <1>7, <1>8, <1>9, <1>10, <1>13 DEF Midway, Joints
<1>15. Sounds(r) /\ Marked(r)
  BY <1>5, <1>6, <1>7, <1>8, <1>9, <1>10 DEF Sounds, Marked
<1>16. CanEnd(r)
  <2>1. r.retry \/ r.online = "no"
    BY <1>5, <1>7
  <2> QED BY <2>1 DEF CanEnd
<1>17. Behind(r) /\ NextLoads(r)
  BY <1>9, NothingBehind
<1> QED BY <1>12, <1>14, <1>15, <1>16, <1>17 DEF PlayerInv, Upright, Core, Midway

\* waitForNetwork()
LEMMA WaitForNetworkIs ==
  ASSUME NEW x, Midway(x), Marked(x), IsMarked(x), NEW r, r = WaitForNetwork(x)
  PROVE  PlayerInv(r)
<1>1. CASE ~ HasTrack(x)
  BY <1>1, StopAllIs DEF WaitForNetwork
<1>2. CASE HasTrack(x)
  <2>1. PICK a : a = [x EXCEPT !.opening = FALSE]
    OBVIOUS
  <2>2. PICK b : b = CancelPreload(a)
    OBVIOUS
  <2>3. PICK stream : stream = FreshStream(b)
    OBVIOUS
  <2>4. r = [ParkedOn(b, stream) EXCEPT !.retry = x.online # "no"]
    BY <1>2, <2>1, <2>2, <2>3 DEF WaitForNetwork, Parked
  <2>5. /\ PlayerFields \subseteq DOMAIN a /\ a.q = x.q /\ a.engine = x.engine
        /\ a.current = x.current /\ a.preload = x.preload /\ a.more = x.more
        /\ a.opening = FALSE /\ a.retry = x.retry /\ a.online = x.online /\ a.shut = x.shut
        /\ a.open = x.open
    BY <2>1, SomeFields DEF PlayerFields
  <2>6. HasTrack(a) /\ HasPreload(a) = HasPreload(x) /\ IsMarked(a) /\ Marked(a)
    BY <1>2, <2>5 DEF HasTrack, HasPreload, IsMarked, Marked
  <2>7. Midway(a)
    <3>1. PartsOk(a) /\ QueueFine(a.q)
      BY <2>5 DEF Midway, PartsOk
    <3>2. Joints(a)
      BY <2>5, <2>6 DEF Midway, Joints, HasTrack, HasPreload
    <3> QED BY <3>1, <3>2 DEF Midway
  <2>8. Midway(b) /\ OnlyPreload(a, b) /\ ~ HasPreload(b)
    BY <2>2, <2>7, CancelPreloadIs
  <2>9. HasTrack(b) /\ IsMarked(b) /\ Marked(b)
    BY <2>6, <2>7, <2>8, OnlyPreloadKeeps
  <2>10. ~ b.opening /\ b.online = x.online
    BY <2>5, <2>8 DEF OnlyPreload
  <2>11. stream \in Nat \ {0}
    BY <2>3, FreshStreamIs
  <2> QED BY <2>4, <2>8, <2>9, <2>10, <2>11, ParkedOnIs
<1> QED BY <1>1, <1>2

\* DecideOnFailure() decides, and its caller does it.
LEMMA HandleFailureIs ==
  ASSUME NEW x, Midway(x), Marked(x), IsMarked(x), RowThere(x),
         NEW kind \in Failing, NEW r, r = HandleFailure(x, kind)
  PROVE  PlayerInv(r)
<1>1. PICK d : d = Decide(x, kind)
  OBVIOUS
<1>2. d \in {"WaitForNetwork", "Stop", "StopAfterLimit", "Next"}
  <2>1. CASE kind = "Network"
    BY <1>1, <2>1 DEF Decide
  <2>2. CASE kind = "Auth"
    BY <1>1, <2>2 DEF Decide
  <2>3. CASE kind = "Track"
    <3>1. d = IF x.failures + 1 >= 3 THEN "StopAfterLimit"
              ELSE IF NextRow(x.q) > 0 \/ Giver(x) # "none" THEN "Next" ELSE "Stop"
      BY <1>1, <2>3 DEF Decide
    <3> QED BY <3>1
  <2> QED BY <2>1, <2>2, <2>3 DEF Failing
<1>3. r = FailureHandled(x, kind, d)
  BY <1>1 DEF HandleFailure
<1>4. ASSUME NEW n  PROVE /\ Midway([x EXCEPT !.failures = n]) /\ Marked([x EXCEPT !.failures = n])
                          /\ [x EXCEPT !.failures = n].q = x.q
                          /\ [x EXCEPT !.failures = n].preload = x.preload
  <2>1. PICK y : y = [x EXCEPT !.failures = n]
    OBVIOUS
  <2>2. Alike(x, y)
    BY <2>1, CountersAlike
  <2>3. Midway(y) /\ Marked(y)
    BY <2>2, AlikeKeeps
  <2>4. y.q = x.q /\ y.preload = x.preload
    BY <2>1, SomeFields DEF PlayerFields
  <2> QED BY <2>1, <2>3, <2>4
<1>5. CASE d = "WaitForNetwork"
  <2>1. r = WaitForNetwork(x)
    BY <1>3, <1>5 DEF FailureHandled
  <2> QED BY <2>1, WaitForNetworkIs
<1>6. CASE d = "Stop"
  <2>1. PICK n : n = IF kind = "Auth" THEN x.failures ELSE x.failures + 1
    OBVIOUS
  <2>2. r = StopAll([x EXCEPT !.failures = n])
    BY <1>3, <1>6, <2>1 DEF FailureHandled
  <2> QED BY <1>4, <2>2, StopAllIs
<1>7. CASE d = "StopAfterLimit"
  <2>1. r = StopAll([x EXCEPT !.failures = 0])
    BY <1>3, <1>7 DEF FailureHandled
  <2> QED BY <1>4, <2>1, StopAllIs
<1>8. CASE d = "Next"
  <2>1. PICK n : n = x.failures + 1
    OBVIOUS
  <2>2. PICK y : y = [x EXCEPT !.failures = n]
    OBVIOUS
  <2>3. r = GoOn(y, FALSE)
    BY <1>3, <1>8, <2>1, <2>2 DEF FailureHandled
  <2>4. Midway(y) /\ Marked(y) /\ y.q = x.q /\ y.preload = x.preload
    BY <1>4, <2>2
  <2>5. RowThere(y)
    BY <2>4 DEF RowThere, HasPreload
  <2>6. y.q.entries # <<>>
    <3>1. QueueOk(x.q) /\ x.q.playing \in 1..Len(x.q.entries)
      BY DEF Midway, QueueFine, IsMarked, HasCurrent, Rows
    <3>2. Len(<<>>) = 0
      OBVIOUS
    <3> QED BY <3>1, <3>2, <2>4
  <2> QED BY <2>3, <2>4, <2>5, <2>6, GoOnIs
<1> QED BY <1>2, <1>5, <1>6, <1>7, <1>8

\* What a failure is handled from.
LEMMA FailingTrack ==
  ASSUME NEW x, Upright(x), HasTrack(x)
  PROVE  Midway(x) /\ Marked(x) /\ IsMarked(x) /\ RowThere(x) /\ ~ x.shut
BY RowIsThere DEF Upright, Core, Sounds, Midway, Joints

\* The track is opened again, unless it does not wait any more.
LEMMA RetryIs ==
  ASSUME NEW x, Upright(x), NEW r, r = RetryAfterNetwork(x)
  PROVE  PlayerInv(r)
<1>0. Midway(x) /\ Sounds(x) /\ Marked(x) /\ Behind(x) /\ NextLoads(x)
  BY DEF Upright, Core
<1>1. CASE HasTrack(x) /\ x.current.waits
  <2>1. r = [[x EXCEPT !.retry = FALSE] EXCEPT !.opening = TRUE]
    BY <1>1 DEF RetryAfterNetwork, OpenCurrent
  <2>2. /\ PlayerFields \subseteq DOMAIN r /\ r.q = x.q /\ r.engine = x.engine
        /\ r.current = x.current /\ r.preload = x.preload /\ r.more = x.more
        /\ r.opening = TRUE /\ r.online = x.online /\ r.shut = x.shut /\ r.open = x.open
    BY <1>0, <2>1, SomeFields DEF PlayerFields
  <2>3. HasTrack(r) /\ HasPreload(r) = HasPreload(x) /\ ~ HasPreload(x)
    BY <1>0, <1>1, <2>2 DEF HasTrack, HasPreload, Behind
  <2>4. PartsOk(r) /\ QueueFine(r.q)
    BY <1>0, <2>2 DEF Midway, PartsOk
  <2>5. Joints(r)
    BY <1>0, <1>1, <2>2, <2>3 DEF Midway, Joints, HasTrack, HasPreload
  <2>6. Sounds(r) /\ Marked(r)
    BY <1>0, <2>2 DEF Sounds, IsMarked, Marked, HasTrack
  <2>7. Behind(r) /\ NextLoads(r) /\ CanEnd(r)
    BY <2>2, <2>3, NothingBehind DEF CanEnd
  <2> QED BY <2>4, <2>5, <2>6, <2>7 DEF PlayerInv, Upright, Core, Midway
<1>2. CASE ~ (HasTrack(x) /\ x.current.waits)
  <2>1. r = x
    BY <1>2 DEF RetryAfterNetwork
  <2>2. CanEnd(x)
    BY <1>0, <1>2 DEF CanEnd, Midway, PartsOk, CurrentOk, HasTrack
  <2> QED BY <2>1, <2>2 DEF PlayerInv
<1> QED BY <1>1, <1>2

-----------------------------------------------------------------------------
(* Answers *)

LEMMA AttachedIs ==
  ASSUME NEW e, EngineOk(e), e.current # 0, NEW f, f = Attached(e)
  PROVE  EngineOk(f) /\ f.current = e.current /\ f.queued = e.queued
<1>1. /\ EngineFields \subseteq DOMAIN f /\ f.current = e.current /\ f.queued = e.queued
      /\ f.state = e.state /\ f.full = e.full \cup {e.current}
  BY DEF Attached, EngineOk, EngineFields
<1> QED BY <1>1 DEF EngineOk

LEMMA ResumedIs ==
  ASSUME NEW e, EngineOk(e), NEW audio, NEW f, f = Resumed(e, audio)
  PROVE  EngineOk(f) /\ f.current = e.current /\ f.queued = e.queued
<1>1. /\ EngineFields \subseteq DOMAIN f /\ f.current = e.current /\ f.queued = e.queued
      /\ f.full = e.full
      /\ f.state = IF e.state # "Paused" THEN e.state
                   ELSE IF audio THEN "Playing" ELSE "Buffering"
  BY DEF Resumed, EngineOk, EngineFields
<1>2. f.state \in {"Stopped", "Buffering", "Playing", "Paused"}
  BY <1>1 DEF EngineOk
<1> QED BY <1>1, <1>2 DEF EngineOk

\* A track that is opened is fed: as a file at once, or by a download.
LEMMA FedIs ==
  ASSUME NEW x, Core(x), HasTrack(x), ~ HasPreload(x), x.opening,
         NEW y, y = [x EXCEPT !.opening = FALSE, !.current.waits = FALSE, !.current.resume = FALSE],
         NEW answer, NEW r, r = Fed(y, answer)
  PROVE  Core(r) /\ HasTrack(r) /\ ~ HasPreload(r) /\ CanEnd(r)
<1>0. Midway(x) /\ Sounds(x) /\ Marked(x)
  BY DEF Core
<1>1. /\ CurrentFields \subseteq DOMAIN x.current /\ FeedFields \subseteq DOMAIN x.current.feed
      /\ x.current.feed.stream \in Nat
  BY <1>0 DEF Midway, PartsOk, CurrentOk, FeedOk
<1>2. /\ PlayerFields \subseteq DOMAIN y /\ y.q = x.q /\ y.engine = x.engine
      /\ y.preload = x.preload /\ y.more = x.more /\ y.opening = FALSE
      /\ y.online = x.online /\ y.shut = x.shut /\ y.open = x.open
  BY <1>0, SomeFields DEF PlayerFields
<1>3. /\ CurrentFields \subseteq DOMAIN y.current /\ y.current.track = x.current.track
      /\ y.current.started = x.current.started /\ y.current.feed = x.current.feed
      /\ y.current.waits = FALSE
  BY <1>0, <1>1, SomeFields DEF PlayerFields, CurrentFields
<1>4. ~ x.current.feed.downloaded /\ ~ x.current.feed.loading /\ ~ x.shut
  BY <1>0 DEF Midway, Joints
<1>5. x.current.feed.stream = x.engine.current /\ x.engine.current # 0 /\ IsMarked(x)
  BY <1>0 DEF Sounds
<1>6. PICK here : here = (y.current.feed.stream = y.engine.current /\ y.engine.queued = 0)
  OBVIOUS
<1>7. /\ PlayerFields \subseteq DOMAIN r /\ r.q = y.q /\ r.preload = y.preload
      /\ r.more = y.more /\ r.opening = y.opening /\ r.online = y.online /\ r.shut = y.shut
      /\ r.open = y.open
  BY <1>2 DEF Fed, PlayerFields
<1>8. r.engine = y.engine \/ r.engine = Attached(y.engine)
  BY <1>2 DEF Fed, PlayerFields
<1>9. /\ CurrentFields \subseteq DOMAIN r.current /\ r.current.track = y.current.track
      /\ r.current.started = y.current.started /\ r.current.waits = y.current.waits
      /\ FeedFields \subseteq DOMAIN r.current.feed
      /\ r.current.feed.stream = y.current.feed.stream
  BY <1>1, <1>2, <1>3 DEF Fed, PlayerFields, CurrentFields, FeedFields
<1>10. \/ r.current.feed.downloaded = TRUE /\ r.current.feed.loading = y.current.feed.loading
       \/ r.current.feed.loading = TRUE /\ r.current.feed.downloaded = y.current.feed.downloaded
  BY <1>1, <1>2, <1>3 DEF Fed, PlayerFields, CurrentFields, FeedFields
<1>11. EngineOk(r.engine) /\ r.engine.current = x.engine.current /\ r.engine.queued = x.engine.queued
  BY <1>0, <1>2, <1>5, <1>8, AttachedIs DEF Midway, PartsOk
<1>12. FeedOk(r.current.feed)
  BY <1>1, <1>3, <1>4, <1>5, <1>9, <1>10 DEF FeedOk
<1>13. HasTrack(r) /\ ~ HasPreload(r) /\ r.current.track # NoTrack /\ IsMarked(r)
  BY <1>2, <1>3, <1>5, <1>7, <1>9 DEF HasTrack, HasPreload, IsMarked
<1>14. CurrentOk(r.current)
  BY <1>9, <1>12, <1>13 DEF CurrentOk
<1>15. PartsOk(r) /\ QueueFine(r.q)
  BY <1>0, <1>2, <1>7, <1>11, <1>14 DEF Midway, PartsOk
<1>16. Joints(r)
  <2>1. ~ r.opening /\ ~ r.current.waits /\ ~ r.shut
    BY <1>2, <1>3, <1>4, <1>7, <1>9
  <2>2. r.engine.queued = 0
    BY <1>0, <1>11 DEF Midway, Joints
  <2>3. r.open = IF r.current.started THEN <<r.current.track>> ELSE <<>>
    BY <1>0, <1>2, <1>3, <1>7, <1>9 DEF Midway, Joints
  <2> QED BY <1>13, <2>1, <2>2, <2>3 DEF Joints
<1>17. Sounds(r) /\ Marked(r) /\ CanEnd(r)
  BY <1>0, <1>2, <1>3, <1>5, <1>7, <1>9, <1>11, <1>13 DEF Sounds, Marked, CanEnd
<1> QED BY <1>13, <1>15, <1>16, <1>17 DEF Core, Midway

LEMMA OpenAnsweredIs ==
  ASSUME NEW x, PlayerInv(x), x.opening, NEW answer, NEW audio,
         NEW r, r = OpenAnswered(x, answer, audio)
  PROVE  PlayerInv(r)
<1>0. Upright(x) /\ Core(x) /\ Midway(x) /\ HasTrack(x) /\ ~ HasPreload(x)
  BY DEF PlayerInv, Upright, Core, Midway, Joints, Behind
<1>1. CASE answer \in Failing
  <2>1. PICK y : y = [x EXCEPT !.opening = FALSE]
    OBVIOUS
  <2>2. r = HandleFailure(y, answer)
    BY <1>1, <2>1 DEF OpenAnswered
  <2>3. /\ PlayerFields \subseteq DOMAIN y /\ y.q = x.q /\ y.engine = x.engine
        /\ y.current = x.current /\ y.preload = x.preload /\ y.more = x.more
        /\ y.opening = FALSE /\ y.shut = x.shut /\ y.open = x.open
    BY <1>0, <2>1, SomeFields DEF PlayerFields
  <2>4. PartsOk(y) /\ QueueFine(y.q)
    BY <1>0, <2>3 DEF Midway, PartsOk
  <2>5. Joints(y)
    BY <1>0, <2>3 DEF Midway, Joints, HasTrack, HasPreload
  <2>6. Marked(y) /\ IsMarked(y) /\ RowThere(y)
    BY <1>0, <2>3, FailingTrack DEF Marked, IsMarked, RowThere, HasPreload
  <2> QED BY <1>1, <2>2, <2>4, <2>5, <2>6, HandleFailureIs DEF Midway
<1>2. CASE answer \notin Failing
  <2>1. PICK y : y = [x EXCEPT !.opening = FALSE, !.current.waits = FALSE,
                               !.current.resume = FALSE]
    OBVIOUS
  <2>2. PICK f : f = Fed(y, answer)
    OBVIOUS
  <2>3. PICK z : z = StartedOnce(f)
    OBVIOUS
  <2>4. r = z \/ r = WithEngine(z, Resumed(z.engine, audio))
    BY <1>2, <2>1, <2>2, <2>3 DEF OpenAnswered
  <2>5. Core(f) /\ HasTrack(f) /\ ~ HasPreload(f) /\ CanEnd(f)
    BY <1>0, <2>1, <2>2, FedIs
  <2>6. PlayerInv(z)
    <3>1. CASE f.current.started
      BY <2>3, <2>5, <3>1, NothingBehind DEF StartedOnce, PlayerInv, Upright
    <3>2. CASE ~ f.current.started
      BY <2>3, <2>5, <3>2, StartCurrentIs DEF StartedOnce, PlayerInv
    <3> QED BY <3>1, <3>2
  <2>7. CASE r = z
    BY <2>6, <2>7
  <2>8. CASE r = WithEngine(z, Resumed(z.engine, audio))
    <3>1. PICK e : e = Resumed(z.engine, audio)
      OBVIOUS
    <3>2. EngineOk(z.engine)
      BY <2>6 DEF PlayerInv, Upright, Core, Midway, PartsOk
    <3>3. EngineOk(e) /\ e.current = z.engine.current /\ e.queued = z.engine.queued
      BY <3>1, <3>2, ResumedIs
    <3> QED BY <2>6, <2>8, <3>1, <3>3, WithEngineKeeps
  <2> QED BY <2>4, <2>7, <2>8
<1> QED BY <1>1, <1>2

LEMMA WithQueuedIs ==
  ASSUME NEW e, EngineOk(e), NEW s \in Nat \ {0}, NEW file, NEW f, f = WithQueued(e, s, file)
  PROVE  EngineOk(f) /\ f.current = e.current /\ f.queued = s
<1>1. PICK g : g = QueueCleared(e)
  OBVIOUS
<1>2. EngineOk(g) /\ g.current = e.current /\ g.queued = 0
  BY <1>1, QueueClearedIs
<1>3. PICK more : more = IF file THEN {s} ELSE {}
  OBVIOUS
<1>4. f = [g EXCEPT !.queued = s, !.full = @ \cup more]
  BY <1>1, <1>3 DEF WithQueued
<1>5. /\ EngineFields \subseteq DOMAIN f /\ f.current = e.current /\ f.queued = s
      /\ f.state = g.state /\ f.full = g.full \cup more
  BY <1>2, <1>4 DEF EngineOk, EngineFields
<1>6. more \subseteq {s}
  BY <1>3
<1> QED BY <1>2, <1>5, <1>6 DEF EngineOk

\* A preload ends: nothing is queued for it any more.
LEMMA PreloadGone ==
  ASSUME NEW x, PlayerInv(x), x.preload.feed.stream = 0, NEW r, r = [x EXCEPT !.preload = NoPreload]
  PROVE  PlayerInv(r)
<1>0. Midway(x) /\ CanEnd(x) /\ Core(x)
  BY DEF PlayerInv, Upright, Core
<1>1. /\ PlayerFields \subseteq DOMAIN r /\ r.q = x.q /\ r.engine = x.engine
      /\ r.current = x.current /\ r.more = x.more /\ r.opening = x.opening /\ r.retry = x.retry
      /\ r.online = x.online /\ r.shut = x.shut /\ r.open = x.open /\ r.preload = NoPreload
  BY <1>0, SomeFields DEF PlayerFields
<1>2. ~ HasPreload(r) /\ HasTrack(r) = HasTrack(x)
  BY <1>1, NoPreloadIs DEF HasPreload, HasTrack
<1>3. OnlyPreload(x, r)
  BY <1>0, <1>1, SomeFields DEF OnlyPreload
<1>4. PartsOk(r) /\ QueueFine(r.q)
  BY <1>0, <1>1, NoPreloadIs DEF Midway, PartsOk
<1>5. Joints(r)
  BY <1>0, <1>1, <1>2 DEF Midway, Joints
<1> QED BY <1>0, <1>2, <1>3, <1>4, <1>5, OnlyPreloadKeeps, NothingBehind
        DEF PlayerInv, Upright, Midway

LEMMA OpenReplyKeeps ==
  ASSUME PlayerInv(p), OpenReply
  PROVE  PlayerInv(p')
BY OpenAnsweredIs DEF OpenReply

LEMMA InvIs ==
  ASSUME NEW x, PlayerInv(x)
  PROVE  /\ Upright(x) /\ Core(x) /\ Midway(x) /\ Sounds(x) /\ Marked(x) /\ Behind(x)
         /\ NextLoads(x) /\ CanEnd(x) /\ RowThere(x) /\ EngineOk(x.engine) /\ QueueOk(x.q)
         /\ Together(x.q) /\ PlayerFields \subseteq DOMAIN x
         /\ CurrentFields \subseteq DOMAIN x.current /\ PreloadFields \subseteq DOMAIN x.preload
         /\ FeedFields \subseteq DOMAIN x.current.feed
         /\ FeedFields \subseteq DOMAIN x.preload.feed
BY RowIsThere DEF PlayerInv, Upright, Core, Midway, PartsOk, CurrentOk, PreloadOk, FeedOk, QueueFine

\* The preload's source answers: its stream is queued behind the current one.
LEMMA PreloadReplyKeeps ==
  ASSUME PlayerInv(p), PreloadReply
  PROVE  PlayerInv(p')
<1>0. HasPreload(p) /\ p.preload.asked /\ p.preload.feed.stream = 0
  BY InvIs DEF PreloadReply, Midway, PartsOk, PreloadOk
<1>1. PICK stream : stream = FreshStream(p)
  OBVIOUS
<1>2. PICK answer :
        p' = IF answer \in Failing \/ p.engine.current = 0
               THEN [p EXCEPT !.preload = NoPreload]
               ELSE [p EXCEPT !.engine = WithQueued(@, stream, answer = "File"),
                              !.preload.asked = FALSE,
                              !.preload.feed = [NoFeed EXCEPT !.stream = stream,
                                                  !.loading = answer = "Download",
                                                  !.downloaded = answer = "File"]]
  BY <1>1 DEF PreloadReply
<1>3. CASE answer \in Failing \/ p.engine.current = 0
  <2>1. p' = [p EXCEPT !.preload = NoPreload]
    BY <1>2, <1>3
  <2> QED BY <1>0, <2>1, PreloadGone
<1>4. CASE ~ (answer \in Failing \/ p.engine.current = 0)
  <2>1. PICK f : f = [NoFeed EXCEPT !.stream = stream, !.loading = answer = "Download",
                                    !.downloaded = answer = "File"]
    OBVIOUS
  <2>2. PICK e : e = WithQueued(p.engine, stream, answer = "File")
    OBVIOUS
  <2>3. PICK r : r = p'
    OBVIOUS
  <2>4. r = [p EXCEPT !.engine = e, !.preload.asked = FALSE, !.preload.feed = f]
    BY <1>2, <1>4, <2>1, <2>2, <2>3, InvIs DEF PlayerFields
  <2>5. stream \in Nat \ {0}
    BY <1>1, FreshStreamIs
  <2>6. /\ FeedFields \subseteq DOMAIN f /\ f.stream = stream
        /\ f.loading = (answer = "Download") /\ f.downloaded = (answer = "File")
    BY <2>1 DEF NoFeed, FeedFields
  <2>7. FeedOk(f)
    BY <2>5, <2>6 DEF FeedOk
  <2>8. /\ PlayerFields \subseteq DOMAIN r /\ r.q = p.q /\ r.engine = e /\ r.current = p.current
        /\ r.more = p.more /\ r.opening = p.opening /\ r.retry = p.retry /\ r.online = p.online
        /\ r.shut = p.shut /\ r.open = p.open
    BY <2>4, InvIs DEF PlayerFields
  <2>9. /\ PreloadFields \subseteq DOMAIN r.preload /\ r.preload.row = p.preload.row
        /\ r.preload.track = p.preload.track /\ r.preload.asked = FALSE /\ r.preload.feed = f
    BY <2>4, InvIs DEF PlayerFields, PreloadFields
  <2>10. EngineOk(e) /\ e.current = p.engine.current /\ e.queued = stream
    BY <2>2, <2>5, InvIs, WithQueuedIs
  <2>11. HasPreload(r) /\ HasTrack(r) = HasTrack(p)
    BY <1>0, <2>8, <2>9 DEF HasPreload, HasTrack
  <2>12. PreloadOk(r.preload)
    BY <2>7, <2>9, <2>11 DEF PreloadOk, HasPreload
  <2>13. PartsOk(r) /\ QueueFine(r.q)
    BY <2>8, <2>10, <2>12, InvIs DEF Midway, PartsOk
  <2>14. ~ p.shut
    BY <1>0, InvIs DEF Midway, Joints
  <2>15. Joints(r)
    BY <2>6, <2>8, <2>9, <2>10, <2>11, <2>14, InvIs DEF Midway, Joints
  <2>16. Sounds(r) /\ Marked(r) /\ CanEnd(r)
    BY <2>8, <2>10, <2>11, InvIs DEF Sounds, IsMarked, Marked, CanEnd
  <2>17. Behind(r) /\ NextLoads(r)
    BY <1>0, <2>8, <2>9, <2>11, InvIs DEF Behind, NextLoads
  <2> QED BY <2>3, <2>13, <2>15, <2>16, <2>17 DEF PlayerInv, Upright, Core, Midway
<1> QED BY <1>3, <1>4

\* A download's first bytes are not read.
LEMMA ReceivedKeeps ==
  ASSUME PlayerInv(p), Received
  PROVE  PlayerInv(p')
<1>0. PICK r : r = p'
  OBVIOUS
<1>1. CASE r = [p EXCEPT !.current.feed.arrived = TRUE]
  <2>1. CurrentAlike(p.current, r.current)
    BY <1>1, InvIs DEF PlayerFields, CurrentFields, FeedFields, CurrentAlike, FeedAlike
  <2>2. /\ PlayerFields \subseteq DOMAIN r /\ r.q = p.q /\ r.engine = p.engine
        /\ r.preload = p.preload /\ r.more = p.more /\ r.opening = p.opening
        /\ r.retry = p.retry /\ r.online = p.online /\ r.shut = p.shut /\ r.open = p.open
    BY <1>1, InvIs DEF PlayerFields
  <2>3. Alike(p, r)
    BY <2>1, <2>2, InvIs, AlikeSelf, SomeFields DEF Alike
  <2> QED BY <1>0, <2>3, AlikeInv
<1>2. CASE r = [p EXCEPT !.preload.feed.arrived = TRUE]
  <2>1. PreloadAlike(p.preload, r.preload)
    BY <1>2, InvIs DEF PlayerFields, PreloadFields, FeedFields, PreloadAlike, FeedAlike
  <2>2. /\ PlayerFields \subseteq DOMAIN r /\ r.q = p.q /\ r.engine = p.engine
        /\ r.current = p.current /\ r.more = p.more /\ r.opening = p.opening
        /\ r.retry = p.retry /\ r.online = p.online /\ r.shut = p.shut /\ r.open = p.open
    BY <1>2, InvIs DEF PlayerFields
  <2>3. Alike(p, r)
    BY <2>1, <2>2, InvIs, AlikeSelf, SomeFields DEF Alike
  <2> QED BY <1>0, <2>3, AlikeInv
<1> QED BY <1>0, <1>1, <1>2 DEF Received

LEMMA DataEndedIs ==
  ASSUME NEW e, EngineOk(e), NEW s \in Nat \ {0}, NEW f, f = DataEnded(e, s)
  PROVE  EngineOk(f) /\ f.current = e.current /\ f.queued = e.queued
<1>1. /\ EngineFields \subseteq DOMAIN f /\ f.current = e.current /\ f.queued = e.queued
      /\ f.state = e.state /\ f.full = e.full \cup ({s} \cap {e.current, e.queued})
  BY DEF DataEnded, EngineOk, EngineFields
<1> QED BY <1>1 DEF EngineOk

\* The current track's download has ended, whether well or not.
LEMMA LoadedIs ==
  ASSUME NEW x, PlayerInv(x), x.current.feed.loading,
         NEW r, PlayerFields \subseteq DOMAIN r,
         r.q = x.q, r.engine = DataEnded(x.engine, x.current.feed.stream),
         r.preload = x.preload, r.more = x.more, r.opening = x.opening, r.retry = x.retry,
         r.online = x.online, r.shut = x.shut, r.open = x.open,
         CurrentFields \subseteq DOMAIN r.current, r.current.track = x.current.track,
         r.current.started = x.current.started, r.current.waits = x.current.waits,
         FeedFields \subseteq DOMAIN r.current.feed,
         r.current.feed.stream = x.current.feed.stream, r.current.feed.loading = FALSE
  PROVE  PlayerInv(r) /\ HasTrack(r)
<1>0. Midway(x) /\ Sounds(x) /\ Marked(x) /\ CanEnd(x) /\ EngineOk(x.engine)
  BY InvIs
<1>1. /\ x.current.feed.stream \in Nat \ {0} /\ ~ x.current.feed.downloaded
      /\ x.current.track # NoTrack
  BY <1>0 DEF Midway, PartsOk, CurrentOk, FeedOk
<1>2. HasTrack(x) /\ ~ HasPreload(x) /\ ~ x.opening /\ ~ x.current.waits
  BY <1>0, <1>1, InvIs DEF HasTrack, Behind, Midway, Joints
<1>3. HasTrack(r) /\ ~ HasPreload(r)
  BY <1>2 DEF HasTrack, HasPreload
<1>4. EngineOk(r.engine) /\ r.engine.current = x.engine.current /\ r.engine.queued = x.engine.queued
  BY <1>0, <1>1, DataEndedIs
<1>5. FeedOk(r.current.feed)
  <2>1. ~ r.current.feed.loading /\ r.current.feed.stream \in Nat
    BY <1>1
  <2> QED BY <2>1 DEF FeedOk
<1>6. CurrentOk(r.current)
  BY <1>1, <1>5 DEF CurrentOk
<1>7. PartsOk(r) /\ QueueFine(r.q)
  BY <1>0, <1>4, <1>6 DEF Midway, PartsOk
<1>8. ~ r.opening /\ ~ r.current.waits
  BY <1>2
<1>9. Joints(r)
  BY <1>0, <1>1, <1>3, <1>4, <1>8 DEF Midway, Joints, HasTrack, HasPreload
<1>10. Sounds(r) /\ Marked(r) /\ CanEnd(r)
  BY <1>0, <1>2, <1>3, <1>4, <1>8 DEF Sounds, IsMarked, Marked, CanEnd
<1>11. Behind(r) /\ NextLoads(r)
  BY <1>3, NothingBehind
<1> QED BY <1>3, <1>7, <1>9, <1>10, <1>11 DEF PlayerInv, Upright, Core, Midway

LEMMA CurrentDownloadedKeeps ==
  ASSUME PlayerInv(p), CurrentDownloaded
  PROVE  PlayerInv(p')
<1>0. p.current.feed.loading
  BY DEF CurrentDownloaded
<1>1. PICK x : x = [p EXCEPT !.engine = DataEnded(@, p.current.feed.stream),
                             !.current.feed.loading = FALSE]
  OBVIOUS
<1>2. \/ p' = MaybePreload([x EXCEPT !.current.feed.downloaded = TRUE])
      \/ \E kind \in Failing : p' = [x EXCEPT !.current.feed.failure = kind]
      \/ \E kind \in Failing : p' = HandleFailure(x, kind)
  BY <1>1 DEF CurrentDownloaded
<1>3. /\ PlayerFields \subseteq DOMAIN x /\ x.q = p.q
      /\ x.engine = DataEnded(p.engine, p.current.feed.stream)
      /\ x.preload = p.preload /\ x.more = p.more /\ x.opening = p.opening /\ x.retry = p.retry
      /\ x.online = p.online /\ x.shut = p.shut /\ x.open = p.open
  BY <1>1, InvIs DEF PlayerFields
<1>4. /\ CurrentFields \subseteq DOMAIN x.current /\ x.current.track = p.current.track
      /\ x.current.started = p.current.started /\ x.current.waits = p.current.waits
      /\ FeedFields \subseteq DOMAIN x.current.feed
      /\ x.current.feed.stream = p.current.feed.stream /\ x.current.feed.loading = FALSE
  BY <1>1, InvIs DEF PlayerFields, CurrentFields, FeedFields
<1>5. CASE p' = MaybePreload([x EXCEPT !.current.feed.downloaded = TRUE])
  <2>1. PICK y : y = [x EXCEPT !.current.feed.downloaded = TRUE]
    OBVIOUS
  <2>2. /\ PlayerFields \subseteq DOMAIN y /\ y.q = x.q /\ y.engine = x.engine
        /\ y.preload = x.preload /\ y.more = x.more /\ y.opening = x.opening
        /\ y.retry = x.retry /\ y.online = x.online /\ y.shut = x.shut /\ y.open = x.open
    BY <1>3, <2>1 DEF PlayerFields
  <2>3. /\ CurrentFields \subseteq DOMAIN y.current /\ y.current.track = x.current.track
        /\ y.current.started = x.current.started /\ y.current.waits = x.current.waits
        /\ FeedFields \subseteq DOMAIN y.current.feed
        /\ y.current.feed.stream = x.current.feed.stream /\ y.current.feed.loading = FALSE
    BY <1>3, <1>4, <2>1 DEF PlayerFields, CurrentFields, FeedFields
  <2>4. PlayerInv(y)
    <3>1. /\ PlayerFields \subseteq DOMAIN y /\ y.q = p.q
          /\ y.engine = DataEnded(p.engine, p.current.feed.stream)
          /\ y.preload = p.preload /\ y.more = p.more /\ y.opening = p.opening
          /\ y.retry = p.retry /\ y.online = p.online /\ y.shut = p.shut /\ y.open = p.open
      BY <1>3, <2>2
    <3>2. /\ CurrentFields \subseteq DOMAIN y.current /\ y.current.track = p.current.track
          /\ y.current.started = p.current.started /\ y.current.waits = p.current.waits
          /\ FeedFields \subseteq DOMAIN y.current.feed
          /\ y.current.feed.stream = p.current.feed.stream /\ y.current.feed.loading = FALSE
      BY <1>4, <2>3
    <3> QED BY <1>0, <3>1, <3>2, LoadedIs
  <2> QED BY <1>5, <2>1, <2>4, InvIs, MaybePreloadKeeps DEF PlayerInv
<1>6. CASE \E kind \in Failing : p' = [x EXCEPT !.current.feed.failure = kind]
  <2>1. PICK kind : p' = [x EXCEPT !.current.feed.failure = kind]
    BY <1>6
  <2>2. PICK y : y = [x EXCEPT !.current.feed.failure = kind]
    OBVIOUS
  <2>3. /\ PlayerFields \subseteq DOMAIN y /\ y.q = x.q /\ y.engine = x.engine
        /\ y.preload = x.preload /\ y.more = x.more /\ y.opening = x.opening
        /\ y.retry = x.retry /\ y.online = x.online /\ y.shut = x.shut /\ y.open = x.open
    BY <1>3, <2>2 DEF PlayerFields
  <2>4. /\ CurrentFields \subseteq DOMAIN y.current /\ y.current.track = x.current.track
        /\ y.current.started = x.current.started /\ y.current.waits = x.current.waits
        /\ FeedFields \subseteq DOMAIN y.current.feed
        /\ y.current.feed.stream = x.current.feed.stream /\ y.current.feed.loading = FALSE
    BY <1>3, <1>4, <2>2 DEF PlayerFields, CurrentFields, FeedFields
  <2>5. PlayerInv(y)
    <3>1. /\ PlayerFields \subseteq DOMAIN y /\ y.q = p.q
          /\ y.engine = DataEnded(p.engine, p.current.feed.stream)
          /\ y.preload = p.preload /\ y.more = p.more /\ y.opening = p.opening
          /\ y.retry = p.retry /\ y.online = p.online /\ y.shut = p.shut /\ y.open = p.open
      BY <1>3, <2>3
    <3>2. /\ CurrentFields \subseteq DOMAIN y.current /\ y.current.track = p.current.track
          /\ y.current.started = p.current.started /\ y.current.waits = p.current.waits
          /\ FeedFields \subseteq DOMAIN y.current.feed
          /\ y.current.feed.stream = p.current.feed.stream /\ y.current.feed.loading = FALSE
      BY <1>4, <2>4
    <3> QED BY <1>0, <3>1, <3>2, LoadedIs
  <2> QED BY <2>1, <2>2, <2>5
<1>7. CASE \E kind \in Failing : p' = HandleFailure(x, kind)
  <2>1. PlayerInv(x) /\ HasTrack(x)
    BY <1>0, <1>3, <1>4, LoadedIs
  <2>2. Midway(x) /\ Marked(x) /\ IsMarked(x) /\ RowThere(x)
    BY <2>1, FailingTrack, InvIs
  <2> QED BY <1>7, <2>2, HandleFailureIs
<1> QED BY <1>2, <1>5, <1>6, <1>7

LEMMA PreloadDownloadedKeeps ==
  ASSUME PlayerInv(p), PreloadDownloaded
  PROVE  PlayerInv(p')
<1>0. /\ p.preload.feed.loading /\ Midway(p) /\ Sounds(p) /\ Marked(p) /\ Behind(p)
      /\ NextLoads(p) /\ CanEnd(p) /\ EngineOk(p.engine)
  BY InvIs DEF PreloadDownloaded
<1>1. PICK x : x = [p EXCEPT !.engine = DataEnded(@, p.preload.feed.stream),
                             !.preload.feed.loading = FALSE]
  OBVIOUS
<1>2. p' = [x EXCEPT !.preload.feed.downloaded = TRUE] \/ p' = CancelPreload(x)
  BY <1>1 DEF PreloadDownloaded
<1>3. p.preload.feed.stream \in Nat \ {0} /\ ~ p.preload.asked
  BY <1>0 DEF Midway, PartsOk, PreloadOk, FeedOk
<1>4. ASSUME NEW r, PlayerFields \subseteq DOMAIN r,
             r.q = p.q, r.engine = DataEnded(p.engine, p.preload.feed.stream),
             r.current = p.current, r.more = p.more, r.opening = p.opening, r.retry = p.retry,
             r.online = p.online, r.shut = p.shut, r.open = p.open,
             PreloadFields \subseteq DOMAIN r.preload, r.preload.track = p.preload.track,
             r.preload.row = p.preload.row, r.preload.asked = p.preload.asked,
             FeedFields \subseteq DOMAIN r.preload.feed,
             r.preload.feed.stream = p.preload.feed.stream, r.preload.feed.loading = FALSE
      PROVE  PlayerInv(r)
  <2>1. EngineOk(r.engine) /\ r.engine.current = p.engine.current /\ r.engine.queued = p.engine.queued
    BY <1>0, <1>3, <1>4, DataEndedIs
  <2>2. HasTrack(r) = HasTrack(p) /\ HasPreload(r) = HasPreload(p)
    BY <1>4 DEF HasTrack, HasPreload
  <2>3. FeedOk(r.preload.feed)
    <3>1. ~ r.preload.feed.loading /\ r.preload.feed.stream \in Nat
      BY <1>3, <1>4
    <3> QED BY <1>4, <3>1 DEF FeedOk
  <2>4. PreloadOk(r.preload)
    BY <1>0, <1>4, <2>3 DEF Midway, PartsOk, PreloadOk
  <2>5. PartsOk(r) /\ QueueFine(r.q)
    BY <1>0, <1>4, <2>1, <2>4 DEF Midway, PartsOk
  <2>6. Joints(r)
    BY <1>0, <1>4, <2>1, <2>2 DEF Midway, Joints
  <2>7. Sounds(r) /\ Marked(r) /\ CanEnd(r)
    BY <1>0, <1>4, <2>1, <2>2 DEF Sounds, IsMarked, Marked, CanEnd
  <2>8. Behind(r) /\ NextLoads(r)
    BY <1>0, <1>4, <2>2 DEF Behind, NextLoads
  <2> QED BY <2>5, <2>6, <2>7, <2>8 DEF PlayerInv, Upright, Core, Midway
<1>5. /\ PlayerFields \subseteq DOMAIN x /\ x.q = p.q
      /\ x.engine = DataEnded(p.engine, p.preload.feed.stream)
      /\ x.current = p.current /\ x.more = p.more /\ x.opening = p.opening /\ x.retry = p.retry
      /\ x.online = p.online /\ x.shut = p.shut /\ x.open = p.open
  BY <1>1, InvIs DEF PlayerFields
<1>6. /\ PreloadFields \subseteq DOMAIN x.preload /\ x.preload.track = p.preload.track
      /\ x.preload.row = p.preload.row /\ x.preload.asked = p.preload.asked
      /\ FeedFields \subseteq DOMAIN x.preload.feed
      /\ x.preload.feed.stream = p.preload.feed.stream /\ x.preload.feed.loading = FALSE
  BY <1>1, InvIs DEF PlayerFields, PreloadFields, FeedFields
<1>7. CASE p' = [x EXCEPT !.preload.feed.downloaded = TRUE]
  <2>1. PICK y : y = [x EXCEPT !.preload.feed.downloaded = TRUE]
    OBVIOUS
  <2>2. /\ PlayerFields \subseteq DOMAIN y /\ y.q = p.q
        /\ y.engine = DataEnded(p.engine, p.preload.feed.stream)
        /\ y.current = p.current /\ y.more = p.more /\ y.opening = p.opening
        /\ y.retry = p.retry /\ y.online = p.online /\ y.shut = p.shut /\ y.open = p.open
    BY <1>5, <2>1 DEF PlayerFields
  <2>3. /\ PreloadFields \subseteq DOMAIN y.preload /\ y.preload.track = p.preload.track
        /\ y.preload.row = p.preload.row /\ y.preload.asked = p.preload.asked
        /\ FeedFields \subseteq DOMAIN y.preload.feed
        /\ y.preload.feed.stream = p.preload.feed.stream /\ y.preload.feed.loading = FALSE
    BY <1>5, <1>6, <2>1 DEF PlayerFields, PreloadFields, FeedFields
  <2>4. PlayerInv(y)
    BY <1>4, <2>2, <2>3
  <2> QED BY <1>7, <2>1, <2>4
<1>8. CASE p' = CancelPreload(x)
  <2>1. PICK y : y = CancelPreload(x)
    OBVIOUS
  <2>2. PlayerInv(x) /\ Core(x) /\ CanEnd(x) /\ Midway(x)
    BY <1>4, <1>5, <1>6, InvIs
  <2>3. Midway(y) /\ OnlyPreload(x, y) /\ ~ HasPreload(y)
    BY <2>1, <2>2, CancelPreloadIs
  <2>4. PlayerInv(y)
    BY <2>2, <2>3, OnlyPreloadKeeps, NothingBehind DEF PlayerInv, Upright
  <2> QED BY <1>8, <2>1, <2>4
<1> QED BY <1>2, <1>7, <1>8

LEMMA EditAlike ==
  ASSUME NEW q, QueueOk(q), NEW r, Edit(q, r), NEW s, QueueAlike(r, s)
  PROVE  Edit(q, s)
<1>1. QueueOk(r) /\ SameRows(r, s) /\ NextAlike(r, s) /\ Keeps(q, r) /\ Quiet(q, r)
  BY DEF Edit, Keeps, QueueAlike
<1>2. /\ QueueOk(s) /\ KeepsCurrent(r, s) /\ (Together(r) => Together(s))
      /\ (MarkAgrees(r) => MarkAgrees(s)) /\ s.changed = r.changed
  BY <1>1, SameRowsOk, MarkSame DEF SameRows
<1>3. KeepsCurrent(q, r) => KeepsCurrent(q, s)
  BY <1>2 DEF KeepsCurrent
<1>4. Keeps(q, s)
  BY <1>1, <1>2, <1>3 DEF Keeps
<1>5. Quiet(q, s)
  BY <1>1, <1>2 DEF Quiet, NextAlike
<1> QED BY <1>4, <1>5 DEF Edit

LEMMA PlayNextIfKeeps ==
  ASSUME NEW x, PlayerInv(x), NEW waited
  PROVE  PlayerInv(PlayNextIf(waited, x))
BY InvIs, PlayRowIs DEF PlayNextIf

LEMMA MaybeLoadMoreKeeps ==
  ASSUME NEW x, PlayerInv(x)
  PROVE  PlayerInv(MaybeLoadMore(x))
<1>1. PICK r : r = MaybeLoadMore(x)
  OBVIOUS
<1>2. Alike(x, r)
  BY <1>1, InvIs, MaybeLoadMoreIs
<1> QED BY <1>1, <1>2, AlikeInv

\* A continuation's reply: it is not used, or its tracks come in at the end.
LEMMA MoreReplyKeeps ==
  ASSUME PlayerInv(p), setting \in Settings, MoreReply
  PROVE  PlayerInv(p')
<1>1. PICK m : m = p.more
  OBVIOUS
<1>2. PICK x : x = [p EXCEPT !.more = NoRequest, !.q.asking = FALSE]
  OBVIOUS
<1>3. PICK first : first = (m.giver = "history" /\ ~ x.q.historyGave)
  OBVIOUS
<1>4. PICK q : q = [p.q EXCEPT !.asking = FALSE]
  OBVIOUS
<1>5. QueueAlike(p.q, q)
  BY <1>4, InvIs DEF QueueAlike, SameRows, NextAlike, QueueOk, QueueFields
<1>6. /\ PlayerFields \subseteq DOMAIN x /\ x.q = q /\ x.engine = p.engine
      /\ x.current = p.current /\ x.preload = p.preload /\ x.more = NoRequest
      /\ x.opening = p.opening /\ x.retry = p.retry /\ x.online = p.online /\ x.shut = p.shut
      /\ x.open = p.open
  BY <1>2, <1>4, InvIs DEF PlayerFields
<1>7. MoreOk(NoRequest) /\ MoreOk(m)
  BY <1>1, InvIs DEF NoRequest, MoreOk, Givers, Midway, PartsOk
<1>8. Alike(p, x)
  BY <1>5, <1>6, <1>7, InvIs, AlikeSelf DEF Alike
<1>9. PlayerInv(x)
  BY <1>8, AlikeInv
<1>10. CASE p' = StillAsked(MaybeLoadMore(x))
  <2>1. PICK y : y = MaybeLoadMore(x)
    OBVIOUS
  <2>2. PICK w : w = (y.waiting /\ y.q.asking)
    OBVIOUS
  <2>3. p' = [y EXCEPT !.waiting = w]
    BY <1>10, <2>1, <2>2, <1>9, MaybeLoadMoreKeeps, InvIs DEF StillAsked, PlayerFields
  <2>4. PlayerInv(y)
    BY <1>9, <2>1, MaybeLoadMoreKeeps
  <2> QED BY <2>3, <2>4, InvIs, CountersAlike, AlikeInv
<1>11. CASE p' # StillAsked(MaybeLoadMore(x))
  <2>1. PICK tracks \in setting.trackLists \cup {<<>>} :
          LET a == AppendContinuation(x.q, tracks, m.giver, m.seeds) IN
          p' = PlayNextIf(x.waiting,
                 Edited([x EXCEPT !.waiting = FALSE],
                        [a EXCEPT !.stalled = @ \/ (first /\ ~ a.changed)]))
    BY <1>1, <1>2, <1>3, <1>11 DEF MoreReply
  <2>2. tracks \in Seq(Tracks)
    <3>1. setting.trackLists \subseteq Seq(Tracks)
      BY SettingsAssumption
    <3>2. <<>> \in Seq(Tracks)
      OBVIOUS
    <3> QED BY <3>1, <3>2
  <2>3. PICK a : a = AppendContinuation(x.q, tracks, m.giver, m.seeds)
    OBVIOUS
  <2>4. PICK v : v = (a.stalled \/ (first /\ ~ a.changed))
    OBVIOUS
  <2>5. PICK b : b = [a EXCEPT !.stalled = v]
    OBVIOUS
  <2>6. PICK y : y = [x EXCEPT !.waiting = FALSE]
    OBVIOUS
  <2>7. PICK z : z = Edited(y, b)
    OBVIOUS
  <2>8. Edit(x.q, a)
    BY <1>7, <1>9, <2>2, <2>3, InvIs, AppendKeeps DEF MoreOk
  <2>9. QueueOk(a)
    BY <2>8 DEF Edit, Keeps
  <2>10. b = [a EXCEPT !.stalled = @ \/ (first /\ ~ a.changed)]
    BY <2>4, <2>5, <2>9 DEF QueueOk, QueueFields
  <2>11. p' = PlayNextIf(x.waiting, z)
    BY <2>1, <2>3, <2>6, <2>7, <2>10
  <2>12. QueueAlike(a, b)
    BY <2>5, <2>9 DEF QueueAlike, SameRows, NextAlike, QueueOk, QueueFields
  <2>13. Edit(x.q, b)
    BY <1>9, <2>8, <2>12, InvIs, EditAlike
  <2>14. PlayerInv(y) /\ y.q = x.q
    BY <1>9, <2>6, InvIs, CountersAlike, AlikeInv DEF PlayerFields
  <2>15. PlayerInv(z)
    BY <2>7, <2>13, <2>14, EditedIs
  <2> QED BY <2>11, <2>15, PlayNextIfKeeps
<1> QED BY <1>10, <1>11

-----------------------------------------------------------------------------
(* Timers, reports of the network, and what poll() finds *)

\* What differs in retry and online alone is upright as well.
LEMMA UprightStill ==
  ASSUME NEW x, Upright(x), NEW r, PlayerFields \subseteq DOMAIN r,
         r.q = x.q, r.engine = x.engine, r.current = x.current, r.preload = x.preload,
         r.more = x.more, r.opening = x.opening, r.shut = x.shut, r.open = x.open
  PROVE  Upright(r)
<1>0. Midway(x) /\ Sounds(x) /\ Marked(x) /\ Behind(x) /\ NextLoads(x)
  BY DEF Upright, Core
<1>1. HasTrack(r) = HasTrack(x) /\ HasPreload(r) = HasPreload(x)
  BY DEF HasTrack, HasPreload
<1>2. PartsOk(r) /\ QueueFine(r.q)
  BY <1>0 DEF Midway, PartsOk
<1>3. Joints(r)
  BY <1>0, <1>1 DEF Midway, Joints
<1>4. Sounds(r) /\ Marked(r)
  BY <1>0, <1>1 DEF Sounds, IsMarked, Marked
<1>5. Behind(r) /\ NextLoads(r)
  BY <1>0, <1>1 DEF Behind, NextLoads
<1> QED BY <1>2, <1>3, <1>4, <1>5 DEF Upright, Core, Midway

LEMMA RetryTimerKeeps ==
  ASSUME PlayerInv(p), RetryTimer
  PROVE  PlayerInv(p')
<1>1. PICK x : x = [p EXCEPT !.retry = FALSE]
  OBVIOUS
<1>2. Upright(x)
  BY <1>1, InvIs, UprightStill DEF PlayerFields
<1> QED BY <1>1, <1>2, RetryIs DEF RetryTimer

\* The report that there is a network ends a wait; the one that there is none
\* makes the system's next report end it.
LEMMA SetNetworkOnlineKeeps ==
  ASSUME PlayerInv(p), setting \in Settings, SetNetworkOnline
  PROVE  PlayerInv(p')
<1>1. PICK online \in setting.reports \ {p.online} :
        LET x == [p EXCEPT !.online = online]
        IN p' = IF ~ (HasTrack(x) /\ x.current.waits) THEN x
                ELSE CASE online = "yes" -> RetryAfterNetwork(x)
                       [] online = "no" -> [x EXCEPT !.retry = FALSE]
                       [] online = "unknown" -> x
  BY DEF SetNetworkOnline
<1>2. PICK x : x = [p EXCEPT !.online = online]
  OBVIOUS
<1>3. PICK y : y = [x EXCEPT !.retry = FALSE]
  OBVIOUS
<1>4. Upright(x) /\ x.online = online
  BY <1>2, InvIs, UprightStill DEF PlayerFields
<1>5. PlayerFields \subseteq DOMAIN x /\ Midway(x)
  BY <1>4, RowIsThere, SomeFields
<1>6. Upright(y) /\ y.online = online
  BY <1>3, <1>4, <1>5, UprightStill DEF PlayerFields
<1>7. p' = IF ~ (HasTrack(x) /\ x.current.waits) THEN x
           ELSE CASE online = "yes" -> RetryAfterNetwork(x)
                  [] online = "no" -> y
                  [] online = "unknown" -> x
  BY <1>1, <1>2, <1>3
<1>8. CASE ~ (HasTrack(x) /\ x.current.waits)
  <2>1. p' = x
    BY <1>7, <1>8
  <2>2. CanEnd(x)
    BY <1>5, <1>8 DEF CanEnd, Midway, PartsOk, CurrentOk, HasTrack
  <2> QED BY <1>4, <2>1, <2>2 DEF PlayerInv
<1>9. CASE HasTrack(x) /\ x.current.waits
  <2>1. online \in {"unknown", "yes", "no"} /\ (NetworkTold => online # "unknown")
    BY SettingsAssumption DEF NetworkTold
  <2>2. CASE online = "yes"
    <3>1. p' = RetryAfterNetwork(x)
      BY <1>7, <1>9, <2>2
    <3> QED BY <1>4, <3>1, RetryIs
  <2>3. CASE online = "no"
    <3>1. p' = y
      BY <1>7, <1>9, <2>3
    <3>2. CanEnd(y)
      BY <1>6, <2>3 DEF CanEnd
    <3> QED BY <1>6, <3>1, <3>2 DEF PlayerInv
  <2>4. CASE online = "unknown"
    <3>1. p' = x
      BY <1>7, <1>9, <2>4
    <3>2. CanEnd(x)
      BY <2>1, <2>4 DEF CanEnd
    <3> QED BY <1>4, <3>1, <3>2 DEF PlayerInv
  <2> QED BY <2>1, <2>2, <2>3, <2>4
<1> QED BY <1>8, <1>9

\* poll() with the engine stopped at a stream no one can decode.
LEMMA UndecodableKeeps ==
  ASSUME PlayerInv(p), Undecodable
  PROVE  PlayerInv(p')
<1>1. PICK x : x = WithEngine(p, StoppedEngine)
  OBVIOUS
<1>2. PICK kind : kind = IF x.current.feed.failure = "Network" THEN "Network" ELSE "Track"
  OBVIOUS
<1>3. p' = IF HasTrack(p) /\ p.current.feed.stream = p.engine.current
             THEN HandleFailure(x, kind) ELSE x
  BY <1>1, <1>2 DEF Undecodable
<1>4. p.engine.current # 0
  BY InvIs, DamagedAssumption DEF Undecodable, MayBeUndecodable, MayHaveEnded, EngineOk
<1>5. HasTrack(p) /\ p.current.feed.stream = p.engine.current
  BY <1>4, InvIs DEF Sounds
<1>6. kind \in Failing
  BY <1>2 DEF Failing
<1>7. /\ Midway(x) /\ x.q = p.q /\ x.current = p.current /\ x.preload = p.preload
      /\ x.shut = p.shut
  BY <1>1, InvIs, StoppedEngineIs, WithEngineIs
<1>8. Midway(p) /\ Marked(p) /\ IsMarked(p) /\ RowThere(p)
  BY <1>5, InvIs, FailingTrack
<1>9. Marked(x) /\ IsMarked(x) /\ RowThere(x)
  BY <1>7, <1>8 DEF Marked, IsMarked, RowThere, HasPreload
<1> QED BY <1>3, <1>5, <1>6, <1>7, <1>9, HandleFailureIs

\* The queued stream goes without a word: the preload waits on, with no stream.
LEMMA PreloadRefusedKeeps ==
  ASSUME PlayerInv(p), PreloadRefused
  PROVE  PlayerInv(p')
<1>1. PICK e : e = QueueCleared(p.engine)
  OBVIOUS
<1>2. EngineOk(e) /\ e.current = p.engine.current /\ e.queued = 0
  BY <1>1, InvIs, QueueClearedIs
<1>3. p' = WithEngine(p, e)
  BY <1>1 DEF PreloadRefused, QueuedRefused
<1> QED BY <1>2, <1>3, WithEngineKeeps

LEMMA SoundBeginsKeeps ==
  ASSUME PlayerInv(p), SoundBegins
  PROVE  PlayerInv(p')
<1>1. PICK e : e = Heard(p.engine)
  OBVIOUS
<1>2. /\ EngineFields \subseteq DOMAIN e /\ e.current = p.engine.current
      /\ e.queued = p.engine.queued /\ e.full = p.engine.full /\ e.state = "Playing"
  BY <1>1, InvIs DEF Heard, EngineOk, EngineFields
<1>3. EngineOk(e)
  BY <1>2, InvIs DEF EngineOk
<1>4. p' = WithEngine(p, e)
  BY <1>1 DEF SoundBegins
<1> QED BY <1>2, <1>3, <1>4, WithEngineKeeps

\* The current track has played to its end: on to the next row, or it fails late.
LEMMA EngineFinishedKeeps ==
  ASSUME PlayerInv(p), EngineFinished
  PROVE  PlayerInv(p')
<1>1. PICK e : e = Finished(p.engine)
  OBVIOUS
<1>2. PICK x : x = WithEngine(p, e)
  OBVIOUS
<1>3. PICK c : c = CloseCurrent(x)
  OBVIOUS
<1>4. p' = IF x.current.feed.failure = "Network" THEN HandleFailure(x, "Network")
           ELSE IF x.q.playing > 0 /\ NextRow(x.q) = x.q.playing
             THEN PlayRow(c, x.q.playing) ELSE GoOn(c, FALSE)
  BY <1>1, <1>2, <1>3 DEF EngineFinished
<1>5. /\ EngineFields \subseteq DOMAIN e /\ e.current = p.engine.current
      /\ e.queued = p.engine.queued /\ e.full = p.engine.full /\ e.state = p.engine.state
  BY <1>1, InvIs DEF Finished, EngineOk, EngineFields
<1>6. EngineOk(e)
  BY <1>5, InvIs DEF EngineOk
<1>7. PlayerInv(x)
  BY <1>2, <1>5, <1>6, WithEngineKeeps
<1>8. x.engine = e /\ e.current # 0
  <2>1. p.engine.current # 0
    BY InvIs, DamagedAssumption DEF EngineFinished, MayFinish, MayHaveEnded, EngineOk
  <2>2. ~ p.shut
    BY <2>1, InvIs DEF Midway, Joints
  <2>3. x.engine = e
    BY <1>2, <1>5, <1>6, <2>2, InvIs, WithEngineIs
  <2> QED BY <1>5, <2>1, <2>3
<1>9. HasTrack(x)
  BY <1>7, <1>8, InvIs DEF Sounds
<1>10. Midway(x) /\ Marked(x) /\ IsMarked(x) /\ RowThere(x)
  BY <1>7, <1>9, InvIs, FailingTrack
<1>11. /\ Midway(c) /\ c.q = x.q /\ c.preload = x.preload /\ c.shut = x.shut
  BY <1>3, <1>10, CloseCurrentIs
<1>12. Marked(c) /\ RowThere(c)
  BY <1>10, <1>11 DEF Marked, RowThere, HasPreload
<1>13. x.q.playing \in Rows(x.q) /\ x.q.entries # <<>>
  <2>1. QueueOk(x.q) /\ x.q.playing \in 1..Len(x.q.entries)
    BY <1>10 DEF Midway, QueueFine, IsMarked, HasCurrent, Rows
  <2>2. Len(<<>>) = 0
    OBVIOUS
  <2> QED BY <2>1, <2>2 DEF Rows
<1>14. CASE x.current.feed.failure = "Network"
  <2>1. p' = HandleFailure(x, "Network") /\ "Network" \in Failing
    BY <1>4, <1>14 DEF Failing
  <2> QED BY <1>10, <2>1, HandleFailureIs
<1>15. CASE x.current.feed.failure # "Network"
  <2>1. p' = PlayRow(c, x.q.playing) \/ p' = GoOn(c, FALSE)
    BY <1>4, <1>15
  <2>2. CASE p' = PlayRow(c, x.q.playing)
    BY <1>11, <1>13, <2>2, PlayRowIs
  <2>3. CASE p' = GoOn(c, FALSE)
    BY <1>11, <1>12, <1>13, <2>3, GoOnIs
  <2> QED BY <2>1, <2>2, <2>3
<1> QED BY <1>14, <1>15

\* The engine went on into the queued stream: it is the preload's.
LEMMA EngineAdvancedKeeps ==
  ASSUME PlayerInv(p), EngineAdvanced
  PROVE  PlayerInv(p')
<1>1. PICK e : e = Advanced(p.engine)
  OBVIOUS
<1>2. PICK y : y = WithEngine(p, e)
  OBVIOUS
<1>3. PICK x : x = CloseCurrent(y)
  OBVIOUS
<1>4. p' = IF Expected(x) THEN AdoptPreload(x, x.preload.row)
           ELSE IF NextRow(x.q) > 0 THEN PlayRow(x, NextRow(x.q)) ELSE StopAll(x)
  BY <1>1, <1>2, <1>3 DEF EngineAdvanced
<1>5. p.engine.queued \in p.engine.full /\ p.engine.queued # 0 /\ p.engine.queued \in Nat
  BY InvIs DEF EngineAdvanced, MayAdvance, EngineOk
<1>6. HasPreload(p) /\ p.preload.feed.stream = p.engine.queued /\ ~ p.shut
  BY <1>5, InvIs DEF Midway, Joints
<1>7. /\ EngineFields \subseteq DOMAIN e /\ e.current = p.engine.queued
      /\ e.queued = 0 /\ e.full = {p.engine.queued} /\ e.state = p.engine.state
  BY <1>1 DEF Advanced, StoppedEngine, EngineFields
<1>8. EngineOk(e)
  BY <1>5, <1>7, InvIs DEF EngineOk
<1>9. Midway(y) /\ y.engine = e /\ y.q = p.q /\ y.preload = p.preload /\ y.shut = p.shut
  BY <1>2, <1>6, <1>7, <1>8, InvIs, WithEngineIs
<1>10. /\ Midway(x) /\ ~ HasTrack(x) /\ x.q = y.q /\ x.engine = y.engine
       /\ x.preload = y.preload /\ x.shut = y.shut
  BY <1>3, <1>9, CloseCurrentIs
<1>11. x.preload.row \in Rows(x.q)
  BY <1>6, <1>9, <1>10, InvIs DEF RowThere
<1>12. Expected(x)
  BY <1>6, <1>7, <1>9, <1>10, <1>11 DEF Expected, HasPreload
<1>13. /\ x.engine.queued = 0 /\ x.engine.current # 0 /\ ~ x.shut
       /\ x.engine.current = x.preload.feed.stream
  BY <1>5, <1>6, <1>7, <1>9, <1>10
<1> QED BY <1>4, <1>10, <1>11, <1>12, <1>13, AdoptPreloadIs

-----------------------------------------------------------------------------
(* Calls *)

LEMMA AlikeQueueOk ==
  ASSUME NEW q, QueueOk(q), NEW r, QueueAlike(q, r)
  PROVE  /\ QueueOk(r) /\ (Together(q) => Together(r)) /\ (MarkAgrees(q) => MarkAgrees(r))
         /\ KeepsCurrent(q, r)
BY SameRowsOk, MarkSame DEF QueueAlike

LEMMA KeepsAlike ==
  ASSUME NEW q, QueueOk(q), NEW r, Keeps(q, r), NEW s, QueueAlike(r, s)
  PROVE  Keeps(q, s)
<1>1. QueueOk(r)
  BY DEF Keeps
<1>2. /\ QueueOk(s) /\ (Together(r) => Together(s)) /\ (MarkAgrees(r) => MarkAgrees(s))
      /\ KeepsCurrent(r, s)
  BY <1>1, AlikeQueueOk
<1>3. KeepsCurrent(q, r) => KeepsCurrent(q, s)
  BY <1>2 DEF KeepsCurrent
<1> QED BY <1>2, <1>3 DEF Keeps

LEMMA TakeNewBaseIs ==
  ASSUME NEW q, QueueOk(q), NEW r, r = TakeNewBase(q)
  PROVE  QueueAlike(q, r)
BY DEF TakeNewBase, QueueAlike, SameRows, NextAlike, QueueOk, QueueFields

\* The queue with its new base; whatever was asked for is not any more.
LEMMA WithBaseIs ==
  ASSUME NEW x, Midway(x), NEW q, QueueOk(q), Together(q), NEW r, r = WithBase(x, q)
  PROVE  \E b, y : /\ b = TakeNewBase(q) /\ QueueAlike(q, b) /\ QueueOk(b) /\ Together(b)
                   /\ y = WithQueue(x, b) /\ Midway(y) /\ Alike(y, r)
<1>1. PICK b : b = TakeNewBase(q)
  OBVIOUS
<1>2. PICK y : y = WithQueue(x, b)
  OBVIOUS
<1>3. QueueAlike(q, b) /\ QueueOk(b) /\ Together(b)
  BY <1>1, TakeNewBaseIs, AlikeQueueOk
<1>4. Midway(y)
  BY <1>2, <1>3, WithQueueIs
<1>5. r = [y EXCEPT !.waiting = FALSE, !.more = NoRequest, !.seeded = FALSE]
  BY <1>1, <1>2 DEF WithBase
<1>6. MoreOk(NoRequest)
  BY DEF NoRequest, MoreOk, Givers
<1>7. /\ PlayerFields \subseteq DOMAIN r /\ r.q = y.q /\ r.engine = y.engine
      /\ r.current = y.current /\ r.preload = y.preload /\ r.more = NoRequest
      /\ r.opening = y.opening /\ r.retry = y.retry /\ r.online = y.online /\ r.shut = y.shut
      /\ r.open = y.open
  BY <1>4, <1>5, SomeFields DEF PlayerFields
<1>8. Alike(y, r)
  BY <1>4, <1>6, <1>7, AlikeSelf DEF Alike
<1> QED BY <1>1, <1>2, <1>3, <1>4, <1>8

LEMMA RefreshKeeps ==
  ASSUME NEW x, Core(x), Behind(x), CanEnd(x)
  PROVE  PlayerInv(RefreshPreload(x))
BY RefreshPreloadIs DEF PlayerInv

\* setSource(): under a layer what plays goes on, without one it stops.
LEMMA SourceSetIs ==
  ASSUME NEW x, PlayerInv(x), NEW source \in Source, NEW autoplay,
         NEW r, r = SourceSet(x, source, autoplay)
  PROVE  PlayerInv(r)
<1>0. Midway(x) /\ QueueOk(x.q) /\ Together(x.q) /\ Core(x) /\ Behind(x) /\ CanEnd(x)
  BY InvIs
<1>1. CASE x.layer
  <2>1. PICK q : q = ReplaceBase(x.q, source)
    OBVIOUS
  <2>2. PICK z : z = WithBase(x, q)
    OBVIOUS
  <2>3. r = RefreshPreload(z)
    BY <1>1, <2>1, <2>2 DEF SourceSet
  <2>4. Keeps(x.q, q) /\ QueueOk(q) /\ Together(q)
    BY <1>0, <2>1, ReplaceBaseKeeps DEF Keeps
  <2>5. PICK b, y : /\ QueueAlike(q, b) /\ y = WithQueue(x, b) /\ Midway(y) /\ Alike(y, z)
    BY <1>0, <2>2, <2>4, WithBaseIs
  <2>6. Keeps(x.q, b)
    BY <1>0, <2>4, <2>5, KeepsAlike
  <2>7. Core(y) /\ Behind(y) /\ CanEnd(y)
    BY <1>0, <2>5, <2>6, WithQueueKeeps
  <2>8. Core(z) /\ Behind(z) /\ CanEnd(z)
    BY <2>5, <2>7, AlikeKeeps DEF Core
  <2> QED BY <2>3, <2>8, RefreshKeeps
<1>2. CASE ~ x.layer
  <2>1. PICK q : q = Replace(x.q, source)
    OBVIOUS
  <2>2. PICK s : s = StopAll(x)
    OBVIOUS
  <2>3. PICK z : z = WithBase(s, q)
    OBVIOUS
  <2>4. PICK w : w = [z EXCEPT !.failures = 0]
    OBVIOUS
  <2>5. r = w \/ r = PlayRow(w, w.q.playing)
    BY <1>2, <2>1, <2>2, <2>3, <2>4 DEF SourceSet
  <2>6. QueueOk(q) /\ Together(q) /\ MarkAgrees(q)
    BY <1>0, <2>1, ReplaceIs
  <2>7. Midway(s) /\ ~ HasTrack(s) /\ ~ HasPreload(s) /\ s.engine.current = 0
    BY <1>0, <2>2, StopAllIs
  <2>8. PICK b, y : /\ QueueAlike(q, b) /\ QueueOk(b) /\ Together(b)
                    /\ y = WithQueue(s, b) /\ Midway(y) /\ Alike(y, z)
    BY <2>3, <2>6, <2>7, WithBaseIs
  <2>9. MarkAgrees(b)
    BY <2>6, <2>8, AlikeQueueOk
  <2>10. /\ y.engine = s.engine /\ y.current = s.current /\ y.preload = s.preload
         /\ MarkAgrees(y.q)
    BY <2>7, <2>8, <2>9, WithQueueIs
  <2>11. PlayerInv(y)
    BY <2>7, <2>8, <2>10, SilentInv DEF HasTrack, HasPreload, Marked
  <2>12. PlayerInv(z)
    BY <2>8, <2>11, AlikeInv
  <2>13. PlayerInv(w)
    BY <2>4, <2>12, InvIs, CountersAlike, AlikeInv
  <2> QED BY <2>5, <2>13, InvIs, PlayRowIs
<1> QED BY <1>1, <1>2

\* Whatever is called, the call is counted first.
LEMMA Called ==
  ASSUME NEW x, PlayerInv(x), NEW y, y = ByUser(x)
  PROVE  /\ PlayerInv(y) /\ y.q = x.q /\ y.engine = x.engine /\ y.layer = x.layer
         /\ y.current = x.current /\ y.preload = x.preload
<1>1. Alike(x, y)
  BY InvIs, ByUserAlike
<1>2. /\ y.q = x.q /\ y.engine = x.engine /\ y.layer = x.layer
      /\ y.current = x.current /\ y.preload = x.preload
  BY InvIs DEF ByUser, PlayerFields
<1> QED BY <1>1, <1>2, AlikeInv

LEMMA SetSourceKeeps ==
  ASSUME PlayerInv(p), setting \in Settings, SetSource
  PROVE  PlayerInv(p')
<1>1. PICK source \in setting.sources, autoplay \in BOOLEAN :
        p' = SourceSet(ByUser(p), source, autoplay)
  BY DEF SetSource
<1>2. source \in Source
  BY SettingsAssumption
<1> QED BY <1>1, <1>2, Called, SourceSetIs

\* add()
LEMMA AddTracksKeeps ==
  ASSUME PlayerInv(p), setting \in Settings, AddTracks
  PROVE  PlayerInv(p')
<1>1. PICK tracks \in setting.trackLists, placement \in {"Next", "End"} :
        p' = IF p.q.entries = <<>>
               THEN SourceSet(ByUser(p), [NoSource EXCEPT !.head = tracks], FALSE)
               ELSE PlayNextIf(p.waiting, Edited(ByUser(p), Add(p.q, tracks, placement)))
  BY DEF AddTracks
<1>2. tracks \in Seq(Tracks)
  BY SettingsAssumption
<1>3. PICK x : x = ByUser(p)
  OBVIOUS
<1>4. PlayerInv(x) /\ x.q = p.q
  BY <1>3, Called
<1>5. CASE p.q.entries = <<>>
  <2>1. PICK source : source = [NoSource EXCEPT !.head = tracks]
    OBVIOUS
  <2>2. source \in Source
    <3>1. source = [head |-> tracks, start |-> 0, own |-> FALSE, given |-> <<>>,
                    historyAllowed |-> TRUE, history |-> FALSE]
      BY <2>1 DEF NoSource
    <3>2. <<>> \in Seq(Tracks)
      OBVIOUS
    <3> QED BY <1>2, <3>1, <3>2 DEF Source
  <2>3. p' = SourceSet(x, source, FALSE)
    BY <1>1, <1>3, <1>5, <2>1
  <2> QED BY <1>4, <2>2, <2>3, SourceSetIs
<1>6. CASE p.q.entries # <<>>
  <2>1. PICK q : q = Add(p.q, tracks, placement)
    OBVIOUS
  <2>2. PICK y : y = Edited(x, q)
    OBVIOUS
  <2>3. Edit(x.q, q)
    BY <1>2, <1>4, <2>1, InvIs, AddKeeps
  <2>4. PlayerInv(y)
    BY <1>4, <2>2, <2>3, EditedIs
  <2>5. p' = PlayNextIf(p.waiting, y)
    BY <1>1, <1>3, <1>6, <2>1, <2>2
  <2> QED BY <2>4, <2>5, PlayNextIfKeeps
<1> QED BY <1>5, <1>6

\* removeRows(): the current entry's row may be one of them, then it stops.
LEMMA RemoveTracksKeeps ==
  ASSUME PlayerInv(p), RemoveTracks
  PROVE  PlayerInv(p')
<1>1. PICK x : x = ByUser(p)
  OBVIOUS
<1>2. PICK given : LET z == ByUser(p)
                       rows == {i \in given : ~ (z.layer /\ IsWaitingItem(z.q.entries[i]))}
                       y == WithQueue(z, RemoveRows(z.q, rows))
                   IN p' = RefreshPreload(IF z.q.playing \in rows THEN StopAll(y) ELSE y)
  BY DEF RemoveTracks
<1>3. PICK rows : rows = {i \in given : ~ (ByUser(p).layer /\ IsWaitingItem(ByUser(p).q.entries[i]))}
  OBVIOUS
<1>4. PICK q : q = RemoveRows(x.q, rows)
  OBVIOUS
<1>5. PICK y : y = WithQueue(x, q)
  OBVIOUS
<1>6. p' = RefreshPreload(IF x.q.playing \in rows THEN StopAll(y) ELSE y)
  BY <1>1, <1>2, <1>3, <1>4, <1>5
<1>7. PlayerInv(x)
  BY <1>1, Called
<1>8. /\ QueueOk(q) /\ Together(q) /\ (MarkAgrees(x.q) => MarkAgrees(q))
      /\ (x.q.playing \notin rows => Edit(x.q, q))
  BY <1>4, <1>7, InvIs, RemoveKeeps
<1>9. CASE x.q.playing \in rows
  <2>1. PICK s : s = StopAll(y)
    OBVIOUS
  <2>2. Midway(y) /\ y.shut = x.shut /\ (MarkAgrees(q) => MarkAgrees(y.q))
    <3>1. Midway(x) /\ QueueOk(q) /\ Together(q)
      BY <1>7, <1>8, InvIs
    <3> QED BY <1>5, <3>1, WithQueueIs
  <2>3. Marked(y)
    BY <1>7, <1>8, <2>2, InvIs DEF Marked
  <2>4. PlayerInv(s)
    BY <2>1, <2>2, <2>3, StopAllIs
  <2>5. p' = RefreshPreload(s)
    BY <1>6, <1>9, <2>1
  <2> QED BY <2>4, <2>5, InvIs, RefreshKeeps
<1>10. CASE x.q.playing \notin rows
  <2>1. Keeps(x.q, q)
    BY <1>8, <1>10 DEF Edit
  <2>2. Core(y) /\ Behind(y) /\ CanEnd(y)
    BY <1>5, <1>7, <2>1, InvIs, WithQueueKeeps
  <2> QED BY <1>6, <1>10, <2>2, RefreshKeeps
<1> QED BY <1>9, <1>10

\* The layer comes and goes: the entries stay, without the layer's ids.
LEMMA SetLayerKeeps ==
  ASSUME PlayerInv(p), SetLayer
  PROVE  PlayerInv(p')
<1>1. PICK y : y = ByUser(p)
  OBVIOUS
<1>2. PICK x : x = [y EXCEPT !.layer = ~ @]
  OBVIOUS
<1>3. p' = IF p.layer THEN Edited(x, EndLayer(x.q)) ELSE x
  BY <1>1, <1>2 DEF SetLayer
<1>4. PlayerInv(y)
  BY <1>1, Called
<1>5. PlayerInv(x)
  <2>1. PICK v : v = ~ y.layer
    OBVIOUS
  <2>2. x = [y EXCEPT !.layer = v]
    BY <1>2, <2>1
  <2> QED BY <1>4, <2>2, InvIs, CountersAlike, AlikeInv
<1>6. PICK q : q = EndLayer(x.q)
  OBVIOUS
<1>7. Edit(x.q, q)
  BY <1>5, <1>6, InvIs, EndLayerKeeps DEF Edit, Quiet
<1> QED BY <1>3, <1>5, <1>6, <1>7, EditedIs

LEMMA GoOnKeeps ==
  ASSUME NEW x, PlayerInv(x), NEW byUser
  PROVE  PlayerInv(GoOn(x, byUser))
BY InvIs, GoOnIs

\* setLayerItems(): what is left to play may be played at once.
LEMMA SetLayerItemsKeeps ==
  ASSUME PlayerInv(p), setting \in Settings, SetLayerItems
  PROVE  PlayerInv(p')
<1>1. PICK items \in setting.itemLists, hint \in setting.hints :
        p' = GoOnIf(NothingToPlay(p),
                    LoadMoreUnlessStopped(Edited(ByUser(p), SetItems(p.q, items, hint))))
  BY DEF SetLayerItems
<1>2. items \in ItemList /\ hint \in Hint
  BY SettingsAssumption
<1>3. PICK x : x = ByUser(p)
  OBVIOUS
<1>4. PICK q : q = SetItems(p.q, items, hint)
  OBVIOUS
<1>5. PICK y : y = Edited(x, q)
  OBVIOUS
<1>6. PICK z : z = LoadMoreUnlessStopped(y)
  OBVIOUS
<1>7. PlayerInv(x) /\ x.q = p.q
  BY <1>3, Called
<1>8. Edit(x.q, q)
  BY <1>2, <1>4, <1>7, InvIs, SetItemsKeeps
<1>9. PlayerInv(y)
  BY <1>5, <1>7, <1>8, EditedIs
<1>10. PlayerInv(z)
  BY <1>6, <1>9, MaybeLoadMoreKeeps DEF LoadMoreUnlessStopped
<1>11. p' = GoOnIf(NothingToPlay(p), z)
  BY <1>1, <1>3, <1>4, <1>5, <1>6
<1> QED BY <1>10, <1>11, GoOnKeeps DEF GoOnIf

LEMMA SkipItemKeeps ==
  ASSUME PlayerInv(p), SkipItem
  PROVE  PlayerInv(p')
BY Called, GoOnKeeps DEF SkipItem

LEMMA SkipTrackKeeps ==
  ASSUME PlayerInv(p), SkipTrack
  PROVE  PlayerInv(p')
BY Called, GoOnKeeps DEF SkipTrack

LEMMA PlayRowKeeps ==
  ASSUME NEW x, PlayerInv(x), NEW row
  PROVE  PlayerInv(PlayRow(x, row))
BY InvIs, PlayRowIs

LEMMA PlayRowOfUserKeeps ==
  ASSUME PlayerInv(p), PlayRowOfUser
  PROVE  PlayerInv(p')
BY Called, PlayRowKeeps DEF PlayRowOfUser

LEMMA StopKeeps ==
  ASSUME PlayerInv(p), Stop
  PROVE  PlayerInv(p')
BY Called, InvIs, StopAllIs DEF Stop

\* What the user last said of the track is for after the wait.
LEMMA WordsAlike ==
  ASSUME NEW x, PlayerInv(x), NEW u, NEW v
  PROVE  /\ PlayerInv([x EXCEPT !.current.halted = v])
         /\ PlayerInv([x EXCEPT !.current.resume = u])
         /\ PlayerInv([x EXCEPT !.current.resume = u, !.current.halted = v])
<1>1. ASSUME NEW r, \/ r = [x EXCEPT !.current.halted = v]
                    \/ r = [x EXCEPT !.current.resume = u]
                    \/ r = [x EXCEPT !.current.resume = u, !.current.halted = v]
      PROVE  PlayerInv(r)
  <2>1. /\ PlayerFields \subseteq DOMAIN r /\ r.q = x.q /\ r.engine = x.engine
        /\ r.preload = x.preload /\ r.more = x.more /\ r.opening = x.opening
        /\ r.retry = x.retry /\ r.online = x.online /\ r.shut = x.shut /\ r.open = x.open
    BY <1>1, InvIs DEF PlayerFields
  <2>2. /\ CurrentFields \subseteq DOMAIN r.current /\ r.current.feed = x.current.feed
        /\ r.current.track = x.current.track /\ r.current.started = x.current.started
        /\ r.current.waits = x.current.waits
    <3>1. CASE r = [x EXCEPT !.current.halted = v]
      BY <3>1, InvIs DEF PlayerFields, CurrentFields
    <3>2. CASE r = [x EXCEPT !.current.resume = u]
      BY <3>2, InvIs DEF PlayerFields, CurrentFields
    <3>3. CASE r = [x EXCEPT !.current.resume = u, !.current.halted = v]
      BY <3>3, InvIs DEF PlayerFields, CurrentFields
    <3> QED BY <1>1, <3>1, <3>2, <3>3
  <2>3. CurrentAlike(x.current, r.current)
    BY <2>2, InvIs DEF CurrentAlike, FeedAlike
  <2>4. Alike(x, r)
    BY <2>1, <2>3, InvIs, AlikeSelf, SomeFields DEF Alike
  <2> QED BY <2>4, AlikeInv
<1> QED BY <1>1

LEMMA ResumedKeeps ==
  ASSUME NEW x, PlayerInv(x), NEW audio
  PROVE  PlayerInv(WithEngine(x, Resumed(x.engine, audio)))
<1>1. PICK e : e = Resumed(x.engine, audio)
  OBVIOUS
<1>2. EngineOk(e) /\ e.current = x.engine.current /\ e.queued = x.engine.queued
  BY <1>1, InvIs, ResumedIs
<1> QED BY <1>1, <1>2, WithEngineKeeps

\* play()
LEMMA PlayKeeps ==
  ASSUME PlayerInv(p), Play
  PROVE  PlayerInv(p')
<1>1. PICK y : y = ByUser(p)
  OBVIOUS
<1>2. PICK x : x = [y EXCEPT !.current.halted = FALSE]
  OBVIOUS
<1>3. IF HasTrack(x) /\ x.current.waits
        THEN p' = RetryAfterNetwork([x EXCEPT !.current.resume = TRUE])
        ELSE CASE x.engine.state = "Paused" ->
                    \E audio \in {FALSE, HasBytes(x)} :
                      p' = WithEngine(x, Resumed(x.engine, audio))
               [] x.engine.state = "Playing" -> p' = PlayRow(x, x.q.playing)
               [] x.engine.state = "Buffering" -> p' = x
               [] x.engine.state = "Stopped" -> p' = PlayRow(x, FirstToPlay(x.q))
  BY <1>1, <1>2 DEF Play
<1>4. PlayerInv(x)
  BY <1>1, <1>2, Called, WordsAlike
<1>5. CASE HasTrack(x) /\ x.current.waits
  <2>1. PICK z : z = [x EXCEPT !.current.resume = TRUE]
    OBVIOUS
  <2>2. PlayerInv(z)
    BY <1>4, <2>1, WordsAlike
  <2>3. p' = RetryAfterNetwork(z)
    BY <1>3, <1>5, <2>1
  <2> QED BY <2>2, <2>3, InvIs, RetryIs
<1>6. CASE ~ (HasTrack(x) /\ x.current.waits)
  <2>1. x.engine.state \in {"Stopped", "Buffering", "Playing", "Paused"}
    BY <1>4, InvIs DEF EngineOk
  <2>2. \/ \E audio : p' = WithEngine(x, Resumed(x.engine, audio))
        \/ p' = PlayRow(x, x.q.playing) \/ p' = x \/ p' = PlayRow(x, FirstToPlay(x.q))
    <3>1. CASE x.engine.state = "Paused"
      BY <1>3, <1>6, <3>1
    <3>2. CASE x.engine.state = "Playing"
      BY <1>3, <1>6, <3>2
    <3>3. CASE x.engine.state = "Buffering"
      BY <1>3, <1>6, <3>3
    <3>4. CASE x.engine.state = "Stopped"
      BY <1>3, <1>6, <3>4
    <3> QED BY <2>1, <3>1, <3>2, <3>3, <3>4
  <2> QED BY <1>4, <2>2, ResumedKeeps, PlayRowKeeps
<1> QED BY <1>5, <1>6

\* playPause()
LEMMA PauseKeeps ==
  ASSUME PlayerInv(p), Pause
  PROVE  PlayerInv(p')
<1>1. PICK x : x = ByUser(p)
  OBVIOUS
<1>2. IF HasTrack(x) /\ x.current.waits
        THEN p' = [x EXCEPT !.current.resume = ~ @, !.current.halted = x.current.resume]
      ELSE IF x.engine.state = "Paused"
        THEN \E audio \in {FALSE, HasBytes(x)} :
               p' = [WithEngine(x, Resumed(x.engine, audio)) EXCEPT !.current.halted = FALSE]
      ELSE LET e == PausedEngine(x.engine)
           IN p' = [WithEngine(x, e) EXCEPT !.current.halted = e.state = "Paused"]
  BY <1>1 DEF Pause
<1>3. PlayerInv(x)
  BY <1>1, Called
<1>4. CASE HasTrack(x) /\ x.current.waits
  <2>1. PICK u : u = ~ x.current.resume
    OBVIOUS
  <2>2. PICK v : v = x.current.resume
    OBVIOUS
  <2>3. p' = [x EXCEPT !.current.resume = u, !.current.halted = v]
    BY <1>2, <1>3, <1>4, <2>1, <2>2, InvIs DEF PlayerFields, CurrentFields
  <2> QED BY <1>3, <2>3, WordsAlike
<1>5. CASE ~ (HasTrack(x) /\ x.current.waits) /\ x.engine.state = "Paused"
  <2>1. PICK audio : p' = [WithEngine(x, Resumed(x.engine, audio)) EXCEPT !.current.halted = FALSE]
    BY <1>2, <1>5
  <2> QED BY <1>3, <2>1, ResumedKeeps, WordsAlike
<1>6. CASE ~ (HasTrack(x) /\ x.current.waits) /\ x.engine.state # "Paused"
  <2>1. PICK e : e = PausedEngine(x.engine)
    OBVIOUS
  <2>2. PICK v : v = (e.state = "Paused")
    OBVIOUS
  <2>3. p' = [WithEngine(x, e) EXCEPT !.current.halted = v]
    BY <1>2, <1>6, <2>1, <2>2
  <2>4. EngineOk(e) /\ e.current = x.engine.current /\ e.queued = x.engine.queued
    BY <1>3, <2>1, InvIs, PausedIs
  <2>5. PlayerInv(WithEngine(x, e))
    BY <1>3, <2>4, WithEngineKeeps
  <2> QED BY <2>3, <2>5, WordsAlike
<1> QED BY <1>4, <1>5, <1>6

LEMMA SoughtToKeeps ==
  ASSUME NEW x, PlayerInv(x)
  PROVE  PlayerInv(SoughtTo(x))
<1>1. PICK e : e = Sought(x.engine)
  OBVIOUS
<1>2. /\ EngineFields \subseteq DOMAIN e /\ e.current = x.engine.current
      /\ e.queued = x.engine.queued /\ e.full = x.engine.full /\ e.state = x.engine.state
  BY <1>1, InvIs DEF Sought, EngineOk, EngineFields
<1>3. EngineOk(e)
  BY <1>2, InvIs DEF EngineOk
<1>4. PICK r : r = [x EXCEPT !.engine = e]
  OBVIOUS
<1>5. /\ PlayerFields \subseteq DOMAIN r /\ r.q = x.q /\ r.engine = e /\ r.current = x.current
      /\ r.preload = x.preload /\ r.more = x.more /\ r.opening = x.opening /\ r.retry = x.retry
      /\ r.online = x.online /\ r.shut = x.shut /\ r.open = x.open
  BY <1>4, InvIs DEF PlayerFields
<1>6. HasTrack(r) = HasTrack(x) /\ HasPreload(r) = HasPreload(x)
  BY <1>5 DEF HasTrack, HasPreload
<1>7. PartsOk(r) /\ QueueFine(r.q)
  BY <1>3, <1>5, InvIs DEF Midway, PartsOk
<1>8. Joints(r)
  BY <1>2, <1>5, <1>6, InvIs DEF Midway, Joints
<1>9. Sounds(r) /\ Marked(r) /\ CanEnd(r)
  BY <1>2, <1>5, <1>6, InvIs DEF Sounds, IsMarked, Marked, CanEnd
<1>10. Behind(r) /\ NextLoads(r)
  BY <1>5, <1>6, InvIs DEF Behind, NextLoads
<1>11. PlayerInv(r)
  BY <1>7, <1>8, <1>9, <1>10 DEF PlayerInv, Upright, Core, Midway
<1>12. SoughtTo(x) = x \/ SoughtTo(x) = r
  BY <1>1, <1>4 DEF SoughtTo
<1> QED BY <1>11, <1>12

LEMMA SeekKeeps ==
  ASSUME PlayerInv(p), Seek
  PROVE  PlayerInv(p')
BY Called, SoughtToKeeps DEF Seek

\* A queue that next() reads alike leaves the preload what it is.
LEMMA AlikeQueueKeeps ==
  ASSUME NEW x, PlayerInv(x), NEW q, Keeps(x.q, q), NextAlike(x.q, q),
         NEW y, y = WithQueue(x, q)
  PROVE  PlayerInv(y)
<1>1. Core(y) /\ Behind(y) /\ CanEnd(y)
  BY InvIs, WithQueueKeeps
<1>2. QueueOk(q) /\ Together(q)
  BY InvIs DEF Keeps
<1>3. y.preload = x.preload /\ y.q.entries = q.entries /\ NextRow(y.q) = NextRow(q)
  BY <1>2, InvIs, WithQueueIs
<1>4. NextRow(q) = NextRow(x.q) /\ q.entries = x.q.entries
  BY <1>2, InvIs, SameNext DEF NextAlike
<1>5. NextLoads(y)
  BY <1>3, <1>4, InvIs DEF NextLoads, HasPreload, TrackAt
<1> QED BY <1>1, <1>5 DEF PlayerInv, Upright

\* previous(): the step back is a selection, unless there is nowhere to go.
LEMMA PreviousKeeps ==
  ASSUME PlayerInv(p), Previous
  PROVE  PlayerInv(p')
<1>1. PICK x : x = ByUser(p)
  OBVIOUS
<1>2. PICK again : again = IF x.engine.current # 0 THEN SoughtTo(x) ELSE PlayRow(x, x.q.playing)
  OBVIOUS
<1>3. p.q.entries # <<>> /\ (p' = again \/ p' = PlayRow(WithQueue(x, StepBack(x.q)), PreviousRow(x.q)))
  BY <1>1, <1>2 DEF Previous
<1>4. PlayerInv(x) /\ x.q = p.q
  BY <1>1, Called
<1>5. CASE p' = again
  BY <1>2, <1>4, <1>5, SoughtToKeeps, PlayRowKeeps
<1>6. CASE p' = PlayRow(WithQueue(x, StepBack(x.q)), PreviousRow(x.q))
  <2>1. PICK row : row = PreviousRow(x.q)
    OBVIOUS
  <2>2. PICK q : q = StepBack(x.q)
    OBVIOUS
  <2>3. PICK y : y = WithQueue(x, q)
    OBVIOUS
  <2>4. p' = PlayRow(y, row)
    BY <1>6, <2>1, <2>2, <2>3
  <2>5. row # 0 => row \in Rows(x.q)
    BY <1>3, <1>4, <2>1, InvIs, PreviousIsRow
  <2>6. /\ QueueOk(q) /\ q.entries = x.q.entries /\ (row = 0 => q = x.q) /\ Together(q)
    BY <1>4, <2>1, <2>2, InvIs, StepBackIs
  <2>7. Midway(y) /\ y.q.entries = q.entries
    BY <1>4, <2>3, <2>6, InvIs, WithQueueIs, SMTT(30)
  <2>8. CASE row # 0
    BY <2>4, <2>5, <2>6, <2>7, <2>8, PlayRowIs DEF Rows
  <2>9. CASE row = 0
    <3>1. SameRows(x.q, x.q) /\ NextAlike(x.q, x.q)
      BY <1>4, InvIs DEF SameRows, NextAlike, QueueOk
    <3>2. Keeps(x.q, x.q)
      BY <1>4, <3>1, InvIs, SameKeeps
    <3>3. PlayerInv(y)
      BY <1>4, <2>3, <2>6, <2>9, <3>1, <3>2, AlikeQueueKeeps
    <3> QED BY <2>4, <3>3, PlayRowKeeps
  <2> QED BY <2>8, <2>9
<1> QED BY <1>3, <1>5, <1>6

LEMMA RefreshedWith ==
  ASSUME NEW x, PlayerInv(x), NEW q, Keeps(x.q, q)
  PROVE  PlayerInv(RefreshPreload(WithQueue(x, q)))
<1>1. PICK y : y = WithQueue(x, q)
  OBVIOUS
<1>2. Core(y) /\ Behind(y) /\ CanEnd(y)
  BY <1>1, InvIs, WithQueueKeeps
<1> QED BY <1>1, <1>2, RefreshKeeps

\* setShuffle(), setShuffleAlgorithm(), setRepeat()
LEMMA ChangeModesKeeps ==
  ASSUME PlayerInv(p), ChangeModes
  PROVE  PlayerInv(p')
<1>1. PICK x : x = ByUser(p)
  OBVIOUS
<1>2. PlayerInv(x)
  BY <1>1, Called
<1>3. \/ p' = RefreshPreload(WithQueue(x, SetShuffle(x.q, ~ x.q.shuffle)))
      \/ \E a \in {"random", "shuffled"} :
           LET y == WithQueue(x, SetShuffleAlgorithm(x.q, a))
           IN p' = IF ShuffleActive(y.q) THEN RefreshPreload(y) ELSE y
      \/ p' = RefreshPreload(WithQueue(x, SetRepeat(x.q, ~ x.q.repeat)))
  BY <1>1 DEF ChangeModes
<1>4. QueueOk(x.q)
  BY <1>2, InvIs
<1>5. CASE p' = RefreshPreload(WithQueue(x, SetShuffle(x.q, ~ x.q.shuffle)))
  <2>1. PICK on : on = ~ x.q.shuffle
    OBVIOUS
  <2>2. on \in BOOLEAN
    BY <2>1, Zenon
  <2>3. Keeps(x.q, SetShuffle(x.q, on))
    BY <1>4, <2>2, ModesKeep
  <2>4. p' = RefreshPreload(WithQueue(x, SetShuffle(x.q, on)))
    BY <1>5, <2>1
  <2> QED BY <1>2, <2>3, <2>4, RefreshedWith
<1>6. CASE p' = RefreshPreload(WithQueue(x, SetRepeat(x.q, ~ x.q.repeat)))
  <2>1. PICK on : on = ~ x.q.repeat
    OBVIOUS
  <2>2. on \in BOOLEAN
    BY <2>1, Zenon
  <2>3. Keeps(x.q, SetRepeat(x.q, on))
    BY <1>4, <2>2, ModesKeep
  <2>4. p' = RefreshPreload(WithQueue(x, SetRepeat(x.q, on)))
    BY <1>6, <2>1
  <2> QED BY <1>2, <2>3, <2>4, RefreshedWith
<1>7. CASE \E a \in {"random", "shuffled"} :
             LET y == WithQueue(x, SetShuffleAlgorithm(x.q, a))
             IN p' = IF ShuffleActive(y.q) THEN RefreshPreload(y) ELSE y
  <2>1. PICK a : LET y == WithQueue(x, SetShuffleAlgorithm(x.q, a))
                 IN p' = IF ShuffleActive(y.q) THEN RefreshPreload(y) ELSE y
    BY <1>7
  <2>2. PICK q : q = SetShuffleAlgorithm(x.q, a)
    OBVIOUS
  <2>3. PICK y : y = WithQueue(x, q)
    OBVIOUS
  <2>4. p' = IF ShuffleActive(y.q) THEN RefreshPreload(y) ELSE y
    BY <2>1, <2>2, <2>3
  <2>5. Keeps(x.q, q) /\ (~ ShuffleActive(q) => NextAlike(x.q, q))
    BY <1>4, <2>2, ModesKeep
  <2>6. CASE ShuffleActive(y.q)
    BY <1>2, <2>3, <2>4, <2>5, <2>6, RefreshedWith
  <2>7. CASE ~ ShuffleActive(y.q)
    <3>1. y.q = [q EXCEPT !.changed = FALSE, !.generation = 0]
      BY <1>2, <2>3, InvIs DEF WithQueue, PlayerFields
    <3>2. QueueFields \subseteq DOMAIN q
      BY <2>5 DEF Keeps, QueueOk
    <3>3. y.q.shuffle = q.shuffle /\ y.q.own = q.own
      BY <3>1, <3>2 DEF QueueFields
    <3>4. ~ ShuffleActive(q)
      BY <2>7, <3>3 DEF ShuffleActive
    <3>5. PlayerInv(y)
      BY <1>2, <2>3, <2>5, <3>4, AlikeQueueKeeps
    <3> QED BY <2>4, <2>7, <3>5
  <2> QED BY <2>6, <2>7
<1> QED BY <1>3, <1>5, <1>6, <1>7

LEMMA SetContinueWithVibeKeeps ==
  ASSUME PlayerInv(p), SetContinueWithVibe
  PROVE  PlayerInv(p')
<1>1. PICK x : x = ByUser(p)
  OBVIOUS
<1>2. PlayerInv(x)
  BY <1>1, Called
<1>3. PICK y : y = [x EXCEPT !.q.withVibe = FALSE]
  OBVIOUS
<1>4. PICK z : z = [x EXCEPT !.q.withVibe = TRUE, !.q.stalled = FALSE]
  OBVIOUS
<1>5. p' = y \/ p' = MaybeLoadMore(z)
  BY <1>1, <1>3, <1>4 DEF SetContinueWithVibe
<1>6. QueueFields \subseteq DOMAIN x.q /\ Midway(x)
  BY <1>2, InvIs DEF QueueOk
<1>7. QueueAlike(x.q, y.q) /\ QueueAlike(x.q, z.q)
  <2>1. y.q = [x.q EXCEPT !.withVibe = FALSE]
    BY <1>2, <1>3, InvIs DEF PlayerFields
  <2>2. z.q = [[x.q EXCEPT !.withVibe = TRUE] EXCEPT !.stalled = FALSE]
    BY <1>2, <1>4, InvIs DEF PlayerFields
  <2>3. QueueAlike(x.q, y.q)
    BY <2>1, <1>6 DEF QueueAlike, SameRows, NextAlike, QueueFields
  <2>4. QueueAlike(x.q, z.q)
    BY <2>2, <1>6 DEF QueueAlike, SameRows, NextAlike, QueueFields
  <2> QED BY <2>3, <2>4
<1>8. /\ PlayerFields \subseteq DOMAIN y /\ y.more = x.more /\ y.engine = x.engine
      /\ y.current = x.current /\ y.preload = x.preload /\ y.opening = x.opening
      /\ y.retry = x.retry /\ y.online = x.online /\ y.shut = x.shut /\ y.open = x.open
  BY <1>2, <1>3, InvIs DEF PlayerFields
<1>9. /\ PlayerFields \subseteq DOMAIN z /\ z.more = x.more /\ z.engine = x.engine
      /\ z.current = x.current /\ z.preload = x.preload /\ z.opening = x.opening
      /\ z.retry = x.retry /\ z.online = x.online /\ z.shut = x.shut /\ z.open = x.open
  BY <1>2, <1>4, InvIs DEF PlayerFields
<1>10. Alike(x, y) /\ Alike(x, z)
  BY <1>6, <1>7, <1>8, <1>9, AlikeSelf, SomeFields DEF Alike
<1>11. PlayerInv(y) /\ PlayerInv(z)
  BY <1>2, <1>10, AlikeInv
<1> QED BY <1>5, <1>11, MaybeLoadMoreKeeps

\* sourceFilesChanged(): what was to be preloaded is asked for again.
LEMMA FilesChangedKeeps ==
  ASSUME PlayerInv(p), FilesChanged
  PROVE  PlayerInv(p')
<1>1. PICK x : x = ByUser(p)
  OBVIOUS
<1>2. PICK y : y = CancelPreload(x)
  OBVIOUS
<1>3. p' = MaybePreload(y)
  BY <1>1, <1>2 DEF FilesChanged
<1>4. Core(x) /\ CanEnd(x) /\ Midway(x)
  BY <1>1, Called, InvIs
<1>5. Midway(y) /\ OnlyPreload(x, y) /\ ~ HasPreload(y)
  BY <1>2, <1>4, CancelPreloadIs
<1>6. Core(y) /\ CanEnd(y) /\ Behind(y) /\ NextLoads(y)
  BY <1>4, <1>5, OnlyPreloadKeeps, NothingBehind
<1> QED BY <1>3, <1>6, MaybePreloadKeeps DEF PlayerInv

LEMMA ShutDownKeeps ==
  ASSUME PlayerInv(p), ShutDown
  PROVE  PlayerInv(p')
<1>1. PICK x : x = ByUser(p)
  OBVIOUS
<1>2. PICK s : s = StopAll(x)
  OBVIOUS
<1>3. PICK r : r = [s EXCEPT !.shut = TRUE]
  OBVIOUS
<1>4. p' = r
  BY <1>1, <1>2, <1>3 DEF ShutDown
<1>5. Midway(s) /\ ~ HasTrack(s) /\ ~ HasPreload(s) /\ s.engine.current = 0
  BY <1>1, <1>2, Called, InvIs, StopAllIs
<1>6. /\ PlayerFields \subseteq DOMAIN r /\ r.q = s.q /\ r.engine = s.engine
      /\ r.current = s.current /\ r.preload = s.preload /\ r.more = s.more
      /\ r.opening = s.opening /\ r.open = s.open /\ r.shut = TRUE
  BY <1>3, <1>5, SomeFields DEF PlayerFields
<1>7. ~ HasTrack(r) /\ ~ HasPreload(r)
  BY <1>5, <1>6 DEF HasTrack, HasPreload
<1>8. PartsOk(r) /\ QueueFine(r.q)
  BY <1>5, <1>6 DEF Midway, PartsOk
<1>9. Joints(r)
  BY <1>5, <1>6, <1>7 DEF Midway, Joints
<1>10. r.shut
  BY <1>6
<1> QED BY <1>4, <1>8, <1>9, <1>10, ShutInv DEF Midway

-----------------------------------------------------------------------------
(* The theorems *)

LEMMA EmptyQueueIs ==
  ASSUME NEW q, q = [EmptyQueue EXCEPT !.luck = Luck]
  PROVE  QueueFine(q) /\ MarkAgrees(q)
<1>1. /\ QueueFields \subseteq DOMAIN q /\ q.entries = <<>> /\ q.playing = 0 /\ q.contMark = 0
      /\ q.hint = NoHint /\ q.changed = FALSE
  BY DEF EmptyQueue, QueueFields
<1>2. <<>> \in Entries /\ Len(<<>>) = 0 /\ 0 \in 0..0
  BY DEF Entries
<1>3. NoHint \in Hint
  BY DEF NoHint, Hint
<1>4. QueueOk(q)
  <2>1. q.entries \in Entries
    BY <1>1, <1>2
  <2>2. q.playing \in 0..Len(q.entries)
    <3>1. q.playing = 0 /\ Len(q.entries) = 0
      BY <1>1, <1>2
    <3> QED BY <3>1
  <2>3. q.contMark \in Int
    BY <1>1
  <2>5. q.changed \in BOOLEAN
    BY <1>1, Zenon
  <2>4. q.hint \in Hint
    BY <1>1, <1>3
  <2> QED BY <1>1, <2>1, <2>2, <2>3, <2>4, <2>5 DEF QueueOk
<1>5. Pending(q) = {} /\ ~ HasCurrent(q)
  BY <1>1, <1>2 DEF Pending, HasCurrent, Rows
<1>6. Together(q)
  BY <1>4, <1>5, NoneWaits
<1> QED BY <1>1, <1>4, <1>5, <1>6 DEF QueueFine, MarkAgrees

LEMMA NewPlayerIs == PlayerInv(NewPlayer)
<1>1. PICK x : x = NewPlayer
  OBVIOUS
<1>2. PICK q : q = [EmptyQueue EXCEPT !.luck = Luck]
  OBVIOUS
<1>3. /\ PlayerFields \subseteq DOMAIN x /\ x.q = q /\ x.engine = StoppedEngine
      /\ x.current = Idle /\ x.preload = NoPreload /\ x.more = NoRequest /\ x.opening = FALSE
      /\ x.shut = FALSE /\ x.open = <<>>
  BY <1>1, <1>2 DEF NewPlayer, PlayerFields
<1>4. MoreOk(NoRequest)
  BY DEF NoRequest, MoreOk, Givers
<1>5. ~ HasTrack(x) /\ ~ HasPreload(x)
  BY <1>3, IdleIs, NoPreloadIs DEF HasTrack, HasPreload
<1>6. QueueFine(q) /\ MarkAgrees(q)
  BY <1>2, EmptyQueueIs
<1>7. PartsOk(x) /\ QueueFine(x.q)
  BY <1>3, <1>4, <1>6, StoppedEngineIs, IdleIs, NoPreloadIs DEF PartsOk
<1>8. Joints(x)
  BY <1>3, <1>5, StoppedEngineIs, IdleIs DEF Joints
<1>9. Marked(x) /\ x.engine.current = 0
  BY <1>3, <1>6, StoppedEngineIs DEF Marked
<1> QED BY <1>1, <1>5, <1>7, <1>8, <1>9, SilentInv DEF Midway

Inv == PlayerInv(p) /\ setting \in Settings

LEMMA StepKeeps ==
  ASSUME Inv, [Next]_<<p, setting>>
  PROVE  Inv'
<1>1. PlayerInv(p) /\ setting \in Settings
  BY DEF Inv
<1>2. CASE UNCHANGED <<p, setting>>
  BY <1>1, <1>2 DEF Inv
<1>3. CASE Next
  <2>1. setting' = setting /\ Step
    BY <1>3 DEF Next
  <2> SUFFICES PlayerInv(p')
    BY <1>1, <2>1 DEF Inv
  <2>2. CASE UserNext
    <3>1. CASE SetSource
      BY <1>1, <3>1, SetSourceKeeps
    <3>2. CASE AddTracks
      BY <1>1, <3>2, AddTracksKeeps
    <3>3. CASE RemoveTracks
      BY <1>1, <3>3, RemoveTracksKeeps
    <3>4. CASE SetLayer
      BY <1>1, <3>4, SetLayerKeeps
    <3>5. CASE SetLayerItems
      BY <1>1, <3>5, SetLayerItemsKeeps
    <3>6. CASE SkipItem
      BY <1>1, <3>6, SkipItemKeeps
    <3>7. CASE PlayRowOfUser
      BY <1>1, <3>7, PlayRowOfUserKeeps
    <3>8. CASE Play
      BY <1>1, <3>8, PlayKeeps
    <3>9. CASE Pause
      BY <1>1, <3>9, PauseKeeps
    <3>10. CASE Stop
      BY <1>1, <3>10, StopKeeps
    <3>11. CASE SkipTrack
      BY <1>1, <3>11, SkipTrackKeeps
    <3>12. CASE Seek
      BY <1>1, <3>12, SeekKeeps
    <3>13. CASE Previous
      BY <1>1, <3>13, PreviousKeeps
    <3>14. CASE ChangeModes
      BY <1>1, <3>14, ChangeModesKeeps
    <3>15. CASE SetContinueWithVibe
      BY <1>1, <3>15, SetContinueWithVibeKeeps
    <3>16. CASE FilesChanged
      BY <1>1, <3>16, FilesChangedKeeps
    <3>17. CASE ShutDown
      BY <1>1, <3>17, ShutDownKeeps
    <3> QED BY <2>2, <3>1, <3>2, <3>3, <3>4, <3>5, <3>6, <3>7, <3>8, <3>9, <3>10, <3>11, <3>12,
         <3>13, <3>14, <3>15, <3>16, <3>17 DEF UserNext
  <2>3. CASE SourceNext
    <3>1. CASE OpenReply
      BY <1>1, <3>1, OpenReplyKeeps
    <3>2. CASE PreloadReply
      BY <1>1, <3>2, PreloadReplyKeeps
    <3>3. CASE Received
      BY <1>1, <3>3, ReceivedKeeps
    <3>4. CASE CurrentDownloaded
      BY <1>1, <3>4, CurrentDownloadedKeeps
    <3>5. CASE PreloadDownloaded
      BY <1>1, <3>5, PreloadDownloadedKeeps
    <3>6. CASE MoreReply
      BY <1>1, <3>6, MoreReplyKeeps
    <3> QED BY <2>3, <3>1, <3>2, <3>3, <3>4, <3>5, <3>6 DEF SourceNext
  <2>4. CASE EngineNext
    <3>1. CASE Undecodable
      BY <1>1, <3>1, UndecodableKeeps
    <3>2. CASE PreloadRefused
      BY <1>1, <3>2, PreloadRefusedKeeps
    <3>3. CASE SoundBegins
      BY <1>1, <3>3, SoundBeginsKeeps
    <3>4. CASE EngineFinished
      BY <1>1, <3>4, EngineFinishedKeeps
    <3>5. CASE EngineAdvanced
      BY <1>1, <3>5, EngineAdvancedKeeps
    <3> QED BY <2>4, <3>1, <3>2, <3>3, <3>4, <3>5 DEF EngineNext
  <2>5. CASE RetryTimer
    BY <1>1, <2>5, RetryTimerKeeps
  <2>6. CASE SetNetworkOnline
    BY <1>1, <2>6, SetNetworkOnlineKeeps
  <2> QED BY <2>1, <2>2, <2>3, <2>4, <2>5, <2>6 DEF Step
<1> QED BY <1>2, <1>3

\* The inductive invariant, between any two actions of the player.
THEOREM PlayerHolds == Spec => []Inv
<1>1. Init => Inv
  BY NewPlayerIs DEF Init, Inv
<1>2. Inv /\ [Next]_<<p, setting>> => Inv'
  BY StepKeeps
<1> QED BY <1>1, <1>2, PTL DEF Spec

\* What sounds is the current track and the playlist marks it, after any calls,
\* failures, retries, parkings and adopted preloads.
THEOREM CurrentSounds == Spec => []SoundIsCurrent
<1>1. Inv => SoundIsCurrent
  BY DEF Inv, PlayerInv, Upright, Core, Sounds, IsMarked, SoundIsCurrent
<1> QED BY <1>1, PlayerHolds, PTL

\* Whatever was edited, shuffled or repeated after a preload was asked for, the
\* preload there is loads the row that next() would play.
THEOREM PreloadComesNext == Spec => []PreloadIsNext
<1>1. Inv => PreloadIsNext
  BY DEF Inv, PlayerInv, Upright, NextLoads, PreloadIsNext
<1> QED BY <1>1, PlayerHolds, PTL

\* When the engine goes on by itself, into whatever was queued, the player knows
\* the stream: the branch of onEngineAdvanced() that gives up never runs.
THEOREM AdvanceIsExpected == Spec => []AdvanceFindsPreload
<1>1. Inv => AdvanceFindsPreload
  <2>1. ASSUME PlayerInv(p), MayAdvance(p.engine)
        PROVE  HasPreload(p) /\ p.preload.feed.stream = p.engine.queued
    <3>1. EngineOk(p.engine) /\ Joints(p)
      BY <2>1 DEF PlayerInv, Upright, Core, Midway, PartsOk
    <3>2. p.engine.queued # 0
      BY <2>1, <3>1 DEF MayAdvance, EngineOk
    <3> QED BY <3>1, <3>2 DEF Joints
  <2> QED BY <2>1 DEF Inv, AdvanceFindsPreload
<1> QED BY <1>1, PlayerHolds, PTL

\* The player never downloads two tracks at a time, and preloads nothing while
\* the current track opens, waits for the network or downloads.
THEOREM DownloadsAreOne == Spec => []OneDownload
<1>1. Inv => OneDownload
  <2>1. ASSUME PlayerInv(p)
        PROVE  OneDownload
    <3>1. PartsOk(p) /\ Behind(p)
      BY <2>1 DEF PlayerInv, Upright, Core, Midway
    <3>2. FeedOk(p.current.feed) /\ FeedOk(p.preload.feed)
      BY <3>1 DEF PartsOk, CurrentOk, PreloadOk
    <3>3. p.preload.feed.loading => HasPreload(p)
      BY <3>1, <3>2 DEF PartsOk, PreloadOk, FeedOk, HasPreload
    <3>4. HasPreload(p) => p.current.feed.downloaded /\ ~ p.opening /\ ~ p.current.waits
      BY <3>1 DEF Behind
    <3>5. p.current.feed.loading => ~ p.current.feed.downloaded
      BY <3>2 DEF FeedOk
    <3> QED BY <3>3, <3>4, <3>5 DEF OneDownload
  <2> QED BY <2>1 DEF Inv
<1> QED BY <1>1, PlayerHolds, PTL

\* Every Started but the current track's was followed by its Finished or Skipped,
\* before the next Started.
THEOREM EventsInPairs == Spec => []EventsPaired
<1>1. Inv => EventsPaired
  BY DEF Inv, PlayerInv, Upright, Core, Midway, Joints, EventsPaired
<1> QED BY <1>1, PlayerHolds, PTL

\* Where the system tells yes or no of the network, a parked track always has
\* what will open it again.  Without the assumption the property fails: the run
\* of the setting that reports "unknown" finds how.
THEOREM WaitsCanEnd ==
  ASSUME NetworkTold
  PROVE  Spec => []WaitCanEnd
<1>1. Inv => WaitCanEnd
  BY DEF Inv, PlayerInv, CanEnd, WaitCanEnd
<1> QED BY <1>1, PlayerHolds, PTL
=============================================================================
