------------------------------- MODULE Player -------------------------------
(***************************************************************************)
(* The player (core/player.cpp): it composes the play queue (Queue), the   *)
(* audio engine (EngineCalls), the sources that open tracks and download   *)
(* them, and the continuations that give more tracks.                      *)
(*                                                                         *)
(* p is the whole player.  Each private method is an operator from a       *)
(* player to a player; each public method, each answer and each signal is  *)
(* an action.  An answer that comes inside the call that asked for it is   *)
(* one that comes right after it.                                          *)
(*                                                                         *)
(* The counters that tell a late answer from the latest are not kept but   *)
(* what they decide: opening, preload.asked and more tell whether a        *)
(* request is out whose answer still counts.  Stream ids are reused once   *)
(* nothing holds them.  There is an output device.                         *)
(***************************************************************************)
EXTENDS Queue, EngineCalls

CONSTANTS
  NoTrack,
  Luck,        \* what the random generator draws
  Settings
\* What is tried, in each of the settings a run explores: sources that
\* setSource() may be given, trackLists for add() and a continuation's reply,
\* itemLists and hints of a jam, answers of the sources (see Opens and Failing),
\* reports of the system on the network, and calls, the public methods that are
\* called.  Bounds: rows of the queue when something is added; most, the calls
\* of one run, 0 for no bound.  calm: after these calls the users are quiet, and
\* whatever waits has to end.

ASSUME NoTrackAssumption == NoTrack \notin Tracks
ASSUME SettingsAssumption ==
  \A s \in Settings :
    /\ s.sources \subseteq Source /\ s.trackLists \subseteq Seq(Tracks)
    /\ s.itemLists \subseteq ItemList /\ s.hints \subseteq Hint
    /\ s.reports \subseteq {"unknown", "yes", "no"} /\ {s.rows, s.most} \subseteq Nat

VARIABLES p, setting
vars == <<p>>

NoFeed == [stream |-> 0, loading |-> FALSE, downloaded |-> FALSE, failure |-> "None",
           arrived |-> FALSE]
\* waits: there is a networkWait, and its resume.  halted: the user's last word on
\* the track was Pause; only a property reads it.
Idle == [track |-> NoTrack, started |-> FALSE, feed |-> NoFeed, waits |-> FALSE,
         resume |-> FALSE, halted |-> FALSE]
NoRequest == [giver |-> "none", seeds |-> 0]
NoPreload == [row |-> 0, track |-> NoTrack, asked |-> FALSE, feed |-> NoFeed]

\* open: tracks whose Started went out and whose end did not.  Only a property
\* reads it.
NewPlayer ==
  [q |-> [EmptyQueue EXCEPT !.luck = Luck], engine |-> StoppedEngine, current |-> Idle,
   preload |-> NoPreload, opening |-> FALSE, more |-> NoRequest, seeded |-> FALSE,
   waiting |-> FALSE, failures |-> 0, retry |-> FALSE, online |-> "unknown",
   layer |-> FALSE, shut |-> FALSE, open |-> <<>>,
   calls |-> 0]

-----------------------------------------------------------------------------
(* Reading a player *)

HasTrack(x) == x.current.track # NoTrack
HasPreload(x) == x.preload.track # NoTrack
TrackAt(q, row) == q.entries[row].track

StateOf(x) ==
  CASE HasTrack(x) /\ x.current.waits -> "WaitingForNetwork"
    [] HasTrack(x) /\ ~ x.current.waits ->
         IF x.engine.state \in {"Playing", "Paused"} THEN x.engine.state ELSE "Loading"
    [] ~ HasTrack(x) /\ x.waiting -> "WaitingForMore"
    [] ~ HasTrack(x) /\ ~ x.waiting ->
         IF x.engine.state # "Stopped" THEN x.engine.state
         ELSE IF x.q.entries = <<>> THEN "Empty" ELSE "Stopped"

\* Some of the current track's bytes are there.
HasBytes(x) == x.current.feed.arrived \/ x.current.feed.downloaded

\* A stream id nothing holds.
FreshStream(x) ==
  Least(1..5 \ {x.engine.current, x.engine.queued, x.current.feed.stream,
                x.preload.feed.stream})

\* stateChanged(Playing) ends a row of failures.
WithEngine(x, e) ==
  LET heard == e.state = "Playing" /\ x.engine.state # "Playing" IN
  [x EXCEPT !.engine = e, !.failures = IF heard THEN 0 ELSE @]

-----------------------------------------------------------------------------
(* The preload *)

\* Mutant: the engine keeps the queued stream.
CancelPreloadKeepsStream(x) == [x EXCEPT !.preload = NoPreload]

CancelPreload(x) ==
  LET stream == x.preload.feed.stream IN
  [x EXCEPT !.preload = NoPreload,
            !.engine = IF stream # 0 /\ stream = @.queued THEN QueueCleared(@) ELSE @]

\* Mutant: it does not wait for the current track's download.
MaybePreloadEarly(x) ==
  LET row == NextRow(x.q) IN
  IF \/ HasPreload(x) \/ x.shut \/ ~ HasTrack(x) \/ ~ x.current.started
     \/ x.engine.state = "Stopped" \/ row = 0
    THEN x
    ELSE [x EXCEPT !.preload = [NoPreload EXCEPT !.row = row, !.track = TrackAt(x.q, row),
                                                 !.asked = TRUE]]

MaybePreload(x) ==
  LET row == NextRow(x.q) IN
  IF \/ HasPreload(x) \/ x.shut \/ ~ HasTrack(x) \/ ~ x.current.started
     \/ ~ x.current.feed.downloaded \/ x.engine.state = "Stopped" \/ row = 0
    THEN x
    ELSE [x EXCEPT !.preload = [NoPreload EXCEPT !.row = row, !.track = TrackAt(x.q, row),
                                                 !.asked = TRUE]]

\* Mutant: a preload is kept whatever comes next.
RefreshPreloadKeeps(x) == IF HasPreload(x) THEN x ELSE MaybePreload(x)

RefreshPreload(x) ==
  LET row == NextRow(x.q) IN
  IF HasPreload(x) /\ row > 0 /\ TrackAt(x.q, row) = x.preload.track
    THEN [x EXCEPT !.preload.row = row]
    ELSE MaybePreload(CancelPreload(x))

\* The queue as it is kept: the revision is taken, generations are not counted.
WithQueue(x, q) == [x EXCEPT !.q = [q EXCEPT !.changed = FALSE, !.generation = 0]]

\* queueEdited(): what a caller does with the queue it edited.
Edited(x, q) == IF q.changed THEN RefreshPreload(WithQueue(x, q)) ELSE WithQueue(x, q)

-----------------------------------------------------------------------------
(* Asking for more *)

\* askedContinuation()
Giver(x) == IF x.q.own THEN "own"
            ELSE IF x.q.withVibe /\ x.q.history THEN "history" ELSE "none"

\* The vibe from history needs a seed: a track that started, or the jam's.
CanAsk(x) == Giver(x) = "own" \/ (Giver(x) = "history" /\ (x.seeded \/ x.q.hint.seeds))

MaybeLoadMore(x) ==
  IF ~ CanAsk(x) \/ x.q.asking \/ x.q.stalled \/ Remaining(x.q) > 2 THEN x
  ELSE [x EXCEPT !.q.asking = TRUE,
                 !.more = [giver |-> Giver(x),
                           seeds |-> IF Giver(x) = "history" /\ x.q.hint.seeds
                                       THEN x.q.hint.version ELSE 0]]

-----------------------------------------------------------------------------
(* The current track *)

\* closeCurrent(): with Started sent, the end is sent.
CloseCurrent(x) ==
  [x EXCEPT !.opening = FALSE, !.retry = FALSE, !.current = Idle,
            !.open = IF x.current.started /\ @ # <<>> THEN Tail(@) ELSE @]

\* Mutant: the engine plays on.
StopAllKeepsEngine(x) == CancelPreload([CloseCurrent(x) EXCEPT !.waiting = FALSE])

\* stop()
StopAll(x) ==
  WithEngine(CancelPreload([CloseCurrent(x) EXCEPT !.waiting = FALSE]), StoppedEngine)

OpenCurrent(x) == [x EXCEPT !.opening = TRUE]

StartCurrent(x) ==
  LET head == HasCurrent(x.q) /\ Current(x.q).part # "Continuation"
      y == [x EXCEPT !.current.started = TRUE, !.open = Append(@, x.current.track),
                     !.seeded = @ \/ head]
  IN MaybePreload(IF Giver(y) = "history" THEN MaybeLoadMore(y) ELSE y)

\* x with the row selected in its queue.
Selected(x, row) == WithQueue(x, Select(x.q, row))
TheCurrent(x, feed) == [Idle EXCEPT !.track = Current(x.q).track, !.feed = feed]

\* Its row is selected.
PreloadIsCurrent(x) ==
  StartCurrent(MaybeLoadMore(
    [x EXCEPT !.preload = NoPreload, !.opening = FALSE, !.waiting = FALSE,
              !.current = TheCurrent(x, x.preload.feed)]))

AdoptPreload(x, row) == PreloadIsCurrent(Selected(x, row))

\* The preload is the selected row's, and the engine has it.
PreloadReady(x) ==
  /\ x.preload.feed.stream # 0 /\ x.preload.feed.stream = x.engine.queued
  /\ x.preload.track = Current(x.q).track

OpenOn(x, stream) ==
  OpenCurrent(MaybeLoadMore(
    [x EXCEPT !.engine = Begun(@, stream),
              !.current = TheCurrent(x, [NoFeed EXCEPT !.stream = stream])]))
OpenFresh(x) == OpenOn(x, FreshStream(x))

PlaySelected(x) ==
  IF PreloadReady(x) THEN AdoptPreload(WithEngine(x, QueuedPlaysNow(x.engine)), x.q.playing)
                     ELSE OpenFresh(CancelPreload(x))

\* playIndex()
PlayRow(x, row) ==
  IF x.shut \/ row \notin Rows(x.q) THEN x
  ELSE PlaySelected(Selected(CloseCurrent([x EXCEPT !.waiting = FALSE]), row))

\* What advance() goes on to.
FollowingRow(x) == IF HasPreload(x) THEN x.preload.row ELSE NextRow(x.q)

\* Its stopped player asks, and waits when something could be asked.
WaitForMore(x, byUser) == MaybeLoadMore([x EXCEPT !.waiting = TRUE, !.q.stalled = @ /\ ~ byUser])
WaitIfAsked(x) == [x EXCEPT !.waiting = x.q.asking]

\* Mutant: it waits though nothing could be asked.
GoOnWaits(x, byUser) ==
  IF x.q.entries = <<>> THEN x
  ELSE IF HasPreload(x) \/ NextRow(x.q) > 0 THEN PlayRow(x, FollowingRow(x))
  ELSE IF Giver(x) = "none" THEN StopAll(x)
  ELSE WaitForMore(StopAll(x), byUser)

\* advance()
GoOn(x, byUser) ==
  IF x.q.entries = <<>> THEN x
  ELSE IF HasPreload(x) \/ NextRow(x.q) > 0 THEN PlayRow(x, FollowingRow(x))
  ELSE IF Giver(x) = "none" THEN StopAll(x)
  ELSE WaitIfAsked(WaitForMore(StopAll(x), byUser))

-----------------------------------------------------------------------------
(* Failures *)

\* x parked on a new stream, with the engine paused: the engine's state before
\* tells whether the track goes on after the wait.
ParkedOn(x, stream) ==
  [x EXCEPT !.engine = PausedEngine(Begun(@, stream)),
            !.current.feed = [NoFeed EXCEPT !.stream = stream],
            !.current.waits = TRUE,
            !.current.resume = IF x.current.waits THEN @ ELSE x.engine.state # "Paused"]
Parked(x) == ParkedOn(x, FreshStream(x))

\* Mutant: the timer is started when the system says that there is a network.
WaitForNetworkUntold(x) ==
  IF ~ HasTrack(x) THEN StopAll(x)
  ELSE [Parked(CancelPreload([x EXCEPT !.opening = FALSE])) EXCEPT !.retry = x.online = "yes"]

WaitForNetwork(x) ==
  IF ~ HasTrack(x) THEN StopAll(x)
  ELSE [Parked(CancelPreload([x EXCEPT !.opening = FALSE])) EXCEPT !.retry = x.online # "no"]

\* DecideOnFailure(), kMaxTrackFailuresInRow = 3
Decide(x, kind) ==
  CASE kind = "Network" -> "WaitForNetwork"
    [] kind = "Auth" -> "Stop"
    [] kind = "Track" -> IF x.failures + 1 >= 3 THEN "StopAfterLimit"
                         ELSE IF NextRow(x.q) > 0 \/ Giver(x) # "none" THEN "Next" ELSE "Stop"

\* Mutant: a track that is skipped is not counted.
FailureUncounted(x, kind, decision) ==
  CASE decision = "WaitForNetwork" -> WaitForNetwork(x)
    [] decision = "Next" -> GoOn(x, FALSE)
    [] OTHER -> StopAll([x EXCEPT !.failures = 0])

FailureHandled(x, kind, decision) ==
  CASE decision = "WaitForNetwork" -> WaitForNetwork(x)
    [] decision = "Next" -> GoOn([x EXCEPT !.failures = @ + 1], FALSE)
    [] decision = "Stop" ->
         StopAll([x EXCEPT !.failures = IF kind = "Auth" THEN @ ELSE @ + 1])
    [] decision = "StopAfterLimit" -> StopAll([x EXCEPT !.failures = 0])
HandleFailure(x, kind) == FailureHandled(x, kind, Decide(x, kind))

RetryAfterNetwork(x) ==
  IF HasTrack(x) /\ x.current.waits THEN OpenCurrent([x EXCEPT !.retry = FALSE]) ELSE x

-----------------------------------------------------------------------------
(* Answers *)

\* A source opens a track as a file or a download, or fails in one of three
\* ways; a download ends well or fails in one of them.
Opens == {"File", "Download"}
Failing == {"Network", "Auth", "Track"}

\* Mutant: the download is connected but not started.
FedNothing(x, answer) == [x EXCEPT !.current.feed.downloaded = answer = "File"]

\* A file is there at once, a download is started.
Fed(x, answer) ==
  LET here == x.current.feed.stream = x.engine.current /\ x.engine.queued = 0 IN
  IF answer = "File" THEN [x EXCEPT !.current.feed.downloaded = TRUE,
                                    !.engine = IF here THEN Attached(@) ELSE @]
                     ELSE [x EXCEPT !.current.feed.loading = TRUE]

\* Mutant: a track that goes on after a wait starts again.
StartedAgain(x) == StartCurrent(x)
StartedOnce(x) == IF x.current.started THEN x ELSE StartCurrent(x)

OpenAnswered(x, answer, audio) ==
  LET waited == x.current.waits /\ x.current.resume
      y == StartedOnce(Fed([x EXCEPT !.opening = FALSE, !.current.waits = FALSE,
                                     !.current.resume = FALSE], answer))
  IN IF answer \in Failing THEN HandleFailure([x EXCEPT !.opening = FALSE], answer)
     ELSE IF waited THEN WithEngine(y, Resumed(y.engine, audio)) ELSE y

OpenReply ==
  /\ p.opening
  /\ \E answer \in setting.answers : \E audio \in {FALSE, answer = "File"} :
       p' = OpenAnswered(p, answer, audio)

PreloadReply ==
  /\ HasPreload(p) /\ p.preload.asked
  /\ \E answer \in setting.answers :
       LET stream == FreshStream(p) IN
       p' = IF answer \in Failing \/ p.engine.current = 0
              THEN [p EXCEPT !.preload = NoPreload]
              ELSE [p EXCEPT !.engine = WithQueued(@, stream, answer = "File"),
                             !.preload.asked = FALSE,
                             !.preload.feed = [NoFeed EXCEPT !.stream = stream,
                                                 !.loading = answer = "Download",
                                                 !.downloaded = answer = "File"]]

\* TrackDownload::received
Received ==
  \/ /\ p.current.feed.loading /\ ~ p.current.feed.arrived
     /\ p' = [p EXCEPT !.current.feed.arrived = TRUE]
  \/ /\ p.preload.feed.loading /\ ~ p.preload.feed.arrived
     /\ p' = [p EXCEPT !.preload.feed.arrived = TRUE]

CurrentDownloaded ==
  /\ p.current.feed.loading
  /\ LET x == [p EXCEPT !.engine = DataEnded(@, p.current.feed.stream),
                        !.current.feed.loading = FALSE] IN
     \/ p' = MaybePreload([x EXCEPT !.current.feed.downloaded = TRUE])
     \/ \E kind \in Failing \cap setting.answers :
          p' = IF p.current.feed.arrived THEN [x EXCEPT !.current.feed.failure = kind]
                                         ELSE HandleFailure(x, kind)

PreloadDownloaded ==
  /\ p.preload.feed.loading
  /\ LET x == [p EXCEPT !.engine = DataEnded(@, p.preload.feed.stream),
                        !.preload.feed.loading = FALSE] IN
     \/ p' = [x EXCEPT !.preload.feed.downloaded = TRUE]
     \/ Failing \cap setting.answers # {} /\ p' = CancelPreload(x)

StillAsked(x) == [x EXCEPT !.waiting = @ /\ x.q.asking]
PlayNextIf(waited, x) ==
  IF waited /\ NextRow(x.q) > 0 THEN PlayRow(x, NextRow(x.q)) ELSE x

\* continuationReplied()
MoreReply ==
  /\ p.q.asking
  /\ LET r == p.more
        x == [p EXCEPT !.more = NoRequest, !.q.asking = FALSE]
        first == r.giver = "history" /\ ~ x.q.historyGave
        reply(q) == Edited([x EXCEPT !.waiting = FALSE],
                           [q EXCEPT !.stalled = @ \/ (first /\ ~ q.changed)])
    IN IF r.giver = "history" /\ FollowsSeeds /\ IsStale(x.q, r.seeds)
         THEN p' = StillAsked(MaybeLoadMore(x))
         ELSE \E tracks \in setting.trackLists \cup {<<>>} :
                /\ Len(x.q.entries) + Len(tracks) <= setting.rows
                /\ p' = PlayNextIf(x.waiting,
                                   reply(AppendContinuation(x.q, tracks, r.giver, r.seeds)))

-----------------------------------------------------------------------------
(* Timers and signals *)

RetryTimer == p.retry /\ p' = RetryAfterNetwork([p EXCEPT !.retry = FALSE])

SetNetworkOnline ==
  \E online \in setting.reports \ {p.online} :
    LET x == [p EXCEPT !.online = online]
    IN p' = IF ~ (HasTrack(x) /\ x.current.waits) THEN x
            ELSE CASE online = "yes" -> RetryAfterNetwork(x)
                   [] online = "no" -> [x EXCEPT !.retry = FALSE]
                   [] online = "unknown" -> x

\* The poll timer runs while the engine is not stopped; poll() finds one of:
Undecodable ==
  /\ MayBeUndecodable(p.engine) /\ HasBytes(p)
  /\ LET x == WithEngine(p, StoppedEngine)
         kind == IF x.current.feed.failure = "Network" THEN "Network" ELSE "Track"
     IN p' = IF HasTrack(p) /\ p.current.feed.stream = p.engine.current
               THEN HandleFailure(x, kind) ELSE x

PreloadRefused == MayRefuseQueued(p.engine) /\ p' = WithEngine(p, QueuedRefused(p.engine))

SoundBegins == MayBeHeard(p.engine) /\ HasBytes(p) /\ p' = WithEngine(p, Heard(p.engine))

EngineFinished ==
  /\ MayFinish(p.engine)
  /\ LET x == WithEngine(p, Finished(p.engine))
         closed == CloseCurrent(x)
     IN p' = IF x.current.feed.failure = "Network" THEN HandleFailure(x, "Network")
             ELSE IF x.q.playing > 0 /\ NextRow(x.q) = x.q.playing
               THEN PlayRow(closed, x.q.playing) ELSE GoOn(closed, FALSE)

\* The preload the engine went on into.
Expected(x) ==
  HasPreload(x) /\ x.preload.feed.stream = x.engine.current /\ x.preload.row \in Rows(x.q)

EngineAdvanced ==
  /\ MayAdvance(p.engine)
  /\ LET x == CloseCurrent(WithEngine(p, Advanced(p.engine))) IN
     p' = IF Expected(x) THEN AdoptPreload(x, x.preload.row)
          ELSE IF NextRow(x.q) > 0 THEN PlayRow(x, NextRow(x.q)) ELSE StopAll(x)


-----------------------------------------------------------------------------
(* Calls *)

\* Of calls, only the bound reads.
May(call) == call \in setting.calls /\ (setting.most = 0 \/ p.calls < setting.most)
ByUser(x) == [x EXCEPT !.calls = IF setting.most = 0 THEN @ ELSE @ + 1]

\* takeNewBase(): "continue with a vibe" is on by default.
TakeNewBase(q) ==
  [q EXCEPT !.withVibe = q.historyAllowed, !.history = @ \/ (~ q.own /\ q.historyAllowed)]

WithBase(x, q) ==
  [WithQueue(x, TakeNewBase(q)) EXCEPT !.waiting = FALSE, !.more = NoRequest, !.seeded = FALSE]

SourceSet(x, source, autoplay) ==
  LET y == [WithBase(StopAll(x), Replace(x.q, source)) EXCEPT !.failures = 0] IN
  IF x.layer THEN RefreshPreload(WithBase(x, ReplaceBase(x.q, source)))
  ELSE IF autoplay THEN PlayRow(y, y.q.playing) ELSE y

\* setSource(), and clear() with no tracks
SetSource ==
  /\ May("source")
  /\ \E source \in setting.sources, autoplay \in BOOLEAN :
       p' = SourceSet(ByUser(p), source, autoplay)

\* add(): one of the tracks at least is available.
AddTracks ==
  /\ May("add")
  /\ \E tracks \in setting.trackLists, placement \in {"Next", "End"} :
       /\ Len(p.q.entries) + Len(tracks) <= setting.rows
       /\ \E i \in DOMAIN tracks : tracks[i] \notin Unavailable
       /\ p' = IF p.q.entries = <<>>
                 THEN SourceSet(ByUser(p), [NoSource EXCEPT !.head = tracks], FALSE)
                 ELSE PlayNextIf(p.waiting, Edited(ByUser(p), Add(p.q, tracks, placement)))

\* removeRows(): under a layer the server removes its waiting items.
RemoveTracks ==
  /\ May("remove")
  /\ \E given \in SUBSET Rows(p.q) :
       LET x == ByUser(p)
           rows == {i \in given : ~ (x.layer /\ IsWaitingItem(x.q.entries[i]))}
           y == WithQueue(x, RemoveRows(x.q, rows))
       IN p' = RefreshPreload(IF x.q.playing \in rows THEN StopAll(y) ELSE y)

\* setLayer() of JamMode::start() and end()
SetLayer ==
  /\ May("layer")
  /\ LET x == [ByUser(p) EXCEPT !.layer = ~ @] IN
     p' = IF p.layer THEN Edited(x, EndLayer(x.q)) ELSE x

\* setLayerItems() of JamMode::setQueue(), which plays at once when nothing else
\* is there to play.
NothingToPlay(x) ==
  StateOf(x) \in {"Empty", "WaitingForMore"} \/ (StateOf(x) = "Stopped" /\ NextRow(x.q) = 0)
LoadMoreUnlessStopped(x) ==
  IF StateOf(x) \in {"Empty", "Stopped"} THEN x ELSE MaybeLoadMore(x)
GoOnIf(idle, x) == IF idle /\ NextRow(x.q) > 0 THEN GoOn(x, TRUE) ELSE x

SetLayerItems ==
  /\ May("items") /\ p.layer
  /\ \E items \in setting.itemLists, hint \in setting.hints :
       /\ hint.version >= p.q.hint.version
       /\ p' = GoOnIf(NothingToPlay(p),
                      LoadMoreUnlessStopped(Edited(ByUser(p), SetItems(p.q, items, hint))))

\* JamMode::skip() of the item that plays
SkipItem ==
  /\ May("items") /\ p.layer /\ HasCurrent(p.q)
  /\ Current(p.q).part = "Item" /\ Current(p.q).item # NoItem
  /\ p' = GoOn(ByUser(p), TRUE)

PlayRowOfUser == May("jump") /\ \E row \in Rows(p.q) : p' = PlayRow(ByUser(p), row)

Play ==
  /\ May("play")
  /\ LET x == [ByUser(p) EXCEPT !.current.halted = FALSE] IN
     IF HasTrack(x) /\ x.current.waits
       THEN p' = RetryAfterNetwork([x EXCEPT !.current.resume = TRUE])
       ELSE CASE x.engine.state = "Paused" ->
                   \E audio \in {FALSE, HasBytes(x)} :
                     p' = WithEngine(x, Resumed(x.engine, audio))
              [] x.engine.state = "Playing" -> p' = PlayRow(x, x.q.playing)
              [] x.engine.state = "Buffering" -> p' = x
              [] x.engine.state = "Stopped" -> p' = PlayRow(x, FirstToPlay(x.q))

Pause ==
  /\ May("pause")
  /\ LET x == ByUser(p) IN
     IF HasTrack(x) /\ x.current.waits
       THEN p' = [x EXCEPT !.current.resume = ~ @, !.current.halted = x.current.resume]
     ELSE IF x.engine.state = "Paused"
       THEN \E audio \in {FALSE, HasBytes(x)} :
              p' = [WithEngine(x, Resumed(x.engine, audio)) EXCEPT !.current.halted = FALSE]
     ELSE LET e == PausedEngine(x.engine)
          IN p' = [WithEngine(x, e) EXCEPT !.current.halted = e.state = "Paused"]

Stop == May("stop") /\ p' = StopAll(ByUser(p))
SkipTrack == May("next") /\ p' = GoOn(ByUser(p), TRUE)   \* next()

SoughtTo(x) == IF x.engine.current # 0 THEN [x EXCEPT !.engine = Sought(@)] ELSE x
Seek == May("seek") /\ p' = SoughtTo(ByUser(p))

\* previous(): a jam's rules, and three seconds into a track, make it restart it.
Previous ==
  /\ May("previous") /\ p.q.entries # <<>>
  /\ LET x == ByUser(p)
         restarted == IF x.engine.current # 0 THEN SoughtTo(x) ELSE PlayRow(x, x.q.playing)
     IN \/ x.layer /\ p' = restarted
        \/ ~ x.layer /\ x.engine.state # "Stopped" /\ p' = restarted
        \/ ~ x.layer /\ p' = PlayRow(WithQueue(x, StepBack(x.q)), PreviousRow(x.q))

\* setShuffle(), setShuffleAlgorithm(), setRepeat()
ChangeModes ==
  LET x == ByUser(p) IN
  \/ /\ May("shuffle")
     /\ \/ p' = RefreshPreload(WithQueue(x, SetShuffle(x.q, ~ x.q.shuffle)))
        \/ \E a \in {"random", "shuffled"} \ {x.q.algorithm} :
             LET y == WithQueue(x, SetShuffleAlgorithm(x.q, a))
             IN p' = IF ShuffleActive(y.q) THEN RefreshPreload(y) ELSE y
  \/ May("repeat") /\ p' = RefreshPreload(WithQueue(x, SetRepeat(x.q, ~ x.q.repeat)))

SetContinueWithVibe ==
  /\ May("vibe") /\ ~ p.q.own /\ p.q.historyAllowed
  /\ LET x == ByUser(p) IN
     p' = IF x.q.withVibe THEN [x EXCEPT !.q.withVibe = FALSE]
          ELSE MaybeLoadMore([x EXCEPT !.q.withVibe = TRUE, !.q.stalled = FALSE])

\* sourceFilesChanged(): of the source the preload is from, or of any.
FilesChanged == May("files") /\ p' = MaybePreload(CancelPreload(ByUser(p)))

ShutDown == May("shutdown") /\ p' = [StopAll(ByUser(p)) EXCEPT !.shut = TRUE]

-----------------------------------------------------------------------------
(* The specification *)

Init == p = NewPlayer /\ setting \in Settings

UserNext ==
  \/ SetSource \/ AddTracks \/ RemoveTracks \/ SetLayer \/ SetLayerItems \/ SkipItem
  \/ PlayRowOfUser \/ Play \/ Pause \/ Stop \/ SkipTrack \/ Seek \/ Previous
  \/ ChangeModes \/ SetContinueWithVibe \/ FilesChanged \/ ShutDown
SourceNext ==
  OpenReply \/ PreloadReply \/ Received \/ CurrentDownloaded \/ PreloadDownloaded \/ MoreReply
EngineNext ==
  Undecodable \/ PreloadRefused \/ SoundBegins \/ EngineFinished \/ EngineAdvanced

Step == UserNext \/ SourceNext \/ EngineNext \/ RetryTimer \/ SetNetworkOnline
Next == Step /\ UNCHANGED setting

Spec == Init /\ [][Next]_<<p, setting>>

\* Sources answer, downloads end, the timer fires, and poll() finds out what
\* there is to find.  Of the settings without an end of calls nothing is asked.
\* This is weak fairness with the guards written out, since TLC is slow to find
\* out whether actions as deep as these are enabled.
Idles(guard) == ~ (setting.calm /\ guard)
FairSpec ==
  /\ Spec
  /\ []<>Idles(p.opening) \/ []<><<OpenReply>>_vars
  /\ []<>Idles(p.current.feed.loading) \/ []<><<CurrentDownloaded>>_vars
  /\ []<>Idles(p.q.asking) \/ []<><<MoreReply>>_vars
  /\ []<>Idles(p.retry) \/ []<><<RetryTimer>>_vars
  /\ \/ []<>Idles(MayBeHeard(p.engine) /\ HasBytes(p))
     \/ []<><<SoundBegins \/ Undecodable>>_vars

-----------------------------------------------------------------------------
(* Properties *)

\* What sounds is the current track, and the current track is the entry the
\* playlist marks: the engine has a stream exactly while a track is open, and
\* that stream is the track's, through failures, parking and adopted preloads.
SoundIsCurrent ==
  /\ HasTrack(p) <=> p.engine.current # 0
  /\ HasTrack(p) => /\ p.current.feed.stream = p.engine.current
                    /\ HasCurrent(p.q) /\ Current(p.q).track = p.current.track

\* The gapless preload is what comes next, whatever was edited since it was
\* asked for: the same row and the same track as the queue's next().
PreloadIsNext ==
  HasPreload(p) => /\ p.preload.row = NextRow(p.q)
                   /\ p.preload.track = TrackAt(p.q, p.preload.row)

\* "A cancelled preload is always cleared from the engine, so this branch is
\* not expected to run" (src/core/README.md:325): whenever the engine can go on
\* into a queued stream, it is the preload's.
AdvanceFindsPreload == MayAdvance(p.engine) => HasPreload(p) /\ p.preload.feed.stream = p.engine.queued

\* "At most one track download is in flight" (src/core/README.md:511), and
\* nothing is preloaded for a track that is still opening or parked.
OneDownload ==
  /\ ~ (p.current.feed.loading /\ p.preload.feed.loading)
  /\ HasPreload(p) => ~ p.opening /\ ~ p.current.waits /\ p.current.feed.downloaded

\* "Every track that opens gets Started, followed by exactly one Finished or
\* Skipped", "always sent before the Started of the next track"
\* (src/core/README.md:587): the only Started without an end is the current one's.
EventsPaired == p.open = IF p.current.started THEN <<p.current.track>> ELSE <<>>

\* A track parked for the network is opened again some time: the timer runs, a
\* request is out, or the system said that there is no network, and will say
\* when there is one.  "nullopt when it cannot tell, and then only the retry
\* timer ends a wait for the network" (src/core/player.h:111).
WaitCanEnd == p.current.waits => p.retry \/ p.opening \/ p.online = "no"

\* After the wait for the network a track "plays on if the track was playing and
\* the user has not paused since" (src/core/README.md:547): not when the user's
\* last word on it was Pause.
PauseOutlastsWait == p.current.halted /\ p.current.waits => ~ p.current.resume

\* Left alone the player does not load for ever: the track sounds, waits for the
\* network or for more, or the player stops, however many tracks fail; nor does
\* it wait for more for ever.
WaitsEnd ==
  /\ StateOf(p) = "Loading" /\ setting.calm ~> StateOf(p) # "Loading"
  /\ p.waiting /\ setting.calm ~> ~ p.waiting
=============================================================================
