# A TLA+ model of QiYaa

QiYaa is a desktop music player in the style of Winamp (C++20, Qt 6). It plays Yandex Music,
Spotify and local files, keeps a queue that can go on for ever, lets guests of a "jam" add tracks,
and shows lyrics and visualisations. This directory holds TLA+ modules of its parts, the TLC
configurations that check them and the theorems TLAPS proves about them.

Paths below are relative to the repository. `foo.cpp:12` is a line of the source at the commit the
modules were written from; `PROJECT.json` maps every definition to its lines.

## 1. The system

### Threads

Everything runs on the UI thread, with Qt's event loop, except

- the decoder thread (`src/audio/decoder.cpp`),
- the audio device's thread, which calls `AudioEngine::Implementation::play`,
- the scan of a local folder (`src/sources/local/scan.cpp`, a thread pool job),
- the handlers of a crash (`src/telemetry/crash_handler.cpp`).

What is concurrent on the UI thread are the callbacks: a network reply, a timer or a signal comes
at any moment between two events, and what was asked for may no longer be wanted when the answer
comes.

### Components

| Component | State | Operations | Talks to | Hard behaviour |
|---|---|---|---|---|
| Audio engine (`src/audio`) | current and queued stream, generation, the block queue, the decoder's sources | beginStream, queueStream, clearQueued, playQueuedNow, seek, pause, resume, stop, poll; decoder steps; the callback | Player (signals) | three threads without a lock, gapless transition, seek during a transition |
| Block queue, playback state, equaliser, visualisation tap (`src/audio`) | rings and seqlocks of atomics | push/pop, publish/read | the three audio threads | tearing, overrun, wrap-around |
| Stream buffer, file source (`src/audio`) | bytes so far, complete | append, finish, read | Player, decoder | underrun |
| Play queue (`src/core/queue.cpp`, `track_navigator.cpp`) | entries in two layers (head, continuation), marks, shuffle order, load generation | replace, add, remove, setLayer, next, previous, continuation replies | Player, jam mode | late replies, marks after removals |
| Player (`src/core/player.cpp`) | engine handle, feed, preload, retry timer, failures | open, play, pause, next, failure, preload, network loss | engine, queue, sources, jam | late answers, retries, the preload racing the end |
| Failure policy (`src/core/failure_policy.cpp`) | none | DecideOnFailure | Player | limit |
| Jam (`src/jam`) | client connection, outbox, session, stored ticket, versions | connect, resume, create, publish, end | jam server, Player | reconnect, lost or repeated messages, restart |
| Jam mode (`src/core/jam_mode.cpp`) | the jam's items in the queue | join, leave, items | Player, host session | two owners of one queue |
| Spotify access (`src/spotify/client`, `protocol`) | access point, keep-alive, audio keys, token, downloads | connect, ask a key, fetch ranges, log in | Spotify servers, sources | timeouts, one retry, reconnect |
| Lyrics (`src/core/lyrics_finder.cpp`, `lyrics.cpp`, `src/lrclib`) | request number, answers by rank, timers | ask, answer, time out | sources, lyrics window | late answers, rank order |
| Covers (`src/core/cover_cache.cpp`) | memory LRU, pending downloads | get | windows, media controls | one request per url |
| Yandex client (`src/yandex`) | token, account, liked ids | requests, login by device code | sources | late answers after a logout |
| Sources (`src/sources`) | vibes (waves), autoplay context, local catalog | more, trackEvent, scan | Player, clients | two requests to one wave |
| Telemetry (`src/telemetry`, `src/app/telemetry_bridge.cpp`) | event queue and session on disk, batch in flight | record, send, flush, recover | telemetry server | crash between two writes, back-off |
| Media controls (`src/integrations`) | what was last published | MPRIS, SMTC | desktop | none of its own |
| UI, skins, visualisation (`src/ui`, `src/skins`, `src/vis`) | windows, regions, docking | painting, docking | Player | docking geometry |
| Application (`src/app`) | settings, windows, account | start, save, login | all | order of shutdown |

Vendored code (`contrib/`: miniaudio, fdk-aac, stb_vorbis, BearSSL and others) is not modelled; the
decoders of miniaudio appear in `AudioEngine` as the frames a stream yields. It is nearly all of the
repository's lines, so the share of all lines that `PROJECT.json` maps says little about the program.

### What makes each part correct

- Audio engine: audio of an earlier seek is never heard again; one stream follows the other without
  a gap, a repetition or a wrong stream; the end is reported once, and only where the sound is over: at
  the last frame of a complete stream or where the decoder met damage, never at an underrun.
- Channels: a reader sees a value some writer wrote, whole, and nothing is overwritten unread.
- Play queue: the playing entry survives edits, marks stay in bounds, a late reply changes nothing.
- Player: a late answer never starts a track, failures are bounded, what is preloaded is what
  `next()` would play, each started track ends exactly once.
- Jam: what is on disk is the session in memory, an item that started is in the outbox until it was sent, a
  jam that goes on is connected again or learns that it is over, unless the user must update.
- Spotify: every request is answered once, with its own key or a failure, also when the connection
  goes; a lost connection is made again.
- Lyrics: the answer shown belongs to the track shown; the best rank wins; asking ends.
- Telemetry: an event stays on disk until the server took it, the queue is bounded, how a run ended is
  told as it was.

## 2. Modules

| Module | What it is | Code |
|---|---|---|
| `AudioEngine`, `AudioEngineProofs` | the three audio threads; theorems | `audio_engine`, `decoder`, `blocks.h` |
| `EngineCalls` | the engine as its caller knows it, as operators | `audio_engine.h` |
| `EngineContract`, `EngineContractProofs` | the abstract specification made of them; what holds for every caller | `audio_engine.h` |
| `AudioEngineRefinement`, `MCAudioEngine` | `AudioEngine` implements `EngineContract`; `AudioEngineProofs` proves it; values for TLC | |
| `EqualizerSlots` | the triple buffer of coefficients | `equalizer.cpp` |
| `PlaybackSeqlock` | the sequence lock of the playback state | `blocks.h` |
| `BlockRing`, `BlockSequence` | the ring of blocks; the bounded sequence it implements | `blocks.h`, `decoder.cpp` |
| `TrackNavigator` | the three orders of a queue's head, as operators | `track_navigator.cpp` |
| `Queue`, `QueueProofs` | the play queue, as operators; what each of them keeps | `queue.cpp` |
| `PlayQueue`, `PlayQueueProofs`, `MCPlayQueue` | the queue under any sequence of calls; theorems; values for TLC | `queue.cpp`, `player.cpp` |
| `Player`, `PlayerProofs`, `MCPlayer` | the player over the queue and the engine's contract, with its sources, its continuations and a jam's layer; theorems; values for TLC | `player.cpp`, `jam_mode.cpp`, `failure_policy.cpp` |
| `JamHost`, `JamHostProofs` | a host's jam over its connection, the stored session and a server | `host_session.cpp`, `client.cpp`, `session_store.cpp` |
| `SpotifySession` | a Spotify connection and the keys asked for over it | `session.cpp`, `access_point.cpp` |
| `Reporter` | usage events, their files and the runs that share them | `reporter.cpp` |
| `LyricsFinder`, `LyricsFinderProofs` | which text the lyrics view shows; theorems | `lyrics_finder.cpp` |
| `Parts`, `PartsProofs` | the session, the reporter and the three channels, one at a time, for TLC; theorems about each | |

    TrackNavigator --- Queue ---+--- PlayQueue --- MCPlayQueue
                                |
    EngineCalls ----------------+--- Player --- MCPlayer
         |
    EngineContract <-- AudioEngineRefinement --- AudioEngine
         |                      |     |
    EngineContractProofs        |   MCAudioEngine
                           AudioEngineProofs

    BlockSequence <-- BlockRing --+
    EqualizerSlots ---------------+
    PlaybackSeqlock --------------+--- Parts          JamHost          LyricsFinder
    SpotifySession ---------------+
    Reporter ---------------------+

`TrackNavigator`, `Queue` and `EngineCalls` have no variables. A public or private method is an
operator from a record to a record there, so that the module above may compose them the way the
code's methods call each other, and an action is always a whole handler. `Player`, `JamHost`,
`SpotifySession`, `Reporter` and `LyricsFinder` are written in the same way.

### AudioEngine

State and code: `state`, `currentId`, `queuedId`, `shownFrame`, `finishReported` are members of
`AudioEngine` and its `Implementation`; `generation` and `allowedNext` the atomics; `commands` and
`events` the two lists under the decoder's mutex; `dec*`, `marker` the decoder's members; `blocks`
the queue between decoder and callback; `playing`, `frontOffset` (with `frontSeen` for
`frontIndex`) the callback's; `published` what `PlaybackState` holds; `heard` is the range of frames
last copied to the device, which only the properties read.

Each public method is one action. `poll()` is two, `PollRead` and one of the five outcomes, because
the other threads move between its read of the playback state and its read of the events. The
decoder's loop is one action per applied command and one per `step()`. The callback is one action
per block, so the other threads move inside it, too. `ma_device_stop()` returns only when the
callback is outside `play()`: `DeviceCanStop`.

Audio is counted in frames. A stream is the number of its frames that have arrived and whether it
is complete. What a decoder cannot make sound of is a property of the data, so two constants say it.
`Undecodable` are the streams no decoder opens: `Open` fails on what has arrived of them, whether more is to
come or not (`decoder.cpp:311`), and so it does on an empty complete one. `Faults` are pairs of a stream and a
frame at which a read or a seek *may* fail, while the download runs or after it: a decode error
(`decoder.cpp:406`), a length the header tells, a frame that cannot be sought to (`decoder.cpp:332`). `Gives` is
what one read may give: a whole block, or the frames up to a fault or to the last one. A source is at its end
(`atEnd`) after such a read or seek, as in the code, and then what is queued is chained. `SoundOver` is what the
properties mean by the end of a stream: the last frame of a complete one, or a fault.

The *queued* stream is opened only when it is complete (`decoder.cpp:412`; nothing else opens it while it is
queued), so a stream refused there, or advanced to, is always complete, although the current one need not be.

Left out: samples, gain and equaliser, sample rates (a format is known or not), the wrap-around of
the 32-bit generation, devices that do not open.

### EngineContract

The engine seen from the UI thread: state, current and queued stream, which of the two are complete (`full`),
whether the end was reported (`finished`), whether a stream queued behind the current one was given
up (`givenUp`). `Damaged` are the streams whose sound may be over, or not begin, before their bytes are complete:
for the others `poll()` reports an end, a failed open or an advance only of a complete current stream
(`MayHaveEnded`). The refinement takes `Undecodable` and the streams of `Faults` for it. To `Player` every stream is one. Each public method is an operator of `EngineCalls`; what `poll()` may find is one
with its condition. `AudioEngineRefinement` maps `AudioEngine` to it (`Seen`): decoder and callback
steps become stutters, `poll()` one of the contract's polls. `Player` uses the same operators, so what
is checked of the player rests on what the engine's threads were shown to do.

`givenUp` is there because of a case the contract first did not have: when the callback went on into
a stream that was cleared, the end is reported although the engine is `Paused` or `Buffering`.

### The channels below AudioEngine

`AudioEngine` passes whole values between its threads. Three modules show that it may, one access to
an atomic at a time:

- `EqualizerSlots`: `slots` are the three sets of coefficients, each of two words that are written and
  read one after the other; `middle` is the atomic with the dirty bit; `back` and `front` are the
  slots of the two threads. `HandOver` and `TakeMiddle` are the two exchanges, `SetSampleRate` is
  what the engine calls once before its device runs.
- `PlaybackSeqlock`: `publish()` is `StoreOdd`, a `StoreField` for each field and `StoreEven`; `read()` is
  `LoadBefore`, the `LoadField`s and `LoadAfter`, which starts over unless `Unchanged`. `since` and
  `result` are what the property needs of a read.
- `BlockRing`: `head` and `tail` are the two indices, `room` what the decoder saw when it asked for
  `back()`, `filled` the block it writes in place. It implements `BlockSequence`, a bounded sequence:
  pushing and popping are its only steps, all others stutter.

The atomics in the code are acquire, release or sequentially consistent where these modules take
turns; weaker orders than that are not modelled.

### TrackNavigator, Queue and PlayQueue

`q` has the members of `Queue`: the entries with part, giver, item and pending bit, the cursor
`playing`, the marks `headMark`, `contMark`, `headStart`, the flags and the navigator. Rows and
ordinals count from 1; 0 is the code's -1 or an empty optional. Random draws come from a permutation
`luck`, chosen at the start: shuffling a head takes the ordinals in its order. `PlayQueue` calls the
operators in any order its caller could: an item list may be one of a jam's, a reply may be one of
an outdated session.

A model that is checked for several purposes at once has a rigid variable `setting`, a record that
says which inputs are tried. `Settings` is the set of them, so that one run explores each by itself.

### Player

`p` is the whole player: the queue, the engine, `current` with its feed and its network wait,
`preload`, and the flags. Where the code keeps a counter to tell late answers from the latest
(`generation`, `continuationRequest`), the model keeps what that decides: whether a request is out
whose answer still counts. A late answer changes nothing in the code, and so it is no step here.
Stream ids are reused once nothing holds them. `open`, `calls` and `halted` are read by properties and
bounds only.

An answer that the code gets inside the call that asked for it is one that comes right after it.
A download is opened, has some bytes, and ends or fails; a file is there at once. There is an output
device. A continuation is `own` (the source's) or `history` (the vibe from history, which can be
asked when it has a seed: `HistoryWave::more`). A jam's layer is on or off; `SetLayerItems` is
`JamMode::setQueue`, and hints of a jam always have seeds.

Left out: titles, play positions and seconds, play reports, the rules for feedback, the ticket that
a caller keeps while a source loads.

### JamHost

`app` has the members of `HostSession` (`session`, `stored`, `discarding`, `creating`, `connected`, the
id of the request that is out, of the End that is out, the retry timer `later`), of its `Client`
(`status`, `outbox`, the number of the connection) and the file of `SessionStore` (`disk`); `jam` and `fed`
are `JamMode` as far as it starts, ends and has got a state. Every user command, message, timer, break
and start of the program is one action. What the app has written stays in `app.up`, a sequence for
each connection, until the server reads it: in order on one connection, in any order across them, and
also after the app has left the connection. `Break` loses what is unread; `Restart` may.

`server` is external: it answers a hello with a welcome or with `rejected{update-required}` (`Greet`), accepts or
refuses a request, opens, resumes and ends rooms, closes them by itself, and answers with the messages the
code knows. `log` is what happened, for the properties and the bounds.

`update-required` stops the client for good (`ToldToUpdate`: `client.cpp:18`, `212`), while `HostSession` only
tells the user (`host_session.cpp:460`). So a session, a discard or a creation that is going on then stays as it
is until the user acts, with no timer running: src/jam/README.md:130 means it so.

Left out: the guests' tracks and the requests about the queue, snapshots' contents, settings, links. Writes of the
session succeed: a failed one (`session_store.cpp:85`) is ignored by `HostSession` (`host_session.cpp:676`), and
the file then stays what it was until the next one.

### SpotifySession

`session` has the members of `Session`: whether there is an account (`active`), the request to
apresolve, the list of access points and the next of them, the connection's stage, the keep-alive of
the access point, the reconnect timer, and the list of key requests with attempts, number and timer.
`log` has what each request was told, and which requests the access point has and did not answer
(`due`), which go with a connection. Methods are operators on both, in one record.

A request is for a file of its own; `session.cpp:340` finds a request by its file when its timer
fires, so two requests for one file could meet each other's timers. Delays are left out: a timer that
runs may fire at any time.

### Reporter

`runs[r]` is a run of the program in memory: its phase, the queue, the batch that is out (`reply`, with
`inFlight` events of it left in the queue), the back-off, and where it is in the loop over the sessions
on disk. `files[r]` is that run's lock, `.json`, `.crash` and queue file. Runs overlap. The loop over
earlier sessions goes one file at a time, everything else is one step per method. A run ends by
`finish()` and its destructor, by a crash, whose handler writes the report, by a kill, or by a kill
inside `begin()`; the user may switch telemetry off. `seen.owed` holds the events that must still be
somewhere.

### LyricsFinder

`l` is the finder with the requests that are out. A request has the bit that its number decides:
whether it is the latest of its kind. The three single-shot timers need no state of their own, they
run exactly while something is pending. A text is its kind and the track it is of.

### Parts

The five parts that share no state with each other are checked in one run. `part` is chosen at the
start and only that part moves; each part's fairness is assumed of it while it is the one.

## 3. Runs

| Run | Shows | Bounds |
|---|---|---|
| `engine_core` | types, generations in order, the end is reported only where the sound is over and is reported at last, an advance with its format, positions | 2 streams, 2 generations, 1 frame, 2 blocks; the first stream may fail before its first frame |
| `engine_contract` | the engine implements its contract; gapless, over two streams and through seeks and blocks partly played | 2 streams of up to 2 frames, blocks of 2 frames, 2 generations, seeks to frame 1; the first stream may fail after its first frame |
| `engine_cleared` | violation, finding 1 | as `engine_core`, seeks to 0 and 1 |
| `queue` | the cursor's entry survives edits, the navigator agrees with the head, items wait together, `remaining()` agrees with `next()`, marks | up to 3 rows before something is added, 3 draws of luck; a jam, a base replaced below it, also with shuffle |
| `queue_late_add` | violation, finding 2 | |
| `player` | what sounds is what is marked, the preload is what comes next, one download, every Started ends once, who waits waits for something that comes; loading and waiting end | seven settings, each with the calls and answers that concern it |
| `player_unknown`, `player_paused` | violations, findings 3 and 4 | |
| `jam` | disk and memory agree, an item that started is in the outbox, on its way or at the server (or was sent on a connection that broke), a jam is connected again or over, a discarded one is given up and a creation ends, unless the user must update | 2 items, 2 jams, 2 breaks, together at most 3 of these; 3 runs, 1 refusal |
| `jam_resume` | violation, finding 5 | 1 run, 1 jam, 1 break |
| `lyrics` | the text shown is the track's and only gets better, the service is asked only when it may be, lookups are reported once and end | 2 tracks, room for 1 |
| `parts` | keys, connections, events, ends of runs, coefficients, snapshots, the ring (below) | below |

`parts`: 2 key requests, 2 access points, 2 logins, 2 faults; 3 runs of the program (one of which is
over when it begins, in any way), queues and batches of 2 events, 1 further event or refused batch; 5
publications of coefficients, 2 snapshots; a ring of 3 blocks and 6 pushes.

The seven settings of `player`: `Transport` has every transport call and every answer over two tracks
and a network that comes and goes; `Edits` adds and removes rows; `Modes` changes shuffle and repeat over a
queue that holds a track twice; `Vibes` has an endless queue and the vibe from history; `Jam` a jam's
layer; `Patient` and `Repeats` have a user who stops calling, with tracks that cannot be opened, the second
over a queue that repeats. Only in the last two is something said about what must happen.

Why these are enough. Two generations are needed for audio of the last one to be about; two streams
for a transition. The stream with a fault is the first, so that the sound fails early both where another is
queued and where none is; a fault at the second one is the end without a successor again. TLC has no room for
undecodable streams beside these (`Undecodable` is empty in the three runs of the engine): what holds with
them is proved. A full ring of two blocks stops the decoder as one of thirty-two does; a ring of three
with six pushes is wrapped around twice. Three rows
have a track before, at and behind the cursor; a head that holds a track twice tells a row from its
track. Two failures are one short of the limit. One remembered track of two makes the memory forget.
Two key requests can be taken for each other and have numbers that start again after a fault; two faults
make one of them meet the second attempt. Three runs are one dead and two that look at it at once.
A jam needs a break to resume, a restart to continue, a second room to be taken for the first; the
theorem on `OnDisk` holds beyond all bounds.

Deadlock is not checked where `CHECK_DEADLOCK FALSE` stands: an engine that has given out its last
generation, a queue at its bounds, a player that has been shut down, a jam whose server has no room
number left and a part that has used up its bounds really stop.

Every property has a mutant in `PROJECT.json`, a plausible bug in one definition that TLC finds by
that property.

### Fairness

- `AudioEngine!FairSpec`: the decoder's loop and the device's callback run again and again, each on
  a thread of its own; `poll()` is called by a timer while the engine is not stopped. The
  outcome of a poll has strong fairness: another call of the UI may come between the two halves of
  the model's poll but not of the code's.
- `Player!FairSpec`: sources answer and downloads end (each has a transfer timeout), the retry timer
  fires, and `poll()` finds out that there is sound, or none. Nothing is assumed of users and of the
  network; fairness and `WaitsEnd` concern the two settings in which users stop calling, for who
  presses Next for ever is never left alone. Each conjunct is the weak fairness of an action, written with
  the action's guard: `[]<>Idles(guard) \/ []<><<A>>_vars`.
- `JamHost!FairSpec`: the two retry timers fire, the socket delivers what was written on it, the server
  answers a hello, with a welcome or with `rejected{update-required}`, and reads what it is sent. Breaks,
  refusals and restarts are bounded, not unfair. `JamSettles` says what becomes of a jam, of one that is
  discarded and of a creation; it excepts a client that stopped because the user must update (`MustUpdate`), for as
  long as it is stopped.
- `SpotifySession!Fairness`: a request to apresolve ends (it has a transfer timeout), an attempt to connect ends
  (the system's timeout), timers fire. An access point need not answer a request for a key, which has a timer,
  nor a login, which has none: `AccessPoint::deadline()` (`access_point.cpp:235`) is of the stages after it.
  So the two liveness properties name what can hold the session up. `LoginHangs`: an access point is silent before
  the login. `Forsaken`: a request to apresolve timed out and nothing asks again. `ComesBack` holds of histories in
  which no login hangs for ever, up to `Forsaken`; `KeysAreAnswered` of all but those in which a key has lost
  its timer to a drop (`Untimed`) and then, for ever, a login hangs or the session is forsaken. A key that keeps its
  timer is answered even then. Without any one of the exceptions TLC finds the property violated.
- `Reporter!Fairness`: the timers fire, and a batch that is out ends (the request has a timeout).
- `LyricsFinder!FairSpec`: only that the two timers fire. `LookupsEnd` holds when no more calls
  come, though nobody ever answers.

### Findings

1. `engine_cleared`. A stream that `clearQueued()` dropped before the callback reached it can be
   entered all the same, when the decoder put none of the current stream's blocks before it after a
   seek: the callback's branch for a newer generation does not look at `allowedNext`
   (`audio_engine.cpp:86`). It is heard until the next `poll()`.
2. `queue_late_add`. A track that an `add()` from before the jam puts in front of the jam's waiting
   items makes `setItems()` insert all of them again.
3. `player_unknown`. Disconnected and then "cannot tell" leaves a parked track without its retry
   timer.
4. `player_paused`. A pause is forgotten when a track that cannot be decoded is parked for the
   network: `poll()` has stopped the engine before `waitForNetwork()` reads its state.
5. `jam_resume`. An item that starts while the resume request is out goes to the outbox, and the
   answer clears it with what was sent (`host_session.cpp:432`): the server does not hear of it.

Met while modelling, without a run of their own:

- The question whether a stored jam goes on is not modal. A jam that is created while it is open shares
  the file with the stored one, and the answer "End it" then ends the new jam
  (`host_session.cpp:220`, `426`). The model has these steps; `log.overlaps` records that one was taken, and
  the properties of `JamHost` say nothing after it.
- A request to apresolve that runs out of its transfer timeout ends with the same error as one that was
  aborted, and `session.cpp:122` takes it for that: nothing asks again, and the session stays without a
  connection. `ResolveTimesOut` is that step; the two liveness properties except the state it leaves (`Forsaken`).
- A key may wait for ever. One that is queued while there is no connection has a timer of `kQueuedKeyTimeoutMs`, by
  which src/spotify/client/README.md:75 says it is answered. When a connection drops, `dropConnection()` stops that
  timer (`session.cpp:257`) and the key waits for the next login; an access point that accepts the
  connection and neither answers the login nor closes leaves it there, since no deadline runs before the login
  (`access_point.cpp:235`). The same after an apresolve that timed out. `KeysAreAnswered` is violated by either when
  its exception for it is replaced by `FALSE`.
- `src/spotify/client/README.md:70` says that the session asks apresolve again when all access points
  failed. `scheduleReconnect()` starts with the list it has.
- A run killed inside `begin()`, after the files of an earlier run were removed and before its own queue
  was saved, loses the events it took over (`reporter.cpp:189`). `KilledInBegin` is that step, and
  `EventsAreKept` does not count them.

## 4. Proofs

What is written `X` is proved for every value of the constants, under the module's assumption and nothing
else. Each inductive invariant was first checked by TLC on a small instance.

`AudioEngineProofs` holds for every number of streams, generations, frames, blocks and seek targets
(`EngineAssumption` is all that is assumed).

- `TypeCorrect`: `Spec => []TypeOK`. `TypeOK` is inductive as it stands. It contains that the
  decoder's ring never holds more than `Capacity` blocks, which is what its write into `back()`
  needs. One lemma for each group of actions, split into the conjuncts an action can disturb.
- `UiConsistency`: `Spec => []UiConsistent`. `allowedNext`, which the callback reads without a lock, names
  the queued stream; ids grow; the device runs exactly in `Playing` and `Buffering`. It is inductive
  together with `TypeOK`.
- `GenerationOrder`: `Spec => []GenerationsInOrder`, the property that audio from before a start or seek
  is never heard after it. Given `TypeOK` it is inductive; the proof takes it apart into the blocks in the
  queue, the requests that wait for the decoder, and the positions of the three threads
  (`published <= playing <= decGeneration <= generation`). The UI only appends requests of the generation
  it has just reached (`RequestSent`) and drops blocks from the front (`FrontLeaves`); the decoder takes the
  oldest request; the callback moves on to the front block.

The second part of the module is what the listener hears, for the same values.

- `PlaysGapless`: `Spec => Gapless`. The property speaks of two neighbouring frames of the device; what makes it
  true lies as far back as the request the UI thread sent. `LineInv` follows the sound the whole way. What plays
  (item 0), the blocks in the ring (items 1 to n) and what the decoder writes next (`Coming`) are one line:
  `Follows` says that each item of a generation goes on where the one before it ended, or is the start
  of a younger stream after one whose sound is over (`SoundOver`); `WillFollow` says it of what is still to be decoded, where a seek
  that waits counts as the position; `First` says that the first item of a generation is at the frame the UI
  shows, whichever of the request, the decoder or the ring has it; `HeardIsPlaying` ties the line to the device.
  Generations that the callback drops are excused (`Live`: it drops what is older than what it read on entry,
  not than what the UI has reached since).
- It is not inductive without what the threads know of each other (`Wiring`): a queued id is the last given out,
  the ids in the requests grow, a stream in a `ClearQueued` request is really gone, a request of this
  generation asks for what the UI shows. `NothingYet` is for `attachSource()`, which asks for a start a second time in a
  generation: nothing may have come of the first. `Sources` and `InGeneration` say that where a source
  was chained from its sound is over, and that what follows the current stream is complete (`FollowsWhole`) and
  decodable, since an undecodable one is passed over without a frame.
- `LineCorrect`: `Spec => []LineInv`. One lemma for each thread and each part of the invariant, built on what a
  step does to the line: it leaves it, appends one item that was `Coming`, takes from its front, or moves item
  0 on within item 1.

The third part is what the UI thread, and so the engine's caller, makes of the sound.

- `SeenCorrect`: `Spec => []SeenInv`. The UI acts on three things it reads at different moments: the playback state,
  the decoder's events and its own members. `SeenInv` adds to `LineInv` what makes them agree. `Ordered`:
  `snapshot`, `published` and `playing` are one position at three moments (`PositionsGrow`), and in this
  generation nothing before the current stream, nor before the frame shown of it, is played
  any more. `Heeded`: an end, in a marker, a block or a position, is where the sound of its stream is over,
  or of one given up (`EndsAreEnds`); nothing is decoded after it (`EndIsLast`); once the end of the
  current stream was reported nothing else of this generation can be heard, so the callback that drops a stream
  and the poll that reports the end cannot be undone by one that was on its way (`FinishedStays`).
  `Told`: a stream that failed to open is undecodable, or complete and empty, and a queued one that did is complete
  (`QueuedIsWhole`); a queued stream that can be seen anywhere in the line has had its `Opened` event, and the state
  `Playing` means a stream that opens.
- `PositionIsMonotonic`, `FinishedIsPlayedOut` and `AdvanceIsKnown`: the action properties `PositionMovesForward`,
  `FinishedWasPlayedOut` and `AdvanceKnowsFormat`, each from one part of `SeenInv`. The last is the order of two
  reads in `poll()`: the playback state before the events.
- `ContractHolds`: `Spec => KeepsContract`, the refinement. Initial states map to the contract's; each public
  method and the end of a stream's data map to the contract's step of that name; each outcome of `poll()` maps to
  `Poll`, with or without the queued stream refused (`PollFinds`); all steps of the decoder thread and the callback
  stutter. The conditions under which the contract lets `poll()` report something are what needs
  `SeenInv`: that an undecodable current stream is never playing, that a finished stream never advances, that
  the stream of an advance is complete and the one before it over (`CurrentOver`), and that an end reported for a
  dropped stream follows one that was given up. `Damaged` is mapped to the undecodable streams and those with a fault.

`EngineContractProofs` assumes only what the contract does: ids are positive.

- `ContractOrderly`: `Spec => []Orderly`, for every caller of `EngineContract`: a stream is held exactly
  while the engine is not stopped, the queued stream is younger than the current one, only these two
  count as complete, and a reported end is that of a stream still held that is complete or damaged: no call in
  between takes from a finished stream what made it one. `Orderly` is inductive.
  Seen through `KeepsContract`, which `ContractHolds` proves of the threads, it is what `Player` relies on.

`PartsProofs` is about the five parts, each for any number of publications, pushes, runs or requests. It assumes
`PartsAssumption`: the bounds are numbers, a run can exist, the ring has a slot, and a key is none of the words
a failure is told with. An invariant speaks of one part and is kept by its steps; a step of another part leaves
its variables alone.

- `CoefficientsAlwaysArrive`: `Spec => []CoefficientsArrive`. The property speaks of
  what was heard and of the newest slot; it is not inductive without the fact that the three slots are
  three (`back`, `front` and the middle one differ), that the words written so far are of the publication to
  come, and that only the device takes the mark away.
- `SnapshotsAlwaysWhole`: `Spec => []SnapshotsAreWhole`. The invariant says, for the
  read that is under way, that as long as the sequence still is what it was, the fields loaded so far are those
  of one publication; and that an odd sequence marks the store that is under way.
- `RingImplementsSequence`: `Spec => RingIsSequence`, the refinement: initial states map to
  initial states, `Push` and `Pop` to those of the sequence, everything else stutters. It needs the
  invariant that the indices are at most a ring apart, and less while a slot is given out, that each slot
  between them holds the block of its index, and so that the slot the decoder fills is none of these.
- `EventsAlwaysKept` and `EndsAlwaysToldRight`: `Spec => []EventsAreKept` and `Spec => []EndsAreToldRight`. One
  invariant, `TelemetryInv`, carries both. It says for each run what its life allows its file and lock to be;
  that what a batch in flight took is still the front of the queue, less what an overflow dropped; what a run
  that is looking at another one's files has already read; and for each run that ended, which of its files are
  still there, so that a second reader that meets the same files between two removals can only
  tell the same end. Neither property is inductive without it: both speak of what was told, and what may be told
  next depends on what each reader holds.
- `KeysAlwaysTheirOwn`: `Spec => []KeysAreTheirOwn`. `KeysSound` says that a number the access point still has to
  answer belongs to one request; that numbers are below the next one; and that nothing has a number
  while no connection is ready, which is why starting again at 1 with each connection is harmless. The handlers pass
  both variables through their calls as a record, so each call has a lemma that it keeps `KeysSound`, and a
  handler is the composition of its calls. `sendQueuedKeys()` needs that the rows that wait get different numbers:
  `NumbersOf`, from the library's facts about finite sets.

`JamHostProofs` assumes `JamAssumption`: the bounds are numbers, of any size.

- `AlwaysOnDisk`: `Spec => []OnDisk`. At each moment the program may end, the file holds the session of
  the jam and the outbox as the client has it, or the stored one while there is none. The invariant adds
  the types, what may be in the mail (an answer carries the number of its connection, and a room that is
  created is a room), that there is no session while a jam is being created or a stored one waits, and that
  the request that is out is that of the connection. A lemma for each operator says what it leaves
  alone; the steps are then a case for each handler.
- `StartedAlwaysKept`: `Spec => []StartedIsKept`. The property looks at an open room whose items are in four places, so
  the invariant (`KeepInv`, beside `Inv`) says where an item can be and where the question is that moves it:
  `Quietly`, `Asked` and `Answered` say whether the connection's request is not asked, on its line, or answered;
  a request is alone on its line, and an item goes on a line only after the server put that connection in
  its room. Rooms have different items, so a message of one room takes nothing from another. A room that is being
  discarded is never also the session's, so the end of a discard always lets the connection go. Like the
  property it speaks of histories without `log.overlaps`, the finding of section 3. Each handler has a lemma
  that it keeps `Keeping`; most of them only have to show that the places of an item grow.

`LyricsFinderProofs` assumes `LyricsAssumption`: no track stands for none, and the memory has room for one.

- `AlwaysShowsItsTrack` and `AlwaysReported`: `Spec => []ShowsItsTrack` and `Spec => []LookupsReported`. One
  invariant carries both. It adds that a request that still counts asks about the track the finder is at,
  that somebody is asked exactly while a lookup is open, and that a lookup has something to report
  exactly when it asked. The operators have lemmas of their own (what `Drop`, `AskSource`, `Settle` keep); each
  action is then the composition its handler is.
- `AlwaysImproves`: `Spec => TextsOnlyImprove`. Needs `Clear` beside that invariant: who is asked has not
  answered yet. So an answer comes only where there was none (`Gains`), which never lowers the rank; and a text
  that may not get better is one that no answer still out could beat (`ShownIs`).

`PlayerProofs` assumes `SettingsAssumption` (what a run tries is of its type, in any number and of any length) and
`NoTrackAssumption`; tracks, items and rows are any. It stands on the lemmas of `QueueProofs`, which say of each
operation of the queue what it keeps: its rows are entries and its cursor is one of them (`QueueOk`), the jam's items
that wait stand together right behind the current entry (`Together`), the mark in the continuation is the
number of the current entry in it (`MarkAgrees`), and the current entry is the same, on a row that moves with it. They
are built on `Count`, how many rows of a set there are up to one: rows are inserted and removed by
what that does to `Count`, with the induction over numbers in the form that takes a set.

- `PlayerHolds`: `Spec => []Inv`. Every public method, answer, signal and timer, in any order. A handler
  calls private methods that call others, so each private method is an operator with a lemma of its own: what
  it needs and what it leaves. `Midway` is what holds between any two of them: the parts are of their types, the
  queue is fine, the queued stream is the preload's, a track that has its data neither opens nor waits, the
  events are in pairs. The rest (`Sounds`, `Marked`, `Behind`, `NextLoads`, `CanEnd`) may be broken in the middle
  of an action and each lemma says which of it the method restores.
- `CurrentSounds`, `PreloadComesNext`, `AdvanceIsExpected`, `DownloadsAreOne`, `EventsInPairs`: the properties the
  run `player` checks. None is inductive. What sounds can only be told from the queue's mark, through failed tracks, the
  parking of a track and an adopted preload; the preload is right after an edit only because
  what comes next is the same row or `RefreshPreload` cancels it, and that needs the queue's lemmas and that
  the preload stands behind a track that has its data (`Behind`); the engine's stream is the preload's
  because every way to forget a preload clears the queued stream.
- `WaitsCanEnd`: `Spec => []WaitCanEnd` where the system tells of the network at all (`NetworkTold`). The hypothesis
  is needed: in the setting that reports "unknown", the run `player_unknown` finds a parked track without an end
  (section 3).

`PlayQueueProofs` assumes `SettingsAssumption` and stands on the same lemmas of `QueueProofs`. Here nobody calls the
queue in the player's order: any method may follow any other.

- `WaitingStayTogether`: `Spec => []WaitingTogether`. What waits stands in one piece right behind the current
  entry, after insertions at each placement, removals on both sides, `stepBack()`, a jam's layer that comes and goes. It
  is inductive together with `QueueOk` and `MarkAgrees`: where the next insertion goes depends on the mark.
- `OnlySelectionsChangeCurrent`: `Spec => EditsKeepCurrent`, an action property: what plays and who gave it is
  the same after every edit, although its row moves.
- `NavigatorFollows`: `Spec => []NavigatorAgrees`. The inductive invariant is `NavReady`: the marks are ordinals of the
  head (`MarksFine`) and the navigator is one for a head of that size whose current ordinal is the mark (`NavOk`). Each
  operation of the queue has a lemma of its own for it (`RemoveRowsNav`, `SetItemsNav`, `ReplaceBaseNav`, ...). A
  shuffled pass is any order that holds each ordinal once, and `append()` a function over how many have
  joined, so the induction is over numbers. In the middle of `remove()` and of a new base the start track may be
  one beyond the head (`MarksNear`): `KnownStart` has to forget it before the navigator is reset.
- `RemainingMeansNext`: `Spec => []RemainingAgreesWithNext`, from the same invariant. That the count says the same as the
  row needs that the navigator's ordinals are rows (else `next()` gives none while some are counted) and that the
  continuation's mark is not negative.
- `SteppingBackReturns`: `Spec => NextReturnsAfterStepBack`. Outside a jam no hint has seeds (`NoSeeds`, inductive with the
  above), so `select()` drops nothing; and a row that `gatherPending()` moves is never one of the continuation.
- `AdvanceUsesOne`: `Spec => AdvanceConsumesOne`. What remains falls by one for each kind of row `next()` gives: of the
  head because the order has each ordinal at one place (`OnePlace`), of what waits because `select()` of the row
  `next()` gave moves no waiting item (`SelectPlays`). `dropStaleWave()` can only make it less (`DroppedLeft`).
- `LayerGetsItsItems`: `Spec => LayerItemsMatch` where no setting lets an `add()` asked for before a jam come during
  it (`NoLateAdds`). The hypothesis is needed: the run `queue_late_add` finds the counterexample (section 3). The
  inductive invariant is `ItemsInv`: a layer's items wait before whatever was added earlier, and outside a layer
  none waits. Each operation has a lemma that what waits afterwards waited before, in the same order (`WaitsAs`);
  `SetItemsFits` says that the rows kept and the rows inserted are together what is wanted. `NoItemAssumption`: the empty
  id is no item's.
- `StartComesFirst`: `Spec => StartTrackComesFirst`. The inductive part is `StartReady`: while a start is set no head
  track is current, and the navigator stands right before it (`StandsBefore`: in order one before, shuffled pinned at
  the first place, random chosen). That it stays the *same* track needs an account of the head beside its size: an
  ordinal has one track (`HeadTells`), and each call says that what the ordinal of the start named it names still
  (`StartHolds`), also when rows go on both sides of it (`RemoveRowsStart`).

`SettingsAssumption` lets the generator draw whatever it likes, but from every ordinal of a head: a `luck` holds each
ordinal up to the most rows the run adds and to the length of every source's head, once (`Draws`). `LucksFit`: ordinals
are ints, so there are fewer than `INT_MAX`, which the code takes for "no end".

Only model-checked: everything else, in particular whatever needs fairness.

## 5. What is not modelled

`PROJECT.json` lists each component with its status and reason. Ciphers, codecs, parsers, skins,
drawing and crash handlers have no state machine that a model would say more of than their tests.
Weak memory orders are not modelled. The jam server and the guests' clients are not in `src/src`; `JamHost` takes
the server for what its messages show.

## 6. Plan

The order is the one of what a listener would notice. Done: `AudioEngine` with its contract, the refinement
and proofs; `Queue`; `Player` with jam mode; `LyricsFinder`; `JamHost`; the channels, shown to implement what
`AudioEngine` takes them for; `SpotifySession`; `Reporter`.

Left, in this order:

1. Spotify's token that is fetched once for many, and the ranges of a file with their retries.
2. `Account`: answers that come after a logout. `HistoryWave`: sessions of a wave, two requests to one.
3. `CoverCache`, the local scan, the visualiser's ring, docking.
