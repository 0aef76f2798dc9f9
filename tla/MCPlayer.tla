------------------------------ MODULE MCPlayer ------------------------------
(* Values for the constants of Player. *)
EXTENDS Player

Local(head) == [NoSource EXCEPT !.head = head, !.historyAllowed = FALSE]
Album == [NoSource EXCEPT !.head = <<"a">>]
Wave == [NoSource EXCEPT !.own = TRUE, !.given = <<"a">>]

AnyLuck == <<2, 1, 3, 4>>

\* Two tracks, every transport call, every answer, a network that comes and goes.
Transport ==
  [sources |-> {Local(<<"a", "b">>)}, trackLists |-> {}, itemLists |-> {}, hints |-> {},
   answers |-> Opens \cup Failing, reports |-> {"yes", "no"}, rows |-> 2, most |-> 0, calm |-> FALSE,
   calls |-> {"source", "play", "pause", "stop", "next", "previous", "seek", "jump", "shutdown"}]

\* Tracks come, go and are jumped to.
Edits ==
  [Transport EXCEPT !.trackLists = {<<"n">>}, !.answers = {"File", "Track"},
                    !.reports = {}, !.rows = 3,
                    !.calls = {"source", "next", "jump", "add", "remove", "files"}]

\* A queue that holds a track twice, and every change of the modes.
Modes ==
  [Edits EXCEPT !.sources = {Local(<<"a", "b", "a">>)}, !.trackLists = {},
                !.calls = {"source", "next", "previous", "jump", "shuffle", "repeat", "files", "remove"}]

\* An endless queue, and the vibe from history behind an album.
Vibes ==
  [Edits EXCEPT !.sources = {Album, Wave}, !.answers = {"File", "Network", "Track"},
                !.reports = {"yes"},
                !.calls = {"source", "next", "vibe", "remove", "stop", "play", "previous", "jump"}]

\* A jam's layer over a queue with and without the vibe from history.
Jam ==
  [Edits EXCEPT !.sources = {Album, Local(<<"a">>)}, !.answers = {"File"}, !.most = 5,
                !.itemLists = {<<>>, <<[item |-> "i1", track |-> "j"]>>},
                !.hints = {[version |-> v, seeds |-> TRUE] : v \in 1..2},
                !.calls = {"source", "next", "layer", "items", "remove", "previous"}]

\* Users who stop calling at last.
Patient ==
  [Vibes EXCEPT !.answers = Opens \cup {"Network", "Track"}, !.reports = {"yes", "no"},
                   !.rows = 2, !.most = 4, !.calm = TRUE, !.calls = {"source", "next"}]

\* They repeat a queue of which no track opens.
Repeats ==
  [Patient EXCEPT !.sources = {Local(<<"a", "b">>)}, !.answers = {"Track"},
                  !.calls = {"source", "repeat", "next"}]

AllSettings == {Transport, Edits, Modes, Vibes, Jam, Patient, Repeats}

\* The system may become unable to tell.
CannotTell == {[Transport EXCEPT !.reports = {"yes", "no", "unknown"}]}
JustTransport == {Transport}
=============================================================================
