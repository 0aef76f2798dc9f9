---------------------------- MODULE LyricsFinder ----------------------------
(***************************************************************************)
(* Which text the lyrics view shows (core/lyrics_finder.cpp): the source   *)
(* of the current track is asked at once, a lyrics service when the source *)
(* has no synced text or is silent.  Answers come in any order, late or    *)
(* never; timers end the waits.                                            *)
(*                                                                         *)
(* l is the finder with the requests that are out.  The numbers of the     *)
(* requests are not kept but what they decide: whether a request is the    *)
(* latest of its kind.  The three single-shot timers run exactly while     *)
(* sourcePending, sourcePending without sourceSilent, and thirdPending     *)
(* hold.  Texts are their kinds, and the track they are of.                *)
(***************************************************************************)
EXTENDS Naturals, SequencesExt

CONSTANTS
  Tracks, NoTrack,
  Remembered        \* kRememberedTracks

ASSUME LyricsAssumption == NoTrack \notin Tracks /\ Remembered \in Nat \ {0}

VARIABLE l
vars == <<l>>

SourceTexts == {"Synced", "Plain", "Missing", "Failed", "NoAccount"}
ServiceTexts == {"Synced", "Plain", "Missing", "Failed", "Instrumental"}
Answer(text, track) == [text |-> text, of |-> track]
NoAnswer == Answer("none", NoTrack)

Hidden == [track |-> NoTrack, phase |-> "Idle", lyrics |-> NoAnswer, better |-> FALSE]

\* current is the player's track.  unreported: a request went out since the
\* last lookedUp; hollow: a lookedUp came without one.  Only properties read these two.
NewFinder ==
  [active |-> FALSE, thirdOn |-> FALSE, track |-> NoTrack, current |-> NoTrack,
   sourcePending |-> FALSE, thirdPending |-> FALSE, sourceSilent |-> FALSE,
   source |-> NoAnswer, third |-> NoAnswer, lookupOpen |-> FALSE, lookupAsked |-> FALSE,
   sourceCalls |-> {}, thirdCalls |-> {}, memory |-> <<>>, shown |-> Hidden,
   unreported |-> FALSE, hollow |-> FALSE]

-----------------------------------------------------------------------------
(* Memory *)

NothingOf(track) == [key |-> track, source |-> NoAnswer, third |-> NoAnswer]
IsRemembered(x, track) == \E i \in DOMAIN x.memory : x.memory[i].key = track
RowOf(x, track) == CHOOSE i \in DOMAIN x.memory : x.memory[i].key = track
RememberedFor(x, track) ==
  IF IsRemembered(x, track) THEN x.memory[RowOf(x, track)] ELSE NothingOf(track)

InFront(x, entry) ==
  LET others == IF IsRemembered(x, entry.key) THEN RemoveAt(x.memory, RowOf(x, entry.key))
                ELSE x.memory
      all == <<entry>> \o others
  IN [x EXCEPT !.memory = SubSeq(all, 1, IF Len(all) < Remembered THEN Len(all) ELSE Remembered)]

\* remember()
Remember(x, answer, who) ==
  IF answer.text \in {"Failed", "NoAccount"} THEN x
  ELSE InFront(x, [RememberedFor(x, x.track) EXCEPT ![who] = answer])

-----------------------------------------------------------------------------
(* What is shown *)

Rank(x) ==
  CASE x.source.text = "Synced" -> "SourceSynced"
    [] x.source.text # "Synced" /\ x.third.text = "Synced" -> "ThirdPartySynced"
    [] x.source.text = "Plain" /\ x.third.text # "Synced" -> "SourceText"
    [] x.source.text \notin {"Synced", "Plain"} /\ x.third.text = "Plain" -> "ThirdPartyText"
    [] OTHER -> "Nothing"

\* Mutant: a text of the source is taken for the best there can be.
BetterIgnoresService(x, rank) == x.sourcePending /\ rank # "SourceSynced"

\* Somebody who is asked may still have a better text.
Better(x, rank) ==
  \/ x.sourcePending /\ rank # "SourceSynced"
  \/ x.thirdPending /\ rank \in {"SourceText", "ThirdPartyText"}

WithoutText(x) ==
  IF x.third.text = "Instrumental" THEN "Instrumental"
  ELSE IF x.sourcePending \/ x.thirdPending THEN "Loading"
  ELSE IF x.source.text \in {"NoAccount", "Failed"} THEN x.source.text ELSE "Missing"

View(x, rank) ==
  IF ~ x.active \/ x.track = NoTrack THEN [Hidden EXCEPT !.track = x.track]
  ELSE IF rank = "Nothing" THEN [Hidden EXCEPT !.track = x.track, !.phase = WithoutText(x)]
  ELSE [track |-> x.track, phase |-> "Shown", better |-> Better(x, rank),
        lyrics |-> IF rank \in {"SourceSynced", "SourceText"} THEN x.source ELSE x.third]

Update(x) == [x EXCEPT !.shown = View(x, Rank(x))]

-----------------------------------------------------------------------------
(* A lookup *)

\* finishLookup(): lookedUp goes out when somebody was asked.
FinishLookup(x) ==
  [x EXCEPT !.lookupOpen = FALSE,
            !.unreported = @ /\ ~ (x.lookupOpen /\ x.lookupAsked),
            !.hollow = @ \/ (x.lookupOpen /\ x.lookupAsked /\ ~ x.unreported)]

MaybeFinish(x) == IF x.sourcePending \/ x.thirdPending THEN x ELSE FinishLookup(x)

OpenLookup(x) == IF x.lookupOpen THEN x ELSE [x EXCEPT !.lookupOpen = TRUE, !.lookupAsked = FALSE]

\* What a new number makes of the requests that are out, and one that is asked.
Outdated(calls) == {[call EXCEPT !.latest = FALSE] : call \in calls}
Asked(calls, track) == Outdated(calls) \cup {[track |-> track, latest |-> TRUE]}

AskSource(x) ==
  [x EXCEPT !.sourcePending = TRUE, !.sourceSilent = FALSE, !.lookupAsked = TRUE,
            !.sourceCalls = Asked(@, x.track), !.unreported = TRUE]

CancelThirdParty(x) ==
  IF x.thirdPending
    THEN [x EXCEPT !.thirdPending = FALSE, !.thirdCalls = Outdated(@)] ELSE x

ThirdPartyNeeded(x) ==
  /\ x.active /\ x.track # NoTrack /\ x.thirdOn /\ ~ x.thirdPending /\ x.third = NoAnswer
  /\ x.source.text # "Synced" /\ (x.source # NoAnswer \/ x.sourceSilent)

AskThirdParty(x, kept) ==
  IF kept # NoAnswer THEN [x EXCEPT !.third = kept]
  ELSE [x EXCEPT !.thirdPending = TRUE, !.lookupAsked = TRUE,
                 !.thirdCalls = Asked(@, x.track), !.unreported = TRUE]

MaybeAskThirdParty(x) ==
  IF ThirdPartyNeeded(x) THEN AskThirdParty(x, RememberedFor(x, x.track).third) ELSE x

Settle(x) == MaybeFinish(Update(MaybeAskThirdParty(x)))

\* drop()
Drop(x) ==
  [CancelThirdParty(x) EXCEPT
     !.sourceCalls = Outdated(@), !.sourcePending = FALSE, !.sourceSilent = FALSE,
     !.source = NoAnswer, !.third = NoAnswer, !.track = NoTrack]

\* Mutant: a lookup that is given up is not reported.
StopForgetsLookup(x) == Update([Drop(x) EXCEPT !.lookupOpen = FALSE])

Stop(x) == Update(Drop(FinishLookup(x)))

AskUnlessKept(x, kept) == IF kept # NoAnswer THEN [x EXCEPT !.source = kept] ELSE AskSource(x)

\* start()
Start(x, track) ==
  LET y == [Drop(x) EXCEPT !.track = track, !.lookupOpen = TRUE, !.lookupAsked = FALSE]
  IN Settle(AskUnlessKept(y, RememberedFor(x, track).source))

Follow(x) ==
  IF ~ x.active THEN x
  ELSE IF x.current = NoTrack THEN Stop(x)
  ELSE IF x.current = x.track THEN x
  ELSE Start(FinishLookup(x), x.current)

-----------------------------------------------------------------------------
(* Calls *)

\* currentTrackChanged, playlistChanged
TrackChanges == \E t \in Tracks \cup {NoTrack} : l' = Follow([l EXCEPT !.current = t])

SetActive ==
  l' = IF l.active THEN Stop([l EXCEPT !.active = FALSE]) ELSE Follow([l EXCEPT !.active = TRUE])

SetThirdParty ==
  LET off == [CancelThirdParty(l) EXCEPT !.thirdOn = FALSE, !.third = NoAnswer]
      on == [l EXCEPT !.thirdOn = TRUE]
  IN l' = Settle(IF l.thirdOn THEN off
                 ELSE IF l.active /\ l.track # NoTrack THEN OpenLookup(on) ELSE on)

RetryFailed ==
  LET again == ~ l.sourcePending /\ l.source.text = "Failed"
      x == [OpenLookup(l) EXCEPT !.third = IF @.text = "Failed" THEN NoAnswer ELSE @]
  IN /\ l.active /\ l.track # NoTrack
     /\ again \/ l.third.text = "Failed"
     /\ l' = Settle(IF again THEN AskSource([x EXCEPT !.source = NoAnswer]) ELSE x)

Forget ==
  LET x == [l EXCEPT !.memory = <<>>]
  IN l' = IF l.active /\ l.track # NoTrack THEN Start(FinishLookup(x), l.track) ELSE x

-----------------------------------------------------------------------------
(* Answers and timers *)

\* Mutant: the answer of an earlier request is taken.
CountsWhenever(call, pending) == pending
Counts(call, pending) == call.latest /\ pending

SourceHas(x, answer) ==
  LET y == [Remember(x, answer, "source") EXCEPT !.sourcePending = FALSE, !.source = answer]
  IN Settle(IF answer.text = "Synced" THEN CancelThirdParty(y) ELSE y)

SourceAnswered ==
  \E call \in l.sourceCalls, text \in SourceTexts :
    LET x == [l EXCEPT !.sourceCalls = @ \ {call}]
    IN l' = IF Counts(call, l.sourcePending) THEN SourceHas(x, Answer(text, call.track)) ELSE x

ThirdPartyHas(x, answer) ==
  MaybeFinish(Update(
    [Remember(x, answer, "third") EXCEPT !.thirdPending = FALSE, !.third = answer]))

ThirdPartyAnswered ==
  \E call \in l.thirdCalls, text \in ServiceTexts :
    LET x == [l EXCEPT !.thirdCalls = @ \ {call}]
    IN l' = IF Counts(call, l.thirdPending)
              THEN ThirdPartyHas(x, Answer(text, call.track)) ELSE x

SourceIsSilent ==
  /\ l.sourcePending /\ ~ l.sourceSilent
  /\ l' = Update(MaybeAskThirdParty([l EXCEPT !.sourceSilent = TRUE]))

\* Mutant: a source that never answers is waited for.
WaitIsNeverOver(x) == x

SourceWaitOver(x) ==
  Settle([x EXCEPT !.sourceCalls = Outdated(@), !.sourcePending = FALSE,
                   !.source = Answer("Missing", x.track)])
SourceTimedOut == l.sourcePending /\ l' = SourceWaitOver(l)

ThirdPartyTimedOut ==
  /\ l.thirdPending
  /\ l' = MaybeFinish(Update([CancelThirdParty(l) EXCEPT !.third = Answer("Missing", l.track)]))

-----------------------------------------------------------------------------
(* The specification *)

Init == l = NewFinder

Calls == TrackChanges \/ SetActive \/ SetThirdParty \/ RetryFailed \/ Forget
Timers == SourceIsSilent \/ SourceTimedOut \/ ThirdPartyTimedOut
Next == Calls \/ SourceAnswered \/ ThirdPartyAnswered \/ Timers

Spec == Init /\ [][Next]_vars

\* Qt's timers fire.
FairSpec == Spec /\ WF_vars(SourceTimedOut) /\ WF_vars(ThirdPartyTimedOut)

-----------------------------------------------------------------------------
(* Properties *)

\* Every answer that is held, shown or remembered is of the track it stands
\* for, the finder is at the player's track, and no handler leaves the view
\* behind what it changed: "an answer for an earlier request, track or lookup
\* ... does nothing" (src/core/README.md:1190).
ShowsItsTrack ==
  /\ l.track = IF l.active THEN l.current ELSE NoTrack
  /\ {l.source.of, l.third.of} \subseteq {NoTrack, l.track}
  /\ \A i \in DOMAIN l.memory :
       {l.memory[i].source.of, l.memory[i].third.of} \subseteq {NoTrack, l.memory[i].key}
  /\ l.shown = View(l, Rank(l))

Ranks == <<"SourceSynced", "ThirdPartySynced", "SourceText", "ThirdPartyText", "Nothing">>
PlaceOf(rank) == CHOOSE i \in DOMAIN Ranks : Ranks[i] = rank

\* Whatever the order answers and timers come in, the text that is shown only
\* gets better, and one the view does not say may get better stays.
TextsOnlyImprove ==
  [][Calls \/ /\ PlaceOf(Rank(l')) <= PlaceOf(Rank(l))
              /\ l.shown.phase = "Shown" /\ ~ l.shown.better => l'.shown = l.shown]_vars

\* "lookedUp comes once per lookup that sent a request" (src/core/README.md:1200):
\* once nobody is asked every request has been reported, none twice.
LookupsReported ==
  /\ ~ l.hollow
  /\ ~ l.sourcePending /\ ~ l.thirdPending => ~ l.unreported /\ ~ l.lookupOpen

\* Left alone, a lookup ends, though nobody ever answers.
LookupsEnd == <>[][~ Calls]_vars => <>[](~ l.lookupOpen /\ l.shown.phase # "Loading")
=============================================================================
