------------------------- MODULE LyricsFinderProofs --------------------------
(***************************************************************************)
(* The text shown is of the track that plays and each lookup is reported   *)
(* once, for any tracks and any length of the memory.                      *)
(***************************************************************************)
EXTENDS LyricsFinder, SequenceTheorems, TLAPS

SomeTrack == Tracks \cup {NoTrack}
Text == [text : SourceTexts \cup ServiceTexts \cup {"none"}, of : SomeTrack]
Call == [track : SomeTrack, latest : BOOLEAN]
Shown == [track : SomeTrack,
          phase : {"Idle", "Instrumental", "Loading", "NoAccount", "Failed", "Missing", "Shown"},
          lyrics : Text, better : BOOLEAN]

\* What is remembered for a track is of that track.
Kept == {e \in [key : SomeTrack, source : Text, third : Text] :
           e.source.of \in {NoTrack, e.key} /\ e.third.of \in {NoTrack, e.key}}

Finder ==
  [active : BOOLEAN, thirdOn : BOOLEAN, track : SomeTrack, current : SomeTrack,
   sourcePending : BOOLEAN, thirdPending : BOOLEAN, sourceSilent : BOOLEAN,
   source : Text, third : Text, lookupOpen : BOOLEAN, lookupAsked : BOOLEAN,
   sourceCalls : SUBSET Call, thirdCalls : SUBSET Call, memory : Seq(Kept), shown : Shown,
   unreported : BOOLEAN, hollow : BOOLEAN]

\* The answers held are of the track, and so is the request whose answer counts.
Own(x) ==
  /\ x.source.of \in {NoTrack, x.track} /\ x.third.of \in {NoTrack, x.track}
  /\ x.sourcePending => \A call \in x.sourceCalls : call.latest => call.track = x.track
  /\ x.thirdPending => \A call \in x.thirdCalls : call.latest => call.track = x.track

\* A lookup has something to report exactly when it asked somebody.
Counted(x) == ~ x.hollow /\ (x.unreported <=> x.lookupOpen /\ x.lookupAsked)

Sound(x) == x \in Finder /\ Own(x) /\ Counted(x)

Asking(x) == x.sourcePending \/ x.thirdPending
AskedInLookup(x) == Asking(x) => x.lookupOpen
Ended(x) == x.lookupOpen => Asking(x)
Shows(x) == x.shown = View(x, Rank(x))
AtTrack(x) == x.track = IF x.active THEN x.current ELSE NoTrack

Inv == Sound(l) /\ AskedInLookup(l) /\ Ended(l) /\ Shows(l) /\ AtTrack(l)

\* What parts of a handler leave alone.
SamePlace(x, y) == y.active = x.active /\ y.track = x.track /\ y.current = x.current
SameLookup(x, y) ==
  /\ y.lookupOpen = x.lookupOpen /\ y.lookupAsked = x.lookupAsked
  /\ y.unreported = x.unreported /\ y.hollow = x.hollow
SameSource(x, y) ==
  /\ y.sourcePending = x.sourcePending /\ y.source = x.source
  /\ y.sourceCalls = x.sourceCalls /\ y.sourceSilent = x.sourceSilent
SameThird(x, y) ==
  /\ y.thirdPending = x.thirdPending /\ y.third = x.third /\ y.thirdCalls = x.thirdCalls

-----------------------------------------------------------------------------
(* What is shown *)

LEMMA NoAnswerIs == NoAnswer \in Text /\ NoAnswer.of = NoTrack
BY DEF NoAnswer, Answer, Text, SomeTrack

LEMMA AnswerIs ==
  ASSUME NEW text \in SourceTexts \cup ServiceTexts, NEW track \in SomeTrack
  PROVE  Answer(text, track) \in Text /\ Answer(text, track).of = track
BY DEF Answer, Text

LEMMA ViewIsShown == ASSUME NEW x \in Finder PROVE View(x, Rank(x)) \in Shown
<1> DEFINE hidden == [Hidden EXCEPT !.track = x.track]
           without == [Hidden EXCEPT !.track = x.track, !.phase = WithoutText(x)]
           better == Better(x, Rank(x))
<1>1. x.track \in SomeTrack /\ x.source \in Text /\ x.third \in Text
  BY DEF Finder
<1>2. Hidden \in Shown
  BY NoAnswerIs DEF Hidden, Shown, SomeTrack
<1>3. hidden \in Shown
  BY <1>1, <1>2 DEF Shown
<1>4. WithoutText(x) \in {"Idle", "Instrumental", "Loading", "NoAccount", "Failed", "Missing"}
  BY DEF WithoutText
<1>5. without \in Shown
  BY <1>1, <1>2, <1>4 DEF Shown
<1>6. better \in BOOLEAN
  BY DEF Better, Finder
<1>7. \A t \in Text : [track |-> x.track, phase |-> "Shown", better |-> better, lyrics |-> t] \in Shown
  BY <1>1, <1>6 DEF Shown
<1> QED
  BY <1>1, <1>3, <1>5, <1>7 DEF View

LEMMA UpdateIs ==
  ASSUME NEW x \in Finder
  PROVE  LET y == Update(x) IN
         /\ y \in Finder /\ Shows(y)
         /\ SamePlace(x, y) /\ SameLookup(x, y) /\ SameSource(x, y) /\ SameThird(x, y)
<1> DEFINE v == View(x, Rank(x))
           y == [x EXCEPT !.shown = v]
<1>1. v \in Shown
  BY ViewIsShown
<1>2. Update(x) = y
  BY DEF Update
<1>3. Rank(y) = Rank(x)
  BY DEF Rank, Finder
<1>4. View(y, Rank(x)) = v
  BY DEF View, Better, WithoutText, Finder
<1>5. y.shown = v
  BY DEF Finder
<1> HIDE DEF v
<1>6. y \in Finder
  BY <1>1 DEF Finder
<1>7. SamePlace(x, y) /\ SameLookup(x, y) /\ SameSource(x, y) /\ SameThird(x, y)
  BY DEF Finder, SamePlace, SameLookup, SameSource, SameThird
<1>8. Shows(y)
  BY <1>3, <1>4, <1>5 DEF Shows
<1> QED BY <1>2, <1>6, <1>7, <1>8

\* What is shown depends on nothing else.
LEMMA ShowsSame ==
  ASSUME NEW x, NEW y, Shows(x), y.shown = x.shown, y.active = x.active, y.track = x.track,
         SameSource(x, y), SameThird(x, y)
  PROVE  Shows(y)
BY DEF Shows, View, Rank, Better, WithoutText, SameSource, SameThird

-----------------------------------------------------------------------------
(* Memory *)

LEMMA RememberedIs ==
  ASSUME NEW x \in Finder, NEW track \in SomeTrack
  PROVE  RememberedFor(x, track) \in Kept /\ RememberedFor(x, track).key = track
<1>1. CASE IsRemembered(x, track)
  <2>1. RowOf(x, track) \in DOMAIN x.memory /\ x.memory[RowOf(x, track)].key = track
    BY <1>1 DEF IsRemembered, RowOf
  <2>2. x.memory \in Seq(Kept)
    BY DEF Finder
  <2>3. x.memory[RowOf(x, track)] \in Kept
    BY <2>1, <2>2
  <2> QED BY <1>1, <2>1, <2>3 DEF RememberedFor
<1>2. CASE ~ IsRemembered(x, track)
  BY <1>2, NoAnswerIs DEF RememberedFor, NothingOf, Kept
<1> QED BY <1>1, <1>2

LEMMA PartOfSeq ==
  ASSUME NEW S, NEW s \in Seq(S), NEW n \in Nat, n <= Len(s)
  PROVE  SubSeq(s, 1, n) \in Seq(S)
BY SubSeqProperties

LEMMA RemoveAtIs ==
  ASSUME NEW S, NEW s \in Seq(S), NEW i \in DOMAIN s
  PROVE  RemoveAt(s, i) \in Seq(S)
<1>1. i \in 1..Len(s) /\ Len(s) \in Nat
  OBVIOUS
<1>2. SubSeq(s, 1, i - 1) \in Seq(S)
  BY <1>1, PartOfSeq
<1>3. SubSeq(s, i + 1, Len(s)) \in Seq(S)
  BY <1>1, SubSeqProperties
<1> QED BY <1>2, <1>3, ConcatProperties DEF RemoveAt

LEMMA InFrontIs ==
  ASSUME NEW x \in Finder, NEW entry \in Kept, LyricsAssumption
  PROVE  LET y == InFront(x, entry) IN
         /\ y \in Finder
         /\ SamePlace(x, y) /\ SameLookup(x, y) /\ SameSource(x, y) /\ SameThird(x, y)
         /\ y.shown = x.shown
<1> DEFINE others == IF IsRemembered(x, entry.key) THEN RemoveAt(x.memory, RowOf(x, entry.key))
                     ELSE x.memory
           all == <<entry>> \o others
           m == SubSeq(all, 1, IF Len(all) < Remembered THEN Len(all) ELSE Remembered)
           y == [x EXCEPT !.memory = m]
<1>1. x.memory \in Seq(Kept)
  BY DEF Finder
<1>2. others \in Seq(Kept)
  <2>1. CASE IsRemembered(x, entry.key)
    <3>1. RowOf(x, entry.key) \in DOMAIN x.memory
      BY <2>1 DEF IsRemembered, RowOf
    <3> QED BY <1>1, <2>1, <3>1, RemoveAtIs
  <2> QED BY <1>1, <2>1
<1>3. all \in Seq(Kept)
  <2> HIDE DEF others
  <2>1. <<entry>> \in Seq(Kept)
    OBVIOUS
  <2> QED BY <1>2, <2>1, ConcatProperties
<1>4. m \in Seq(Kept)
  <2> HIDE DEF all
  <2>1. Len(all) \in Nat /\ Remembered \in Nat
    BY <1>3, LenProperties DEF LyricsAssumption
  <2> DEFINE n == IF Len(all) < Remembered THEN Len(all) ELSE Remembered
  <2>2. n \in Nat /\ n <= Len(all)
    BY <2>1
  <2> HIDE DEF n
  <2> QED BY <1>3, <2>2, PartOfSeq
<1>5. InFront(x, entry) = y
  BY DEF InFront
<1> HIDE DEF m
<1>6. y \in Finder
  BY <1>4 DEF Finder
<1>7. SamePlace(x, y) /\ SameLookup(x, y) /\ SameSource(x, y) /\ SameThird(x, y)
      /\ y.shown = x.shown
  BY DEF Finder, SamePlace, SameLookup, SameSource, SameThird
<1> QED BY <1>5, <1>6, <1>7

LEMMA RememberIs ==
  ASSUME NEW x \in Finder, NEW answer \in Text, answer.of = x.track,
         NEW who \in {"source", "third"}, LyricsAssumption
  PROVE  LET y == Remember(x, answer, who) IN
         /\ y \in Finder
         /\ SamePlace(x, y) /\ SameLookup(x, y) /\ SameSource(x, y) /\ SameThird(x, y)
         /\ y.shown = x.shown
<1>1. CASE answer.text \in {"Failed", "NoAccount"}
  BY <1>1 DEF Remember, SamePlace, SameLookup, SameSource, SameThird
<1>2. CASE answer.text \notin {"Failed", "NoAccount"}
  <2> DEFINE e == RememberedFor(x, x.track)
             f == [e EXCEPT ![who] = answer]
  <2>1. x.track \in SomeTrack
    BY DEF Finder
  <2>2. e \in Kept /\ e.key = x.track
    BY <2>1, RememberedIs
  <2> HIDE DEF e
  <2>3. f \in Kept
    BY <2>2 DEF Kept
  <2>4. Remember(x, answer, who) = InFront(x, f)
    BY <1>2 DEF Remember, e
  <2> HIDE DEF f
  <2> QED BY <2>3, <2>4, InFrontIs
<1> QED BY <1>1, <1>2

-----------------------------------------------------------------------------
(* A lookup *)

\* finishLookup() leaves nothing to report and reports nothing twice.
LEMMA FinishLookupIs ==
  ASSUME NEW x \in Finder, Counted(x)
  PROVE  LET y == FinishLookup(x) IN
         /\ y \in Finder /\ Counted(y) /\ ~ y.lookupOpen
         /\ SamePlace(x, y) /\ SameSource(x, y) /\ SameThird(x, y)
         /\ y.shown = x.shown
<1> DEFINE u == x.unreported /\ ~ (x.lookupOpen /\ x.lookupAsked)
           h == x.hollow \/ (x.lookupOpen /\ x.lookupAsked /\ ~ x.unreported)
           y == [x EXCEPT !.lookupOpen = FALSE, !.unreported = u, !.hollow = h]
<1>1. u = FALSE /\ h = FALSE
  BY DEF Counted, Finder
<1>2. FinishLookup(x) = y
  BY DEF FinishLookup
<1> HIDE DEF u, h
<1>3. y \in Finder
  <2>1. u \in BOOLEAN /\ h \in BOOLEAN
    BY <1>1
  <2> QED BY <2>1 DEF Finder
<1>4. y.lookupOpen = FALSE /\ y.unreported = FALSE /\ y.hollow = FALSE
  BY <1>1 DEF Finder
<1>5. SamePlace(x, y) /\ SameSource(x, y) /\ SameThird(x, y) /\ y.shown = x.shown
  BY DEF Finder, SamePlace, SameSource, SameThird
<1> QED BY <1>2, <1>3, <1>4, <1>5 DEF Counted

\* Ownership speaks of the track and of what is held and asked.
LEMMA OwnSame ==
  ASSUME NEW x, NEW y, Own(x), y.track = x.track, SameSource(x, y), SameThird(x, y)
  PROVE  Own(y)
BY DEF Own, SameSource, SameThird

LEMMA CountedSame ==
  ASSUME NEW x, NEW y, Counted(x), SameLookup(x, y)
  PROVE  Counted(y)
BY DEF Counted, SameLookup

LEMMA UpdateSound ==
  ASSUME NEW x, Sound(x)
  PROVE  LET y == Update(x) IN
         /\ Sound(y) /\ Shows(y)
         /\ SamePlace(x, y) /\ SameLookup(x, y) /\ SameSource(x, y) /\ SameThird(x, y)
<1> DEFINE y == Update(x)
<1>1. /\ y \in Finder /\ Shows(y)
      /\ SamePlace(x, y) /\ SameLookup(x, y) /\ SameSource(x, y) /\ SameThird(x, y)
  BY UpdateIs DEF Sound
<1> HIDE DEF y
<1>2. Own(y) /\ Counted(y)
  BY <1>1, OwnSame, CountedSame DEF Sound, SamePlace
<1> QED BY <1>1, <1>2 DEF Sound, y

LEMMA FinishSound ==
  ASSUME NEW x, Sound(x)
  PROVE  LET y == FinishLookup(x) IN
         /\ Sound(y) /\ ~ y.lookupOpen /\ SamePlace(x, y)
         /\ SameSource(x, y) /\ SameThird(x, y) /\ y.shown = x.shown
<1> DEFINE y == FinishLookup(x)
<1>1. /\ y \in Finder /\ Counted(y) /\ ~ y.lookupOpen /\ y.shown = x.shown
      /\ SamePlace(x, y) /\ SameSource(x, y) /\ SameThird(x, y)
  BY FinishLookupIs DEF Sound
<1> HIDE DEF y
<1>2. Own(y)
  BY <1>1, OwnSame DEF Sound, SamePlace
<1> QED BY <1>1, <1>2 DEF Sound, y

\* What the end of every handler establishes.
Done(x, y) == Sound(y) /\ AskedInLookup(y) /\ Ended(y) /\ Shows(y) /\ SamePlace(x, y)

LEMMA MaybeFinishDone ==
  ASSUME NEW x, Sound(x), AskedInLookup(x), Shows(x)
  PROVE  Done(x, MaybeFinish(x))
<1>1. CASE Asking(x)
  <2>1. MaybeFinish(x) = x
    BY <1>1 DEF MaybeFinish, Asking
  <2> QED BY <1>1, <2>1 DEF Done, Ended, SamePlace
<1>2. CASE ~ Asking(x)
  <2> DEFINE y == FinishLookup(x)
  <2>1. MaybeFinish(x) = y
    BY <1>2 DEF MaybeFinish, Asking
  <2>2. /\ Sound(y) /\ ~ y.lookupOpen /\ SamePlace(x, y)
        /\ SameSource(x, y) /\ SameThird(x, y) /\ y.shown = x.shown
    BY FinishSound
  <2> HIDE DEF y
  <2>3. Shows(y)
    BY <2>2, ShowsSame DEF SamePlace
  <2>4. ~ Asking(y)
    BY <1>2, <2>2 DEF Asking, SameSource, SameThird
  <2> QED BY <2>1, <2>2, <2>3, <2>4 DEF Done, Ended, AskedInLookup
<1> QED BY <1>1, <1>2

LEMMA OutdatedIs ==
  ASSUME NEW calls \in SUBSET Call
  PROVE  /\ Outdated(calls) \in SUBSET Call
         /\ \A call \in Outdated(calls) : ~ call.latest
BY DEF Outdated, Call

LEMMA AskedIs ==
  ASSUME NEW calls \in SUBSET Call, NEW track \in SomeTrack
  PROVE  /\ Asked(calls, track) \in SUBSET Call
         /\ \A call \in Asked(calls, track) : call.latest => call.track = track
<1> DEFINE new == [track |-> track, latest |-> TRUE]
<1>1. new \in Call /\ new.track = track
  BY DEF Call
<1>2. Asked(calls, track) = Outdated(calls) \cup {new}
  BY DEF Asked
<1> HIDE DEF new
<1> QED BY <1>1, <1>2, OutdatedIs

\* A request belongs to the lookup that is open, and asks about the track.
LEMMA AskSourceSound ==
  ASSUME NEW x, Sound(x), x.lookupOpen
  PROVE  LET y == AskSource(x) IN
         /\ Sound(y) /\ SamePlace(x, y) /\ SameThird(x, y)
         /\ y.lookupOpen /\ y.thirdOn = x.thirdOn
<1> DEFINE c == Asked(x.sourceCalls, x.track)
           y == [x EXCEPT !.sourcePending = TRUE, !.sourceSilent = FALSE, !.lookupAsked = TRUE,
                          !.sourceCalls = c, !.unreported = TRUE]
<1>1. x \in Finder /\ x.sourceCalls \in SUBSET Call /\ x.track \in SomeTrack
  BY DEF Sound, Finder
<1>2. c \in SUBSET Call /\ \A call \in c : call.latest => call.track = x.track
  BY <1>1, AskedIs
<1>3. AskSource(x) = y
  BY DEF AskSource
<1> HIDE DEF c
<1>4. y \in Finder
  BY <1>1, <1>2 DEF Finder
<1>5. /\ y.sourcePending = TRUE /\ y.sourceCalls = c /\ y.unreported = TRUE /\ y.lookupAsked = TRUE
      /\ y.lookupOpen = x.lookupOpen /\ y.hollow = x.hollow /\ y.source = x.source
      /\ y.thirdOn = x.thirdOn
  BY <1>1 DEF Finder
<1>6. SamePlace(x, y) /\ SameThird(x, y)
  BY <1>1 DEF Finder, SamePlace, SameThird
<1> HIDE DEF y
<1>7. Own(y)
  BY <1>2, <1>5, <1>6 DEF Sound, Own, SamePlace, SameThird
<1>8. Counted(y)
  BY <1>5 DEF Sound, Counted
<1> QED BY <1>3, <1>4, <1>5, <1>6, <1>7, <1>8 DEF Sound

LEMMA CancelSound ==
  ASSUME NEW x, Sound(x)
  PROVE  LET y == CancelThirdParty(x) IN
         /\ Sound(y) /\ SamePlace(x, y) /\ SameSource(x, y) /\ SameLookup(x, y)
         /\ y.thirdPending = FALSE /\ y.third = x.third /\ y.thirdOn = x.thirdOn
         /\ \A call \in y.thirdCalls : call.latest => x.thirdPending = FALSE
         /\ y.shown = x.shown /\ y.memory = x.memory
<1>1. x \in Finder /\ x.thirdCalls \in SUBSET Call /\ x.thirdPending \in BOOLEAN
  BY DEF Sound, Finder
<1>2. CASE ~ x.thirdPending
  <2>1. CancelThirdParty(x) = x
    BY <1>2 DEF CancelThirdParty
  <2> QED BY <1>1, <1>2, <2>1 DEF SamePlace, SameSource, SameLookup
<1>3. CASE x.thirdPending
  <2> DEFINE c == Outdated(x.thirdCalls)
             y == [x EXCEPT !.thirdPending = FALSE, !.thirdCalls = c]
  <2>1. c \in SUBSET Call /\ \A call \in c : ~ call.latest
    BY <1>1, OutdatedIs
  <2>2. CancelThirdParty(x) = y
    BY <1>3 DEF CancelThirdParty
  <2> HIDE DEF c
  <2>3. y \in Finder
    BY <1>1, <2>1 DEF Finder
  <2>4. /\ y.thirdPending = FALSE /\ y.thirdCalls = c /\ y.third = x.third
        /\ y.thirdOn = x.thirdOn /\ y.shown = x.shown /\ y.memory = x.memory
    BY <1>1 DEF Finder
  <2>5. SamePlace(x, y) /\ SameSource(x, y) /\ SameLookup(x, y)
    BY <1>1 DEF Finder, SamePlace, SameSource, SameLookup
  <2> HIDE DEF y
  <2>6. Own(y)
    BY <2>4, <2>5 DEF Sound, Own, SamePlace, SameSource
  <2>7. Counted(y)
    BY <2>5, CountedSame DEF Sound
  <2> QED BY <2>1, <2>2, <2>3, <2>4, <2>5, <2>6, <2>7 DEF Sound
<1> QED BY <1>1, <1>2, <1>3

\* A service that is needed is asked in an open lookup, or its answer is remembered.
LEMMA MaybeAskSound ==
  ASSUME NEW x, Sound(x), x.lookupOpen \/ ~ ThirdPartyNeeded(x)
  PROVE  LET y == MaybeAskThirdParty(x) IN
         /\ Sound(y) /\ SamePlace(x, y) /\ SameSource(x, y)
         /\ y.lookupOpen = x.lookupOpen
         /\ y.thirdPending => x.thirdPending \/ x.lookupOpen
         /\ y.shown = x.shown
<1> DEFINE kept == RememberedFor(x, x.track).third
<1>1. x \in Finder /\ x.thirdCalls \in SUBSET Call /\ x.track \in SomeTrack
  BY DEF Sound, Finder
<1>2. kept \in Text /\ kept.of \in {NoTrack, x.track}
  BY <1>1, RememberedIs DEF Kept
<1>3. CASE ~ ThirdPartyNeeded(x)
  <2>1. MaybeAskThirdParty(x) = x
    BY <1>3 DEF MaybeAskThirdParty
  <2> QED BY <2>1 DEF SamePlace, SameSource
<1>4. CASE ThirdPartyNeeded(x) /\ kept # NoAnswer
  <2> DEFINE y == [x EXCEPT !.third = kept]
  <2>1. MaybeAskThirdParty(x) = y
    BY <1>4 DEF MaybeAskThirdParty, AskThirdParty
  <2> HIDE DEF kept
  <2>2. y \in Finder
    BY <1>1, <1>2 DEF Finder
  <2>3. /\ y.third = kept /\ y.lookupOpen = x.lookupOpen /\ y.thirdPending = x.thirdPending
        /\ y.thirdCalls = x.thirdCalls /\ y.shown = x.shown
    BY <1>1 DEF Finder
  <2>4. SamePlace(x, y) /\ SameSource(x, y) /\ SameLookup(x, y)
    BY <1>1 DEF Finder, SamePlace, SameSource, SameLookup
  <2> HIDE DEF y
  <2>5. Own(y)
    BY <1>2, <2>3, <2>4 DEF Sound, Own, SamePlace, SameSource
  <2>6. Counted(y)
    BY <2>4, CountedSame DEF Sound
  <2> QED BY <2>1, <2>2, <2>3, <2>4, <2>5, <2>6 DEF Sound
<1>5. CASE ThirdPartyNeeded(x) /\ kept = NoAnswer
  <2> DEFINE c == Asked(x.thirdCalls, x.track)
             y == [x EXCEPT !.thirdPending = TRUE, !.lookupAsked = TRUE,
                            !.thirdCalls = c, !.unreported = TRUE]
  <2>1. MaybeAskThirdParty(x) = y
    BY <1>5 DEF MaybeAskThirdParty, AskThirdParty
  <2>2. c \in SUBSET Call /\ \A call \in c : call.latest => call.track = x.track
    BY <1>1, AskedIs
  <2> HIDE DEF c, kept
  <2>3. y \in Finder
    BY <1>1, <2>2 DEF Finder
  <2>4. /\ y.thirdPending = TRUE /\ y.thirdCalls = c /\ y.unreported = TRUE
        /\ y.lookupAsked = TRUE /\ y.lookupOpen = x.lookupOpen /\ y.hollow = x.hollow
        /\ y.third = x.third /\ y.shown = x.shown
    BY <1>1 DEF Finder
  <2>5. SamePlace(x, y) /\ SameSource(x, y)
    BY <1>1 DEF Finder, SamePlace, SameSource
  <2> HIDE DEF y
  <2>6. Own(y)
    BY <2>2, <2>4, <2>5 DEF Sound, Own, SamePlace, SameSource
  <2>7. x.lookupOpen
    BY <1>5
  <2>8. Counted(y)
    BY <2>4, <2>7 DEF Sound, Counted
  <2> QED BY <2>1, <2>3, <2>4, <2>5, <2>6, <2>7, <2>8 DEF Sound
<1> QED BY <1>3, <1>4, <1>5

LEMMA SamePlaceTwice ==
  ASSUME NEW x, NEW y, NEW z, SamePlace(x, y), SamePlace(y, z)
  PROVE  SamePlace(x, z)
BY DEF SamePlace

\* The three calls most handlers end with.
LEMMA SettleDone ==
  ASSUME NEW x, Sound(x), AskedInLookup(x), x.lookupOpen \/ ~ ThirdPartyNeeded(x)
  PROVE  Done(x, Settle(x))
<1> DEFINE y == MaybeAskThirdParty(x)
           z == Update(y)
<1>1. /\ Sound(y) /\ SamePlace(x, y) /\ SameSource(x, y)
      /\ y.lookupOpen = x.lookupOpen /\ (y.thirdPending => x.thirdPending \/ x.lookupOpen)
  BY MaybeAskSound
<1>2. Settle(x) = MaybeFinish(z)
  BY DEF Settle
<1> HIDE DEF y
<1>3. Sound(z) /\ Shows(z) /\ SamePlace(y, z) /\ SameLookup(y, z) /\ SameSource(y, z) /\ SameThird(y, z)
  BY <1>1, UpdateSound
<1> HIDE DEF z
<1>4. AskedInLookup(z)
  BY <1>1, <1>3 DEF AskedInLookup, Asking, SameSource, SameThird, SameLookup
<1>5. Done(z, MaybeFinish(z))
  BY <1>3, <1>4, MaybeFinishDone
<1> QED BY <1>1, <1>2, <1>3, <1>5, SamePlaceTwice DEF Done

-----------------------------------------------------------------------------
(* Following the player *)

LEMMA DropSound ==
  ASSUME NEW x, Sound(x)
  PROVE  LET y == Drop(x) IN
         /\ Sound(y) /\ ~ Asking(y) /\ SameLookup(x, y)
         /\ y.track = NoTrack /\ y.active = x.active /\ y.current = x.current
         /\ y.source = NoAnswer /\ y.third = NoAnswer
<1> DEFINE a == CancelThirdParty(x)
           c == Outdated(a.sourceCalls)
           y == [a EXCEPT !.sourceCalls = c, !.sourcePending = FALSE, !.sourceSilent = FALSE,
                          !.source = NoAnswer, !.third = NoAnswer, !.track = NoTrack]
<1>1. /\ Sound(a) /\ SamePlace(x, a) /\ SameLookup(x, a) /\ a.thirdPending = FALSE
  BY CancelSound
<1>2. Drop(x) = y
  BY DEF Drop
<1> HIDE DEF a
<1>3. a \in Finder /\ a.sourceCalls \in SUBSET Call
  BY <1>1 DEF Sound, Finder
<1>4. c \in SUBSET Call
  BY <1>3, OutdatedIs
<1> HIDE DEF c
<1>5. NoAnswer \in Text /\ NoAnswer.of = NoTrack /\ NoTrack \in SomeTrack
  BY NoAnswerIs DEF SomeTrack
<1>6. y \in Finder
  BY <1>3, <1>4, <1>5 DEF Finder
<1>7. /\ y.sourcePending = FALSE /\ y.thirdPending = a.thirdPending /\ y.source = NoAnswer
      /\ y.third = NoAnswer /\ y.track = NoTrack /\ y.active = a.active /\ y.current = a.current
  BY <1>3 DEF Finder
<1>8. SameLookup(a, y)
  BY <1>3 DEF Finder, SameLookup
<1> HIDE DEF y
<1>9. SameLookup(x, y)
  BY <1>1, <1>8 DEF SameLookup
<1>10. Own(y)
  BY <1>1, <1>5, <1>7 DEF Own
<1>11. Counted(y)
  BY <1>9, CountedSame DEF Sound
<1> QED BY <1>1, <1>2, <1>6, <1>7, <1>9, <1>10, <1>11 DEF Sound, Asking, SamePlace

\* What the finder is after stop() and after start().
Rests(y) == Sound(y) /\ AskedInLookup(y) /\ Ended(y) /\ Shows(y)

LEMMA StopRests ==
  ASSUME NEW x, Sound(x)
  PROVE  LET y == Stop(x) IN
         Rests(y) /\ y.track = NoTrack /\ y.active = x.active /\ y.current = x.current
<1> DEFINE a == FinishLookup(x)
           b == Drop(a)
           y == Update(b)
<1>1. Stop(x) = y
  BY DEF Stop
<1>2. Sound(a) /\ ~ a.lookupOpen /\ SamePlace(x, a)
  BY FinishSound
<1> HIDE DEF a
<1>3. /\ Sound(b) /\ ~ Asking(b) /\ SameLookup(a, b)
      /\ b.track = NoTrack /\ b.active = a.active /\ b.current = a.current
  BY <1>2, DropSound
<1> HIDE DEF b
<1>4. Sound(y) /\ Shows(y) /\ SamePlace(b, y) /\ SameLookup(b, y) /\ SameSource(b, y) /\ SameThird(b, y)
  BY <1>3, UpdateSound
<1> HIDE DEF y
<1>5. ~ Asking(y) /\ ~ y.lookupOpen
  BY <1>2, <1>3, <1>4 DEF Asking, SameLookup, SameSource, SameThird
<1> QED BY <1>1, <1>2, <1>3, <1>4, <1>5 DEF Rests, AskedInLookup, Ended, SamePlace

LEMMA StartRests ==
  ASSUME NEW x, Sound(x), ~ x.lookupOpen, NEW track \in SomeTrack
  PROVE  LET y == Start(x, track) IN
         Rests(y) /\ y.track = track /\ y.active = x.active /\ y.current = x.current
<1> DEFINE a == Drop(x)
           b == [a EXCEPT !.track = track, !.lookupOpen = TRUE, !.lookupAsked = FALSE]
           kept == RememberedFor(x, track).source
           c == AskUnlessKept(b, kept)
<1>1. Start(x, track) = Settle(c)
  BY DEF Start
<1>2. /\ Sound(a) /\ ~ Asking(a) /\ SameLookup(x, a)
      /\ a.active = x.active /\ a.current = x.current
      /\ a.source = NoAnswer /\ a.third = NoAnswer
  BY DropSound
<1>3. kept \in Text /\ kept.of \in {NoTrack, track}
  BY RememberedIs DEF Sound, Kept
<1> HIDE DEF a, kept
<1>4. Sound(b) /\ b.lookupOpen /\ b.track = track /\ b.active = x.active /\ b.current = x.current
      /\ ~ Asking(b) /\ b.third = NoAnswer
  <2>1. a \in Finder
    BY <1>2 DEF Sound
  <2>2. b \in Finder
    BY <2>1 DEF Finder
  <2>3. /\ b.track = track /\ b.lookupOpen = TRUE /\ b.lookupAsked = FALSE
        /\ b.unreported = a.unreported /\ b.hollow = a.hollow /\ b.source = a.source
        /\ b.third = a.third /\ b.sourcePending = a.sourcePending
        /\ b.thirdPending = a.thirdPending /\ b.active = a.active /\ b.current = a.current
    BY <2>1 DEF Finder
  <2> HIDE DEF b
  <2>4. Own(b)
    BY <1>2, <2>3, NoAnswerIs DEF Own, Asking
  <2>5. ~ x.unreported /\ ~ x.hollow
    BY DEF Sound, Counted
  <2>6. Counted(b)
    BY <1>2, <2>3, <2>5 DEF Counted, SameLookup
  <2> QED BY <1>2, <2>2, <2>3, <2>4, <2>6 DEF Sound, Asking
<1> HIDE DEF b
<1>5. Sound(c) /\ c.lookupOpen /\ SamePlace(b, c)
  <2>1. CASE kept = NoAnswer
    <3>1. c = AskSource(b)
      BY <2>1 DEF AskUnlessKept
    <3> QED BY <1>4, <3>1, AskSourceSound
  <2>2. CASE kept # NoAnswer
    <3> DEFINE d == [b EXCEPT !.source = kept]
    <3>1. c = d
      BY <2>2 DEF AskUnlessKept
    <3>2. b \in Finder
      BY <1>4 DEF Sound
    <3>3. d \in Finder
      BY <1>3, <3>2 DEF Finder
    <3>4. /\ d.source = kept /\ d.lookupOpen = b.lookupOpen
          /\ d.sourcePending = b.sourcePending
      BY <3>2 DEF Finder
    <3>5. SamePlace(b, d) /\ SameLookup(b, d) /\ SameThird(b, d)
      BY <3>2 DEF Finder, SamePlace, SameLookup, SameThird
    <3> HIDE DEF d
    <3>6. Own(d)
      BY <1>3, <1>4, <3>4, <3>5 DEF Sound, Own, Asking, SamePlace, SameThird
    <3>7. Counted(d)
      BY <1>4, <3>5, CountedSame DEF Sound
    <3> QED BY <1>4, <3>1, <3>3, <3>4, <3>5, <3>6, <3>7 DEF Sound
  <2> QED BY <2>1, <2>2
<1> HIDE DEF c
<1>6. Done(c, Settle(c))
  BY <1>5, SettleDone DEF AskedInLookup
<1> QED BY <1>1, <1>4, <1>5, <1>6 DEF Done, Rests, SamePlace

\* follow() from a finder that rests brings it to the player's track.
LEMMA FollowRests ==
  ASSUME NEW x, Rests(x), ~ x.active => x.track = NoTrack
  PROVE  Rests(Follow(x)) /\ AtTrack(Follow(x))
<1>1. Sound(x) /\ x \in Finder /\ x.current \in SomeTrack /\ x.active \in BOOLEAN
  BY DEF Rests, Sound, Finder
<1>2. CASE ~ x.active
  BY <1>2 DEF Follow, AtTrack
<1>3. CASE x.active /\ x.current = NoTrack
  <2>1. Follow(x) = Stop(x)
    BY <1>3 DEF Follow
  <2> QED BY <1>1, <1>3, <2>1, StopRests DEF AtTrack
<1>4. CASE x.active /\ x.current # NoTrack /\ x.current = x.track
  BY <1>4 DEF Follow, AtTrack
<1>5. CASE x.active /\ x.current # NoTrack /\ x.current # x.track
  <2> DEFINE a == FinishLookup(x)
             y == Start(a, x.current)
  <2>1. Follow(x) = y
    BY <1>5 DEF Follow
  <2>2. Sound(a) /\ ~ a.lookupOpen /\ SamePlace(x, a)
    BY <1>1, FinishSound
  <2> HIDE DEF a
  <2>3. Rests(y) /\ y.track = x.current /\ y.active = a.active /\ y.current = a.current
    BY <1>1, <2>2, StartRests
  <2> QED BY <1>5, <2>1, <2>2, <2>3 DEF AtTrack, SamePlace
<1> QED BY <1>2, <1>3, <1>4, <1>5

-----------------------------------------------------------------------------
(* Calls *)

\* A handler that ends as all do, at the track it began at, keeps the invariant.
LEMMA DoneRests ==
  ASSUME NEW x, NEW y, Done(x, y)
  PROVE  Rests(y) /\ (AtTrack(x) => AtTrack(y))
BY DEF Done, Rests, AtTrack, SamePlace

LEMMA InvTyped ==
  ASSUME Inv
  PROVE  /\ Sound(l) /\ l \in Finder /\ l.track \in SomeTrack /\ l.current \in SomeTrack
         /\ l.sourceCalls \in SUBSET Call /\ l.thirdCalls \in SUBSET Call
         /\ l.active \in BOOLEAN /\ l.thirdOn \in BOOLEAN
         /\ l.source \in Text /\ l.third \in Text
BY DEF Inv, Sound, Finder

LEMMA TrackChangesKeeps == ASSUME Inv, TrackChanges PROVE Inv'
<1>1. PICK t \in SomeTrack : l' = Follow([l EXCEPT !.current = t])
  BY DEF TrackChanges, SomeTrack
<1> DEFINE x == [l EXCEPT !.current = t]
<1>2. l \in Finder
  BY InvTyped
<1>3. x \in Finder
  BY <1>2 DEF Finder
<1>4. x.track = l.track /\ x.active = l.active /\ x.shown = l.shown
  BY <1>2 DEF Finder
<1>5. SameLookup(l, x) /\ SameSource(l, x) /\ SameThird(l, x)
  BY <1>2 DEF Finder, SameLookup, SameSource, SameThird
<1> HIDE DEF x
<1>6. Sound(x) /\ Shows(x)
  BY <1>3, <1>4, <1>5, OwnSame, CountedSame, ShowsSame DEF Inv, Sound
<1>7. AskedInLookup(x) /\ Ended(x)
  BY <1>5 DEF Inv, AskedInLookup, Ended, Asking, SameLookup, SameSource, SameThird
<1>8. ~ x.active => x.track = NoTrack
  BY <1>4 DEF Inv, AtTrack
<1>9. Rests(x)
  BY <1>6, <1>7 DEF Rests
<1>10. Rests(l') /\ AtTrack(l')
  BY <1>1, <1>8, <1>9, FollowRests DEF x
<1> QED BY <1>10 DEF Inv, Rests

LEMMA SetActiveKeeps == ASSUME Inv, SetActive PROVE Inv'
<1>1. l \in Finder /\ l.active \in BOOLEAN
  BY InvTyped
<1>2. CASE l.active
  <2> DEFINE x == [l EXCEPT !.active = FALSE]
  <2>1. x \in Finder /\ x.active = FALSE /\ x.track = l.track
    BY <1>1 DEF Finder
  <2>2. SameLookup(l, x) /\ SameSource(l, x) /\ SameThird(l, x)
    BY <1>1 DEF Finder, SameLookup, SameSource, SameThird
  <2>3. l' = Stop(x)
    BY <1>2 DEF SetActive
  <2> HIDE DEF x
  <2>4. Sound(x)
    BY <2>1, <2>2, OwnSame, CountedSame DEF Inv, Sound
  <2> DEFINE y == Stop(x)
  <2>5. Rests(y) /\ y.track = NoTrack /\ y.active = x.active
    BY <2>4, StopRests
  <2>6. Rests(y) /\ AtTrack(y)
    BY <2>1, <2>5 DEF AtTrack
  <2> HIDE DEF y
  <2>7. l' = y
    BY <2>3 DEF y
  <2> QED BY <2>6, <2>7 DEF Inv, Rests
<1>3. CASE ~ l.active
  <2> DEFINE x == [l EXCEPT !.active = TRUE]
  <2>1. x \in Finder /\ x.active = TRUE /\ x.track = l.track
    BY <1>1 DEF Finder
  <2>2. SameLookup(l, x) /\ SameSource(l, x) /\ SameThird(l, x) /\ x.shown = l.shown
    BY <1>1 DEF Finder, SameLookup, SameSource, SameThird
  <2>3. l' = Follow(x)
    BY <1>3 DEF SetActive
  <2> HIDE DEF x
  <2>4. Sound(x)
    BY <2>1, <2>2, OwnSame, CountedSame DEF Inv, Sound
  <2>5. x.track = NoTrack /\ l.track = NoTrack
    BY <1>3, <2>1 DEF Inv, AtTrack
  <2>6. Rank(x) = Rank(l)
    BY <2>2 DEF Rank, SameSource, SameThird
  <2>7. View(x, Rank(x)) = View(l, Rank(l))
    BY <2>5 DEF View
  <2>8. Shows(x)
    BY <2>2, <2>7 DEF Inv, Shows
  <2>9. AskedInLookup(x) /\ Ended(x)
    BY <2>2 DEF Inv, AskedInLookup, Ended, Asking, SameLookup, SameSource, SameThird
  <2>10. Rests(x)
    BY <2>4, <2>8, <2>9 DEF Rests
  <2>11. Rests(l') /\ AtTrack(l')
    BY <2>1, <2>3, <2>10, FollowRests
  <2> QED BY <2>11 DEF Inv, Rests
<1> QED BY <1>1, <1>2, <1>3

LEMMA OpenLookupIs ==
  ASSUME NEW x, Sound(x), AskedInLookup(x)
  PROVE  LET y == OpenLookup(x) IN
         /\ Sound(y) /\ SamePlace(x, y) /\ SameSource(x, y) /\ SameThird(x, y)
         /\ y.lookupOpen
<1>1. CASE x.lookupOpen
  BY <1>1 DEF OpenLookup, SamePlace, SameSource, SameThird
<1>2. CASE ~ x.lookupOpen
  <2> DEFINE y == [x EXCEPT !.lookupOpen = TRUE, !.lookupAsked = FALSE]
  <2>1. OpenLookup(x) = y /\ x \in Finder
    BY <1>2 DEF OpenLookup, Sound
  <2>2. /\ y \in Finder /\ y.lookupOpen = TRUE /\ y.lookupAsked = FALSE
        /\ y.unreported = x.unreported /\ y.hollow = x.hollow
    BY <2>1 DEF Finder
  <2>3. SamePlace(x, y) /\ SameSource(x, y) /\ SameThird(x, y)
    BY <2>1 DEF Finder, SamePlace, SameSource, SameThird
  <2> HIDE DEF y
  <2>4. Own(y) /\ Counted(y)
    BY <1>2, <2>2, <2>3, OwnSame DEF Sound, Counted, SamePlace
  <2> QED BY <2>1, <2>2, <2>3, <2>4 DEF Sound
<1> QED BY <1>1, <1>2

\* A finder settled at the track it was at keeps the invariant.
LEMMA SettledKeeps ==
  ASSUME Inv, NEW x, Sound(x), AskedInLookup(x), x.lookupOpen \/ ~ ThirdPartyNeeded(x),
         SamePlace(l, x), l' = Settle(x)
  PROVE  Inv'
<1>1. Done(x, Settle(x))
  BY SettleDone
<1>2. AtTrack(x)
  BY DEF Inv, AtTrack, SamePlace
<1>3. Rests(l') /\ AtTrack(l')
  BY <1>1, <1>2, DoneRests
<1> QED BY <1>3 DEF Inv, Rests

LEMMA SetThirdPartyKeeps == ASSUME Inv, SetThirdParty PROVE Inv'
<1>1. Sound(l) /\ l \in Finder /\ l.thirdOn \in BOOLEAN
  BY InvTyped
<1>2. CASE l.thirdOn
  <2> DEFINE a == CancelThirdParty(l)
             x == [a EXCEPT !.thirdOn = FALSE, !.third = NoAnswer]
  <2>1. l' = Settle(x)
    BY <1>2 DEF SetThirdParty
  <2>2. Sound(a) /\ SamePlace(l, a) /\ SameSource(l, a) /\ SameLookup(l, a) /\ a.thirdPending = FALSE
    BY <1>1, CancelSound
  <2> HIDE DEF a
  <2>3. a \in Finder
    BY <2>2 DEF Sound
  <2>4. x \in Finder
    BY <2>3, NoAnswerIs DEF Finder
  <2>5. x.thirdOn = FALSE /\ x.third = NoAnswer /\ x.thirdPending = a.thirdPending
    BY <2>3 DEF Finder
  <2>6. SamePlace(a, x) /\ SameSource(a, x) /\ SameLookup(a, x)
    BY <2>3 DEF Finder, SamePlace, SameSource, SameLookup
  <2> HIDE DEF x
  <2>7. Own(x)
    BY <2>2, <2>5, <2>6, NoAnswerIs DEF Sound, Own, SamePlace, SameSource
  <2>8. Counted(x)
    BY <2>2, <2>6, CountedSame DEF Sound
  <2>9. AskedInLookup(x)
    BY <2>2, <2>5, <2>6 DEF Inv, AskedInLookup, Asking, SameSource, SameLookup
  <2>10. ~ ThirdPartyNeeded(x)
    BY <2>5 DEF ThirdPartyNeeded
  <2> QED BY <2>1, <2>2, <2>4, <2>6, <2>7, <2>8, <2>9, <2>10, SettledKeeps, SamePlaceTwice DEF Sound
<1>3. CASE ~ l.thirdOn
  <2> DEFINE on == [l EXCEPT !.thirdOn = TRUE]
             x == IF l.active /\ l.track # NoTrack THEN OpenLookup(on) ELSE on
  <2>1. l' = Settle(x)
    BY <1>3 DEF SetThirdParty
  <2>2. on \in Finder
    BY <1>1 DEF Finder
  <2>3. SamePlace(l, on) /\ SameSource(l, on) /\ SameThird(l, on) /\ SameLookup(l, on)
    BY <1>1 DEF Finder, SamePlace, SameSource, SameThird, SameLookup
  <2> HIDE DEF on
  <2>4. Sound(on)
    BY <1>1, <2>2, <2>3, OwnSame, CountedSame DEF Sound, SamePlace
  <2>5. AskedInLookup(on)
    BY <2>3 DEF Inv, AskedInLookup, Asking, SameSource, SameThird, SameLookup
  <2>6. CASE l.active /\ l.track # NoTrack
    <3>1. Sound(x) /\ SamePlace(on, x) /\ x.lookupOpen
      BY <2>4, <2>5, <2>6, OpenLookupIs
    <3> HIDE DEF x
    <3>2. SamePlace(l, x) /\ AskedInLookup(x)
      BY <2>3, <3>1, SamePlaceTwice DEF AskedInLookup
    <3> QED BY <2>1, <3>1, <3>2, SettledKeeps
  <2>7. CASE ~ (l.active /\ l.track # NoTrack)
    <3>1. x = on
      BY <2>7
    <3>2. ~ ThirdPartyNeeded(on)
      BY <2>3, <2>7 DEF ThirdPartyNeeded, SamePlace
    <3> QED BY <2>1, <2>3, <2>4, <2>5, <3>1, <3>2, SettledKeeps
  <2> QED BY <2>6, <2>7
<1> QED BY <1>1, <1>2, <1>3

LEMMA RetryFailedKeeps == ASSUME Inv, RetryFailed PROVE Inv'
<1> DEFINE o == OpenLookup(l)
           t == IF o.third.text = "Failed" THEN NoAnswer ELSE o.third
           x == [o EXCEPT !.third = t]
           again == ~ l.sourcePending /\ l.source.text = "Failed"
           r == [x EXCEPT !.source = NoAnswer]
           y == IF again THEN AskSource(r) ELSE x
<1>1. l' = Settle(y)
  BY DEF RetryFailed
<1>2. Sound(l) /\ AskedInLookup(l)
  BY DEF Inv
<1>3. Sound(o) /\ SamePlace(l, o) /\ SameSource(l, o) /\ o.lookupOpen
  BY <1>2, OpenLookupIs
<1> HIDE DEF o
<1>4. o \in Finder /\ o.third \in Text
  BY <1>3 DEF Sound, Finder
<1>5. t \in Text /\ t.of \in {NoTrack, o.track}
  BY <1>3, <1>4, NoAnswerIs DEF Sound, Own
<1> HIDE DEF t
<1>6. x \in Finder
  BY <1>4, <1>5 DEF Finder
<1>7. /\ x.third = t /\ x.thirdPending = o.thirdPending /\ x.thirdCalls = o.thirdCalls
      /\ x.sourcePending = o.sourcePending
  BY <1>4 DEF Finder
<1>8. SamePlace(o, x) /\ SameSource(o, x) /\ SameLookup(o, x)
  BY <1>4 DEF Finder, SamePlace, SameSource, SameLookup
<1> HIDE DEF x
<1>9. Sound(x) /\ x.lookupOpen /\ SamePlace(l, x)
  <2>1. Own(x)
    BY <1>3, <1>5, <1>7, <1>8 DEF Sound, Own, SamePlace, SameSource
  <2>2. Counted(x)
    BY <1>3, <1>8, CountedSame DEF Sound
  <2>3. x.lookupOpen
    BY <1>3, <1>8 DEF SameLookup
  <2> QED BY <1>3, <1>6, <1>8, <2>1, <2>2, <2>3, SamePlaceTwice DEF Sound
<1>10. CASE again
  <2>1. r \in Finder
    BY <1>6, NoAnswerIs DEF Finder
  <2>2. r.source = NoAnswer /\ r.sourcePending = x.sourcePending /\ r.sourceCalls = x.sourceCalls
    BY <1>6 DEF Finder
  <2>3. SamePlace(x, r) /\ SameThird(x, r) /\ SameLookup(x, r)
    BY <1>6 DEF Finder, SamePlace, SameThird, SameLookup
  <2> HIDE DEF r
  <2>4. Own(r)
    BY <1>9, <2>2, <2>3, NoAnswerIs DEF Sound, Own, SamePlace, SameThird
  <2>5. Counted(r)
    BY <1>9, <2>3, CountedSame DEF Sound
  <2>6. Sound(r) /\ r.lookupOpen
    BY <1>9, <2>1, <2>3, <2>4, <2>5 DEF Sound, SameLookup
  <2>7. Sound(y) /\ SamePlace(r, y) /\ y.lookupOpen
    BY <1>10, <2>6, AskSourceSound
  <2> HIDE DEF y
  <2>8. SamePlace(l, y) /\ AskedInLookup(y)
    BY <1>9, <2>3, <2>7 DEF SamePlace, AskedInLookup
  <2> QED BY <1>1, <2>7, <2>8, SettledKeeps
<1>11. CASE ~ again
  <2>1. y = x /\ AskedInLookup(x)
    BY <1>9, <1>11 DEF AskedInLookup
  <2> QED BY <1>1, <1>9, <2>1, SettledKeeps
<1> QED BY <1>10, <1>11

LEMMA ForgetKeeps == ASSUME Inv, Forget PROVE Inv'
<1> DEFINE x == [l EXCEPT !.memory = <<>>]
           y == IF l.active /\ l.track # NoTrack THEN Start(FinishLookup(x), l.track) ELSE x
<1>1. l' = y
  BY DEF Forget
<1>2. Sound(l) /\ l \in Finder /\ l.track \in SomeTrack
  BY InvTyped
<1>3. x \in Finder
  <2>1. <<>> \in Seq(Kept)
    OBVIOUS
  <2> QED BY <1>2, <2>1 DEF Finder
<1>4. /\ SamePlace(l, x) /\ SameLookup(l, x) /\ SameSource(l, x) /\ SameThird(l, x)
      /\ x.shown = l.shown
  BY <1>2 DEF Finder, SamePlace, SameLookup, SameSource, SameThird
<1> HIDE DEF x
<1>5. Sound(x)
  BY <1>2, <1>3, <1>4, OwnSame, CountedSame DEF Sound, SamePlace
<1>6. CASE l.active /\ l.track # NoTrack
  <2> DEFINE a == FinishLookup(x)
  <2>1. Sound(a) /\ ~ a.lookupOpen /\ SamePlace(x, a)
    BY <1>5, FinishSound
  <2>2. y = Start(a, l.track)
    BY <1>6
  <2> HIDE DEF a, y
  <2>3. Rests(y) /\ y.track = l.track /\ y.active = a.active /\ y.current = a.current
    BY <1>2, <2>1, <2>2, StartRests
  <2>4. AtTrack(y)
    BY <1>4, <2>1, <2>3 DEF Inv, AtTrack, SamePlace
  <2> QED BY <1>1, <2>3, <2>4 DEF Inv, Rests
<1>7. CASE ~ (l.active /\ l.track # NoTrack)
  <2>1. y = x
    BY <1>7
  <2>2. Shows(x)
    BY <1>4, ShowsSame DEF Inv, SamePlace
  <2>3. AskedInLookup(x) /\ Ended(x) /\ AtTrack(x)
    BY <1>4 DEF Inv, AskedInLookup, Ended, AtTrack, Asking, SamePlace, SameSource, SameThird, SameLookup
  <2> HIDE DEF y
  <2> QED BY <1>1, <1>5, <2>1, <2>2, <2>3 DEF Inv
<1> QED BY <1>6, <1>7

-----------------------------------------------------------------------------
(* Answers and timers *)

\* An answer nobody waits for only leaves the requests.
LEMMA UncountedKeeps ==
  ASSUME Inv, NEW call,
         \/ l' = [l EXCEPT !.sourceCalls = @ \ {call}]
         \/ l' = [l EXCEPT !.thirdCalls = @ \ {call}]
  PROVE  Inv'
<1>1. l \in Finder /\ l.sourceCalls \in SUBSET Call /\ l.thirdCalls \in SUBSET Call
  BY InvTyped
<1>2. l' \in Finder
  BY <1>1 DEF Finder
<1>3. /\ l'.sourceCalls \subseteq l.sourceCalls /\ l'.thirdCalls \subseteq l.thirdCalls
      /\ l'.source = l.source /\ l'.third = l.third /\ l'.shown = l.shown
      /\ l'.sourcePending = l.sourcePending /\ l'.thirdPending = l.thirdPending
  BY <1>1 DEF Finder
<1>4. SamePlace(l, l') /\ SameLookup(l, l')
  BY <1>1 DEF Finder, SamePlace, SameLookup
<1> DEFINE y == l'
<1>5. Own(y)
  BY <1>3, <1>4 DEF Inv, Sound, Own, SamePlace
<1>6. Counted(y)
  BY <1>4, CountedSame DEF Inv, Sound
<1>7. Shows(y)
  BY <1>3, <1>4 DEF Inv, Shows, View, Rank, Better, WithoutText, SamePlace
<1>8. AskedInLookup(y) /\ Ended(y) /\ AtTrack(y)
  BY <1>3, <1>4 DEF Inv, AskedInLookup, Ended, AtTrack, Asking, SamePlace, SameLookup
<1> QED BY <1>2, <1>5, <1>6, <1>7, <1>8 DEF Inv, Sound

\* The answer of the latest request is one about the track.
LEMMA SourceHasKeeps ==
  ASSUME Inv, LyricsAssumption, l.sourcePending, NEW call \in l.sourceCalls, call.latest,
         NEW text \in SourceTexts,
         l' = SourceHas([l EXCEPT !.sourceCalls = @ \ {call}], Answer(text, call.track))
  PROVE  Inv'
<1> DEFINE x == [l EXCEPT !.sourceCalls = @ \ {call}]
           answer == Answer(text, call.track)
           m == Remember(x, answer, "source")
           y == [m EXCEPT !.sourcePending = FALSE, !.source = answer]
           z == IF answer.text = "Synced" THEN CancelThirdParty(y) ELSE y
<1>1. Sound(l) /\ l \in Finder /\ l.sourceCalls \in SUBSET Call /\ l.track \in SomeTrack
  BY InvTyped
<1>2. l' = Settle(z)
  BY DEF SourceHas
<1>3. call.track = l.track
  BY DEF Inv, Sound, Own
<1>4. answer \in Text /\ answer.of = l.track
  BY <1>1, <1>3, AnswerIs
<1> HIDE DEF answer
<1>5. x \in Finder /\ x.track = l.track
  BY <1>1 DEF Finder
<1>6. SamePlace(l, x) /\ SameLookup(l, x) /\ SameThird(l, x)
  BY <1>1 DEF Finder, SamePlace, SameLookup, SameThird
<1> HIDE DEF x
<1>7. m \in Finder /\ SamePlace(x, m) /\ SameLookup(x, m) /\ SameThird(x, m)
  BY <1>4, <1>5, RememberIs
<1> HIDE DEF m
<1>8. y \in Finder
  BY <1>4, <1>7 DEF Finder
<1>9. y.sourcePending = FALSE /\ y.source = answer
  BY <1>7 DEF Finder
<1>10. SamePlace(m, y) /\ SameLookup(m, y) /\ SameThird(m, y)
  BY <1>7 DEF Finder, SamePlace, SameLookup, SameThird
<1> HIDE DEF y
<1>11. SamePlace(l, y) /\ SameLookup(l, y) /\ SameThird(l, y)
  BY <1>6, <1>7, <1>10 DEF SamePlace, SameLookup, SameThird
<1>12. Own(y)
  BY <1>1, <1>4, <1>9, <1>11 DEF Sound, Own, SamePlace, SameThird
<1>13. Counted(y)
  BY <1>1, <1>11, CountedSame DEF Sound
<1>14. Sound(y)
  BY <1>8, <1>12, <1>13 DEF Sound
<1>15. l.lookupOpen
  BY DEF Inv, AskedInLookup, Asking
<1>16. Sound(z) /\ SamePlace(y, z) /\ SameLookup(y, z)
  <2>1. CASE answer.text = "Synced"
    BY <1>14, <2>1, CancelSound
  <2>2. CASE answer.text # "Synced"
    BY <1>14, <2>2 DEF SamePlace, SameLookup
  <2> QED BY <2>1, <2>2
<1> HIDE DEF z
<1>17. SamePlace(l, z) /\ z.lookupOpen
  BY <1>11, <1>15, <1>16 DEF SamePlace, SameLookup
<1> QED BY <1>2, <1>16, <1>17, SettledKeeps DEF AskedInLookup

LEMMA SourceAnsweredKeeps == ASSUME Inv, LyricsAssumption, SourceAnswered PROVE Inv'
<1>1. PICK call \in l.sourceCalls, text \in SourceTexts :
        l' = IF Counts(call, l.sourcePending)
               THEN SourceHas([l EXCEPT !.sourceCalls = @ \ {call}], Answer(text, call.track))
               ELSE [l EXCEPT !.sourceCalls = @ \ {call}]
  BY DEF SourceAnswered
<1>2. CASE Counts(call, l.sourcePending)
  BY <1>1, <1>2, SourceHasKeeps DEF Counts
<1>3. CASE ~ Counts(call, l.sourcePending)
  BY <1>1, <1>3, UncountedKeeps
<1> QED BY <1>2, <1>3

\* update() and maybeFinish() at the end of a handler.
LEMMA UpdatedKeeps ==
  ASSUME Inv, NEW x, Sound(x), AskedInLookup(x), SamePlace(l, x), l' = MaybeFinish(Update(x))
  PROVE  Inv'
<1> DEFINE y == Update(x)
<1>1. Sound(y) /\ Shows(y) /\ SamePlace(x, y) /\ SameLookup(x, y) /\ SameSource(x, y) /\ SameThird(x, y)
  BY UpdateSound
<1> HIDE DEF y
<1>2. AskedInLookup(y)
  BY <1>1 DEF AskedInLookup, Asking, SameLookup, SameSource, SameThird
<1>3. Done(y, MaybeFinish(y))
  BY <1>1, <1>2, MaybeFinishDone
<1>4. AtTrack(y)
  BY <1>1 DEF Inv, AtTrack, SamePlace
<1>5. Rests(l') /\ AtTrack(l')
  BY <1>3, <1>4, DoneRests DEF y
<1> QED BY <1>5 DEF Inv, Rests

LEMMA ThirdPartyHasKeeps ==
  ASSUME Inv, LyricsAssumption, l.thirdPending, NEW call \in l.thirdCalls, call.latest,
         NEW text \in ServiceTexts,
         l' = ThirdPartyHas([l EXCEPT !.thirdCalls = @ \ {call}], Answer(text, call.track))
  PROVE  Inv'
<1> DEFINE x == [l EXCEPT !.thirdCalls = @ \ {call}]
           answer == Answer(text, call.track)
           m == Remember(x, answer, "third")
           y == [m EXCEPT !.thirdPending = FALSE, !.third = answer]
<1>1. Sound(l) /\ l \in Finder /\ l.thirdCalls \in SUBSET Call /\ l.track \in SomeTrack
  BY InvTyped
<1>2. l' = MaybeFinish(Update(y))
  BY DEF ThirdPartyHas
<1>3. call.track = l.track
  BY DEF Inv, Sound, Own
<1>4. answer \in Text /\ answer.of = l.track
  BY <1>1, <1>3, AnswerIs
<1> HIDE DEF answer
<1>5. x \in Finder /\ x.track = l.track
  BY <1>1 DEF Finder
<1>6. SamePlace(l, x) /\ SameLookup(l, x) /\ SameSource(l, x)
  BY <1>1 DEF Finder, SamePlace, SameLookup, SameSource
<1> HIDE DEF x
<1>7. m \in Finder /\ SamePlace(x, m) /\ SameLookup(x, m) /\ SameSource(x, m)
  BY <1>4, <1>5, RememberIs
<1> HIDE DEF m
<1>8. y \in Finder
  BY <1>4, <1>7 DEF Finder
<1>9. y.thirdPending = FALSE /\ y.third = answer
  BY <1>7 DEF Finder
<1>10. SamePlace(m, y) /\ SameLookup(m, y) /\ SameSource(m, y)
  BY <1>7 DEF Finder, SamePlace, SameLookup, SameSource
<1> HIDE DEF y
<1>11. SamePlace(l, y) /\ SameLookup(l, y) /\ SameSource(l, y)
  BY <1>6, <1>7, <1>10 DEF SamePlace, SameLookup, SameSource
<1>12. Own(y)
  BY <1>1, <1>4, <1>9, <1>11 DEF Sound, Own, SamePlace, SameSource
<1>13. Counted(y)
  BY <1>1, <1>11, CountedSame DEF Sound
<1>14. AskedInLookup(y)
  BY <1>11 DEF Inv, AskedInLookup, Asking, SameLookup
<1> QED BY <1>2, <1>8, <1>11, <1>12, <1>13, <1>14, UpdatedKeeps DEF Sound

LEMMA ThirdPartyAnsweredKeeps == ASSUME Inv, LyricsAssumption, ThirdPartyAnswered PROVE Inv'
<1>1. PICK call \in l.thirdCalls, text \in ServiceTexts :
        l' = IF Counts(call, l.thirdPending)
               THEN ThirdPartyHas([l EXCEPT !.thirdCalls = @ \ {call}], Answer(text, call.track))
               ELSE [l EXCEPT !.thirdCalls = @ \ {call}]
  BY DEF ThirdPartyAnswered
<1>2. CASE Counts(call, l.thirdPending)
  BY <1>1, <1>2, ThirdPartyHasKeeps DEF Counts
<1>3. CASE ~ Counts(call, l.thirdPending)
  BY <1>1, <1>3, UncountedKeeps
<1> QED BY <1>2, <1>3

LEMMA SourceIsSilentKeeps == ASSUME Inv, SourceIsSilent PROVE Inv'
<1> DEFINE x == [l EXCEPT !.sourceSilent = TRUE]
           y == MaybeAskThirdParty(x)
           z == Update(y)
<1>1. l' = z /\ l.sourcePending
  BY DEF SourceIsSilent
<1>2. Sound(l) /\ l \in Finder
  BY InvTyped
<1>3. l.lookupOpen
  BY <1>1 DEF Inv, AskedInLookup, Asking
<1>4. x \in Finder /\ x.lookupOpen = l.lookupOpen /\ x.sourcePending = l.sourcePending
      /\ x.source = l.source /\ x.sourceCalls = l.sourceCalls
  BY <1>2 DEF Finder
<1>5. SamePlace(l, x) /\ SameThird(l, x) /\ SameLookup(l, x)
  BY <1>2 DEF Finder, SamePlace, SameThird, SameLookup
<1> HIDE DEF x
<1>6. Own(x) /\ Counted(x)
  BY <1>2, <1>4, <1>5, CountedSame DEF Sound, Own, SamePlace, SameThird
<1>7. /\ Sound(y) /\ SamePlace(x, y) /\ SameSource(x, y) /\ y.lookupOpen = x.lookupOpen
  BY <1>3, <1>4, <1>6, MaybeAskSound DEF Sound
<1> HIDE DEF y
<1>8. Sound(z) /\ Shows(z) /\ SamePlace(y, z) /\ SameLookup(y, z) /\ SameSource(y, z)
  BY <1>7, UpdateSound
<1> HIDE DEF z
<1>9. z.lookupOpen /\ Asking(z)
  BY <1>1, <1>3, <1>4, <1>7, <1>8 DEF Asking, SameLookup, SameSource
<1>10. AtTrack(z)
  BY <1>5, <1>7, <1>8 DEF Inv, AtTrack, SamePlace
<1> QED BY <1>1, <1>8, <1>9, <1>10 DEF Inv, AskedInLookup, Ended

LEMMA SourceTimedOutKeeps == ASSUME Inv, SourceTimedOut PROVE Inv'
<1> DEFINE c == Outdated(l.sourceCalls)
           answer == Answer("Missing", l.track)
           x == [l EXCEPT !.sourceCalls = c, !.sourcePending = FALSE, !.source = answer]
<1>1. l' = Settle(x) /\ l.sourcePending
  BY DEF SourceTimedOut, SourceWaitOver
<1>2. Sound(l) /\ l \in Finder /\ l.sourceCalls \in SUBSET Call /\ l.track \in SomeTrack
  BY InvTyped
<1>3. l.lookupOpen
  BY <1>1 DEF Inv, AskedInLookup, Asking
<1>4. c \in SUBSET Call
  BY <1>2, OutdatedIs
<1>5. answer \in Text /\ answer.of = l.track
  BY <1>2, AnswerIs DEF SourceTexts
<1> HIDE DEF c, answer
<1>6. x \in Finder
  BY <1>2, <1>4, <1>5 DEF Finder
<1>7. x.source = answer /\ x.sourcePending = FALSE /\ x.lookupOpen = l.lookupOpen
  BY <1>2 DEF Finder
<1>8. SamePlace(l, x) /\ SameThird(l, x) /\ SameLookup(l, x)
  BY <1>2 DEF Finder, SamePlace, SameThird, SameLookup
<1> HIDE DEF x
<1>9. Own(x) /\ Counted(x)
  BY <1>2, <1>5, <1>7, <1>8, CountedSame DEF Sound, Own, SamePlace, SameThird
<1> QED BY <1>1, <1>3, <1>6, <1>7, <1>8, <1>9, SettledKeeps DEF Sound, AskedInLookup

LEMMA ThirdPartyTimedOutKeeps == ASSUME Inv, ThirdPartyTimedOut PROVE Inv'
<1> DEFINE a == CancelThirdParty(l)
           answer == Answer("Missing", l.track)
           x == [a EXCEPT !.third = answer]
<1>1. l' = MaybeFinish(Update(x))
  BY DEF ThirdPartyTimedOut
<1>2. Sound(l) /\ l \in Finder /\ l.track \in SomeTrack
  BY InvTyped
<1>3. Sound(a) /\ SamePlace(l, a) /\ SameSource(l, a) /\ SameLookup(l, a) /\ a.thirdPending = FALSE
  BY <1>2, CancelSound
<1>4. answer \in Text /\ answer.of = l.track
  BY <1>2, AnswerIs DEF SourceTexts
<1> HIDE DEF a, answer
<1>5. a \in Finder
  BY <1>3 DEF Sound
<1>6. x \in Finder
  BY <1>4, <1>5 DEF Finder
<1>7. x.third = answer /\ x.thirdPending = a.thirdPending
  BY <1>5 DEF Finder
<1>8. SamePlace(a, x) /\ SameSource(a, x) /\ SameLookup(a, x)
  BY <1>5 DEF Finder, SamePlace, SameSource, SameLookup
<1> HIDE DEF x
<1>9. Own(x)
  BY <1>3, <1>4, <1>7, <1>8 DEF Sound, Own, SamePlace, SameSource
<1>10. Counted(x)
  BY <1>3, <1>8, CountedSame DEF Sound
<1>11. AskedInLookup(x)
  BY <1>3, <1>7, <1>8 DEF Inv, AskedInLookup, Asking, SameSource, SameLookup
<1> QED BY <1>1, <1>3, <1>6, <1>8, <1>9, <1>10, <1>11, SamePlaceTwice, UpdatedKeeps DEF Sound

-----------------------------------------------------------------------------
(* The theorems *)

LEMMA InitInv == ASSUME LyricsAssumption PROVE Init => Inv
<1> SUFFICES ASSUME Init PROVE Inv
  OBVIOUS
<1> DEFINE x == NewFinder
<1>1. Hidden \in Shown
  BY NoAnswerIs DEF Hidden, Shown, SomeTrack
<1>2. x \in Finder
  <2>1. <<>> \in Seq(Kept) /\ {} \in SUBSET Call /\ NoTrack \in SomeTrack
    BY DEF SomeTrack
  <2> QED BY <1>1, <2>1, NoAnswerIs DEF NewFinder, Finder
<1>3. Own(x) /\ Counted(x) /\ AskedInLookup(x) /\ Ended(x) /\ AtTrack(x)
  BY NoAnswerIs DEF NewFinder, Own, Counted, AskedInLookup, Ended, AtTrack, Asking
<1>4. [Hidden EXCEPT !.track = NoTrack] = Hidden
  <2>1. Hidden.track = NoTrack
    BY DEF Hidden
  <2> QED BY <1>1, <2>1 DEF Shown
<1>5. Shows(x)
  BY <1>4 DEF NewFinder, Shows, View
<1> QED BY <1>2, <1>3, <1>5 DEF Init, Inv, Sound

LEMMA StepInv == ASSUME LyricsAssumption PROVE Inv /\ [Next]_vars => Inv'
<1> SUFFICES ASSUME Inv, [Next]_vars PROVE Inv'
  OBVIOUS
<1>1. CASE Calls
  BY <1>1, TrackChangesKeeps, SetActiveKeeps, SetThirdPartyKeeps, RetryFailedKeeps, ForgetKeeps
  DEF Calls
<1>2. CASE SourceAnswered
  BY <1>2, SourceAnsweredKeeps
<1>3. CASE ThirdPartyAnswered
  BY <1>3, ThirdPartyAnsweredKeeps
<1>4. CASE Timers
  BY <1>4, SourceIsSilentKeeps, SourceTimedOutKeeps, ThirdPartyTimedOutKeeps DEF Timers
<1>5. CASE UNCHANGED vars
  BY <1>5 DEF vars, Inv
<1> QED BY <1>1, <1>2, <1>3, <1>4, <1>5 DEF Next

\* Whatever answers come late, out of order or never, the view shows what is held
\* for the player's track, and what is held or remembered for a track is of it
\* (lyrics_finder.cpp, sourceAnswered(), thirdPartyAnswered() and remember()).
THEOREM AlwaysShowsItsTrack == Spec => []ShowsItsTrack
<1>1. Inv => ShowsItsTrack
  <2> SUFFICES ASSUME Inv PROVE ShowsItsTrack
    OBVIOUS
  <2>1. l.memory \in Seq(Kept)
    BY InvTyped DEF Finder
  <2>2. \A i \in DOMAIN l.memory :
          {l.memory[i].source.of, l.memory[i].third.of} \subseteq {NoTrack, l.memory[i].key}
    BY <2>1 DEF Kept
  <2> QED BY <2>2 DEF Inv, Sound, Own, AtTrack, Shows, ShowsItsTrack
<1> QED BY <1>1, InitInv, StepInv, LyricsAssumption, PTL DEF Spec

\* Once nobody is asked, every request has been reported, and none twice
\* (lyrics_finder.cpp, finishLookup()).
THEOREM AlwaysReported == Spec => []LookupsReported
<1>1. Inv => LookupsReported
  BY DEF Inv, Sound, Counted, Ended, Asking, LookupsReported
<1> QED BY <1>1, InitInv, StepInv, LyricsAssumption, PTL DEF Spec

-----------------------------------------------------------------------------
(* The text only improves *)

\* Who is asked has not answered yet.
Clear(x) == (x.sourcePending => x.source = NoAnswer) /\ (x.thirdPending => x.third = NoAnswer)

\* Answers come where there was none.
Gains(x, y) ==
  /\ y.source = x.source \/ x.source = NoAnswer
  /\ y.third = x.third \/ x.third = NoAnswer

\* A finder has these fields.
Full(x) ==
  {"active", "track", "sourcePending", "thirdPending", "sourceSilent", "source", "third",
   "lookupOpen", "lookupAsked", "sourceCalls", "thirdCalls", "memory", "shown",
   "unreported", "hollow", "thirdOn", "current"} \subseteq DOMAIN x

\* What neither asks nor answers.
Alike(x, y) ==
  /\ Full(y) /\ y.active = x.active /\ y.track = x.track
  /\ y.source = x.source /\ y.third = x.third
  /\ y.sourcePending = x.sourcePending /\ y.thirdPending = x.thirdPending

\* Every finder of the type invariant does.
LEMMA FinderFull == ASSUME NEW x \in Finder PROVE Full(x)
BY DEF Finder, Full

\* Clearness depends on who is asked and on the answers only.
LEMMA AlikeClear ==
  ASSUME NEW x, NEW y, Alike(x, y)
  PROVE  (Clear(x) => Clear(y)) /\ Gains(x, y)
BY DEF Alike, Clear, Gains

\* update() changes only what is shown.
LEMMA UpdateAlike == ASSUME NEW x, Full(x) PROVE Alike(x, Update(x))
BY DEF Update, Full, Alike

\* finish() neither asks nor answers.
LEMMA FinishAlike ==
  ASSUME NEW x, Full(x)
  PROVE  Alike(x, FinishLookup(x)) /\ Alike(x, MaybeFinish(x))
BY DEF FinishLookup, MaybeFinish, Full, Alike

\* remember() neither asks nor answers.
LEMMA RememberAlike ==
  ASSUME NEW x, Full(x), NEW answer, NEW who
  PROVE  Alike(x, Remember(x, answer, who))
<1>1. ASSUME NEW entry PROVE Alike(x, InFront(x, entry))
  BY DEF InFront, Full, Alike
<1> QED BY <1>1 DEF Remember, Full, Alike

\* openLookup() neither asks nor answers.
LEMMA OpenAlike == ASSUME NEW x, Full(x) PROVE Alike(x, OpenLookup(x))
BY DEF OpenLookup, Full, Alike

\* Cancelling the service leaves the answers and the source's call alone.
LEMMA CancelClears ==
  ASSUME NEW x, Full(x), NEW y, y = CancelThirdParty(x)
  PROVE  /\ Full(y) /\ (Clear(x) => Clear(y)) /\ ~ y.thirdPending
         /\ y.source = x.source /\ y.third = x.third /\ y.sourcePending = x.sourcePending
         /\ y.active = x.active /\ y.track = x.track
<1>1. CASE x.thirdPending
  BY <1>1 DEF CancelThirdParty, Full, Clear
<1>2. CASE ~ x.thirdPending
  BY <1>2 DEF CancelThirdParty, Clear
<1> QED BY <1>1, <1>2

\* ask() asks who has no answer yet.
LEMMA AskClears ==
  ASSUME NEW x, Full(x), Clear(x), NEW y, y = MaybeAskThirdParty(x)
  PROVE  Full(y) /\ Clear(y) /\ Gains(x, y) /\ y.source = x.source
<1>1. PICK kept : kept = RememberedFor(x, x.track).third
  OBVIOUS
<1>2. CASE ThirdPartyNeeded(x)
  <2>1. y = AskThirdParty(x, kept) /\ x.third = NoAnswer /\ ~ x.thirdPending
    BY <1>1, <1>2 DEF MaybeAskThirdParty, ThirdPartyNeeded
  <2>2. CASE kept # NoAnswer
    <3>1. y = [x EXCEPT !.third = kept]
      BY <2>1, <2>2 DEF AskThirdParty
    <3>2. /\ Full(y) /\ y.third = kept /\ y.source = x.source
          /\ y.sourcePending = x.sourcePending /\ y.thirdPending = x.thirdPending
      BY <3>1 DEF Full
    <3> QED BY <2>1, <3>2 DEF Clear, Gains
  <2>3. CASE kept = NoAnswer
    <3>1. /\ Full(y) /\ y.third = x.third /\ y.source = x.source
          /\ y.sourcePending = x.sourcePending
      BY <2>1, <2>3 DEF AskThirdParty, Full
    <3> QED BY <2>1, <3>1 DEF Clear, Gains
  <2> QED BY <2>2, <2>3
<1>3. CASE ~ ThirdPartyNeeded(x)
  <2>1. y = x
    BY <1>3 DEF MaybeAskThirdParty
  <2> QED BY <2>1 DEF Gains
<1> QED BY <1>2, <1>3

\* settle() asks who has no answer yet, and shows.
LEMMA SettleClears ==
  ASSUME NEW x, Full(x), Clear(x), NEW y, y = Settle(x)
  PROVE  Full(y) /\ Clear(y) /\ Gains(x, y) /\ y.source = x.source
<1>1. PICK a, u : a = MaybeAskThirdParty(x) /\ u = Update(a)
  OBVIOUS
<1>2. Full(a) /\ Clear(a) /\ Gains(x, a) /\ a.source = x.source
  BY <1>1, AskClears
<1>3. Alike(a, u)
  BY <1>1, <1>2, UpdateAlike
<1>4. y = MaybeFinish(u)
  BY <1>1 DEF Settle
<1>5. Alike(u, y)
  BY <1>3, <1>4, FinishAlike DEF Alike
<1>6. Full(y) /\ Clear(y) /\ y.source = a.source /\ y.third = a.third
  BY <1>2, <1>3, <1>5, AlikeClear DEF Alike
<1> QED BY <1>2, <1>6 DEF Gains

\* The source is asked only before its answer.
LEMMA AskSourceClears ==
  ASSUME NEW x, Full(x), Clear(x), x.source = NoAnswer, NEW y, y = AskSource(x)
  PROVE  Full(y) /\ Clear(y)
<1>1. Full(y) /\ y.source = x.source /\ y.third = x.third /\ y.thirdPending = x.thirdPending
  BY DEF AskSource, Full
<1> QED BY <1>1 DEF Clear

\* drop() leaves nobody asked and no answer.
LEMMA DropClears ==
  ASSUME NEW x, Full(x), NEW y, y = Drop(x)
  PROVE  /\ Full(y) /\ Clear(y) /\ ~ y.sourcePending /\ ~ y.thirdPending
         /\ y.source = NoAnswer /\ y.third = NoAnswer
<1>1. PICK c : c = CancelThirdParty(x)
  OBVIOUS
<1>2. Full(c) /\ ~ c.thirdPending
  BY <1>1, CancelClears
<1>3. y = [c EXCEPT !.sourceCalls = Outdated(@), !.sourcePending = FALSE, !.sourceSilent = FALSE,
                    !.source = NoAnswer, !.third = NoAnswer, !.track = NoTrack]
  BY <1>1 DEF Drop
<1>4. /\ Full(y) /\ y.sourcePending = FALSE /\ y.thirdPending = c.thirdPending
      /\ y.source = NoAnswer /\ y.third = NoAnswer
  BY <1>2, <1>3 DEF Full
<1> QED BY <1>2, <1>4 DEF Clear

\* stop() leaves the finder clear.
LEMMA StopClears == ASSUME NEW x, Full(x) PROVE Full(Stop(x)) /\ Clear(Stop(x))
<1>1. PICK f, d, u : f = FinishLookup(x) /\ d = Drop(f) /\ u = Update(d)
  OBVIOUS
<1>2. Full(f)
  BY <1>1, FinishAlike DEF Alike
<1>3. Full(d) /\ Clear(d)
  BY <1>1, <1>2, DropClears
<1>4. Full(u) /\ Clear(u)
  BY <1>1, <1>3, UpdateAlike, AlikeClear DEF Alike
<1> QED BY <1>1, <1>4 DEF Stop

\* start() leaves the finder clear.
LEMMA StartClears ==
  ASSUME NEW x, Full(x), NEW track
  PROVE  Full(Start(x, track)) /\ Clear(Start(x, track))
<1>1. PICK d, y, kept : /\ d = Drop(x) /\ kept = RememberedFor(x, track).source
                        /\ y = [d EXCEPT !.track = track, !.lookupOpen = TRUE, !.lookupAsked = FALSE]
  OBVIOUS
<1>2. Full(d) /\ ~ d.sourcePending /\ ~ d.thirdPending /\ d.source = NoAnswer
  BY <1>1, DropClears
<1>3. Full(y) /\ y.sourcePending = d.sourcePending /\ y.thirdPending = d.thirdPending
      /\ y.source = d.source
  BY <1>1, <1>2 DEF Full
<1>4. Clear(y)
  BY <1>2, <1>3 DEF Clear
<1>5. PICK a : a = AskUnlessKept(y, kept)
  OBVIOUS
<1>6. Full(a) /\ Clear(a)
  <2>1. CASE kept = NoAnswer
    BY <1>2, <1>3, <1>4, <1>5, <2>1, AskSourceClears DEF AskUnlessKept
  <2>2. CASE kept # NoAnswer
    <3>1. a = [y EXCEPT !.source = kept]
      BY <1>5, <2>2 DEF AskUnlessKept
    <3>2. Full(a) /\ a.sourcePending = y.sourcePending /\ a.thirdPending = y.thirdPending
      BY <1>3, <3>1 DEF Full
    <3> QED BY <1>2, <1>3, <3>2 DEF Clear
  <2> QED BY <2>1, <2>2
<1>7. Start(x, track) = Settle(a)
  BY <1>1, <1>5 DEF Start
<1> QED BY <1>6, <1>7, SettleClears

\* follow() keeps the finder clear.
LEMMA FollowClears ==
  ASSUME NEW x, Full(x), Clear(x)
  PROVE  Full(Follow(x)) /\ Clear(Follow(x))
<1>1. Full(FinishLookup(x))
  BY FinishAlike DEF Alike
<1>2. Full(Start(FinishLookup(x), x.current)) /\ Clear(Start(FinishLookup(x), x.current))
  BY <1>1, StartClears
<1> QED BY <1>2, StopClears DEF Follow

\* Every call keeps the finder clear.
LEMMA CallsClear ==
  ASSUME Full(l), Clear(l), Calls
  PROVE  Clear(l')
<1>1. CASE TrackChanges
  <2>1. PICK t : l' = Follow([l EXCEPT !.current = t])
    BY <1>1 DEF TrackChanges
  <2>2. PICK x : x = [l EXCEPT !.current = t]
    OBVIOUS
  <2>3. Full(x) /\ Clear(x)
    BY <2>2 DEF Full, Clear
  <2> QED BY <2>1, <2>2, <2>3, FollowClears
<1>2. CASE SetActive
  <2>1. PICK x, y : x = [l EXCEPT !.active = FALSE] /\ y = [l EXCEPT !.active = TRUE]
    OBVIOUS
  <2>2. Full(x) /\ Full(y) /\ Clear(y)
    BY <2>1 DEF Full, Clear
  <2>3. l' = Stop(x) \/ l' = Follow(y)
    BY <1>2, <2>1 DEF SetActive
  <2> QED BY <2>2, <2>3, StopClears, FollowClears
<1>3. CASE SetThirdParty
  <2>1. PICK c, off, on : /\ c = CancelThirdParty(l)
                          /\ off = [c EXCEPT !.thirdOn = FALSE, !.third = NoAnswer]
                          /\ on = [l EXCEPT !.thirdOn = TRUE]
    OBVIOUS
  <2>2. Full(c) /\ Clear(c) /\ ~ c.thirdPending
    BY <2>1, CancelClears
  <2>3. Full(off) /\ Clear(off)
    BY <2>1, <2>2 DEF Full, Clear
  <2>4. Full(on) /\ Clear(on)
    BY <2>1 DEF Full, Clear
  <2>5. Full(OpenLookup(on)) /\ Clear(OpenLookup(on))
    BY <2>4, OpenAlike, AlikeClear DEF Alike
  <2>6. l' = Settle(off) \/ l' = Settle(OpenLookup(on)) \/ l' = Settle(on)
    BY <1>3, <2>1 DEF SetThirdParty
  <2> QED BY <2>3, <2>4, <2>5, <2>6, SettleClears
<1>4. CASE RetryFailed
  <2>1. PICK o, t, x : /\ o = OpenLookup(l)
                       /\ t = IF o.third.text = "Failed" THEN NoAnswer ELSE o.third
                       /\ x = [o EXCEPT !.third = t]
    OBVIOUS
  <2>2. PICK z : z = [x EXCEPT !.source = NoAnswer]
    OBVIOUS
  <2>3. Alike(l, o)
    BY <2>1, OpenAlike
  <2>4. Full(x) /\ x.third = t /\ x.source = o.source /\ x.sourcePending = o.sourcePending
        /\ x.thirdPending = o.thirdPending
    BY <2>1, <2>3 DEF Full, Alike
  <2>5. Clear(x)
    <3>1. Clear(o)
      BY <2>3, AlikeClear
    <3>2. x.third = o.third \/ x.third = NoAnswer
      BY <2>1, <2>4
    <3> QED BY <2>4, <3>1, <3>2 DEF Clear
  <2>6. Full(z) /\ z.source = NoAnswer /\ z.third = x.third /\ z.thirdPending = x.thirdPending
    BY <2>2, <2>4 DEF Full
  <2>7. Clear(z)
    BY <2>5, <2>6 DEF Clear
  <2>8. Full(AskSource(z)) /\ Clear(AskSource(z))
    BY <2>6, <2>7, AskSourceClears
  <2>9. l' = Settle(AskSource(z)) \/ l' = Settle(x)
    <3>1. x = [OpenLookup(l) EXCEPT !.third = IF @.text = "Failed" THEN NoAnswer ELSE @]
      BY <2>1
    <3> QED BY <1>4, <2>2, <3>1 DEF RetryFailed
  <2> QED BY <2>4, <2>5, <2>8, <2>9, SettleClears
<1>5. CASE Forget
  <2>1. PICK x : x = [l EXCEPT !.memory = <<>>]
    OBVIOUS
  <2>2. Full(x) /\ Clear(x)
    BY <2>1 DEF Full, Clear
  <2>3. Full(FinishLookup(x))
    BY <2>2, FinishAlike DEF Alike
  <2>4. l' = Start(FinishLookup(x), l.track) \/ l' = x
    BY <1>5, <2>1 DEF Forget
  <2> QED BY <2>2, <2>3, <2>4, StartClears
<1> QED BY <1>1, <1>2, <1>3, <1>4, <1>5 DEF Calls

\* Answers that do not count change nothing but which are out.
Ignored(y) == Alike(l, y) /\ y.shown = l.shown

\* Taking an answer out of what is due changes nothing of the finder.
LEMMA RemovedIgnored ==
  ASSUME Full(l), NEW call
  PROVE  /\ Ignored([l EXCEPT !.sourceCalls = @ \ {call}])
         /\ Ignored([l EXCEPT !.thirdCalls = @ \ {call}])
BY DEF Full, Ignored, Alike

\* The source's turn: its answer, its silence, the end of the wait for it.
LEMMA SourceTurn ==
  ASSUME Full(l), Clear(l), SourceAnswered \/ SourceIsSilent \/ SourceTimedOut
  PROVE  /\ Clear(l') /\ Gains(l, l')
         /\ Ignored(l') \/ l.sourcePending
<1>1. CASE SourceAnswered
  <2>1. PICK call, text, x : /\ x = [l EXCEPT !.sourceCalls = @ \ {call}]
                             /\ l' = IF Counts(call, l.sourcePending)
                                       THEN SourceHas(x, Answer(text, call.track)) ELSE x
    BY <1>1 DEF SourceAnswered
  <2>2. Ignored(x)
    BY <2>1, RemovedIgnored
  <2>3. CASE ~ Counts(call, l.sourcePending)
    BY <2>1, <2>2, <2>3, AlikeClear DEF Ignored
  <2>4. CASE Counts(call, l.sourcePending)
    <3>1. l.sourcePending /\ l.source = NoAnswer
      BY <2>4 DEF Counts, Clear
    <3>2. PICK answer, m, y, c : /\ answer = Answer(text, call.track)
                                 /\ m = Remember(x, answer, "source")
                                 /\ y = [m EXCEPT !.sourcePending = FALSE, !.source = answer]
                                 /\ c = CancelThirdParty(y)
      OBVIOUS
    <3>3. Alike(x, m)
      BY <2>2, <3>2, RememberAlike DEF Ignored, Alike
    <3>4. Full(y) /\ y.sourcePending = FALSE /\ y.third = l.third /\ y.thirdPending = l.thirdPending
      BY <2>2, <3>2, <3>3 DEF Full, Alike, Ignored
    <3>5. Clear(y)
      BY <3>4 DEF Clear
    <3>6. Full(c) /\ Clear(c) /\ c.third = l.third
      <4>1. c = CancelThirdParty(y) /\ Full(y)
        BY <3>2, <3>4
      <4>2. Full(c) /\ (Clear(y) => Clear(c)) /\ c.third = y.third
        BY <4>1, CancelClears
      <4> QED BY <3>4, <3>5, <4>2
    <3>7. l' = Settle(c) \/ l' = Settle(y)
      BY <2>1, <2>4, <3>2 DEF SourceHas
    <3>8. Clear(l') /\ (l'.third = l.third \/ l.third = NoAnswer)
      BY <3>4, <3>5, <3>6, <3>7, SettleClears DEF Gains
    <3> QED BY <3>1, <3>8 DEF Gains
  <2> QED BY <2>3, <2>4
<1>2. CASE SourceIsSilent
  <2>1. PICK x, a : x = [l EXCEPT !.sourceSilent = TRUE] /\ a = MaybeAskThirdParty(x)
    OBVIOUS
  <2>2. Alike(l, x)
    BY <2>1 DEF Full, Alike
  <2>3. Full(a) /\ Clear(a) /\ Gains(x, a)
    BY <2>1, <2>2, AlikeClear, AskClears DEF Alike
  <2>4. l' = Update(a) /\ l.sourcePending
    BY <1>2, <2>1 DEF SourceIsSilent
  <2>5. Alike(a, l')
    BY <2>3, <2>4, UpdateAlike
  <2> QED BY <2>2, <2>3, <2>4, <2>5, AlikeClear DEF Gains, Alike
<1>3. CASE SourceTimedOut
  <2>1. PICK calls, none, x : /\ calls = Outdated(l.sourceCalls) /\ none = Answer("Missing", l.track)
                              /\ x = [l EXCEPT !.sourceCalls = calls, !.sourcePending = FALSE,
                                               !.source = none]
    OBVIOUS
  <2>2. l' = Settle(x) /\ l.sourcePending
    BY <1>3, <2>1 DEF SourceTimedOut, SourceWaitOver
  <2>3. Full(x) /\ x.sourcePending = FALSE /\ x.third = l.third /\ x.thirdPending = l.thirdPending
    BY <2>1 DEF Full
  <2>4. Clear(x)
    BY <2>3 DEF Clear
  <2>5. Clear(l') /\ (l'.third = l.third \/ l.third = NoAnswer)
    BY <2>2, <2>3, <2>4, SettleClears DEF Gains
  <2> QED BY <2>2, <2>5 DEF Gains, Clear
<1> QED BY <1>1, <1>2, <1>3

\* The service's turn: the source's text stays what it is.
LEMMA ServiceTurn ==
  ASSUME Full(l), Clear(l), ThirdPartyAnswered \/ ThirdPartyTimedOut
  PROVE  /\ Clear(l') /\ Gains(l, l')
         /\ \/ Ignored(l')
            \/ /\ l.thirdPending /\ l'.source = l.source
               /\ l'.active = l.active /\ l'.track = l.track
<1>1. CASE ThirdPartyAnswered
  <2>1. PICK call, text, x : /\ x = [l EXCEPT !.thirdCalls = @ \ {call}]
                             /\ l' = IF Counts(call, l.thirdPending)
                                       THEN ThirdPartyHas(x, Answer(text, call.track)) ELSE x
    BY <1>1 DEF ThirdPartyAnswered
  <2>2. Ignored(x)
    BY <2>1, RemovedIgnored
  <2>3. CASE ~ Counts(call, l.thirdPending)
    BY <2>1, <2>2, <2>3, AlikeClear DEF Ignored
  <2>4. CASE Counts(call, l.thirdPending)
    <3>1. l.thirdPending /\ l.third = NoAnswer
      BY <2>4 DEF Counts, Clear
    <3>2. PICK answer, m, y, u : /\ answer = Answer(text, call.track)
                                 /\ m = Remember(x, answer, "third")
                                 /\ y = [m EXCEPT !.thirdPending = FALSE, !.third = answer]
                                 /\ u = Update(y)
      OBVIOUS
    <3>3. Alike(x, m)
      BY <2>2, <3>2, RememberAlike DEF Ignored, Alike
    <3>4. Full(y) /\ y.thirdPending = FALSE /\ y.source = l.source
          /\ y.sourcePending = l.sourcePending /\ y.active = l.active /\ y.track = l.track
      BY <2>2, <3>2, <3>3 DEF Full, Alike, Ignored
    <3>5. Clear(y)
      BY <3>4 DEF Clear
    <3>6. Alike(y, u)
      BY <3>2, <3>4, UpdateAlike
    <3>7. l' = MaybeFinish(u)
      BY <2>1, <2>4, <3>2 DEF ThirdPartyHas
    <3>8. Alike(u, l')
      BY <3>6, <3>7, FinishAlike DEF Alike
    <3> QED BY <3>1, <3>4, <3>5, <3>6, <3>8, AlikeClear DEF Gains, Alike
  <2> QED BY <2>3, <2>4
<1>2. CASE ThirdPartyTimedOut
  <2>1. PICK none, c, x, u : /\ none = Answer("Missing", l.track) /\ c = CancelThirdParty(l)
                             /\ x = [c EXCEPT !.third = none] /\ u = Update(x)
    OBVIOUS
  <2>2. l.thirdPending /\ l.third = NoAnswer /\ l' = MaybeFinish(u)
    BY <1>2, <2>1 DEF ThirdPartyTimedOut, Clear
  <2>3. /\ Full(c) /\ ~ c.thirdPending /\ c.source = l.source /\ c.sourcePending = l.sourcePending
        /\ c.active = l.active /\ c.track = l.track
    BY <2>1, CancelClears
  <2>4. /\ Full(x) /\ ~ x.thirdPending /\ x.source = l.source /\ x.sourcePending = l.sourcePending
        /\ x.active = l.active /\ x.track = l.track
    BY <2>1, <2>3 DEF Full
  <2>5. Clear(x)
    BY <2>4 DEF Clear
  <2>6. Alike(x, u)
    BY <2>1, <2>4, UpdateAlike
  <2>7. Alike(u, l')
    BY <2>2, <2>6, FinishAlike DEF Alike
  <2> QED BY <2>2, <2>4, <2>5, <2>6, <2>7, AlikeClear DEF Gains, Alike
<1> QED BY <1>1, <1>2

\* Where each rank stands.
LEMMA Places ==
  /\ PlaceOf("SourceSynced") = 1 /\ PlaceOf("ThirdPartySynced") = 2 /\ PlaceOf("SourceText") = 3
  /\ PlaceOf("ThirdPartyText") = 4 /\ PlaceOf("Nothing") = 5
<1>1. DOMAIN Ranks = 1..5 /\ Ranks[1] = "SourceSynced" /\ Ranks[2] = "ThirdPartySynced"
      /\ Ranks[3] = "SourceText" /\ Ranks[4] = "ThirdPartyText" /\ Ranks[5] = "Nothing"
  BY DEF Ranks
<1>2. \A i \in 1..5 : i = 1 \/ i = 2 \/ i = 3 \/ i = 4 \/ i = 5
  OBVIOUS
<1> HIDE DEF Ranks
<1>3. ASSUME NEW k \in 1..5 PROVE PlaceOf(Ranks[k]) = k
  <2>1. \A i \in 1..5 : Ranks[i] = Ranks[k] => i = k
    BY <1>1, <1>2
  <2> QED BY <1>1, <2>1 DEF PlaceOf
<1>4. 1 \in 1..5 /\ 2 \in 1..5 /\ 3 \in 1..5 /\ 4 \in 1..5 /\ 5 \in 1..5
  OBVIOUS
<1> QED BY <1>1, <1>3, <1>4

\* An answer where there was none never lowers the rank.
LEMMA GainsImprove ==
  ASSUME NEW x, NEW y, Gains(x, y)
  PROVE  PlaceOf(Rank(y)) <= PlaceOf(Rank(x))
<1>1. NoAnswer.text = "none"
  BY DEF NoAnswer, Answer
<1> QED BY <1>1, Places DEF Gains, Rank

\* A text that is shown and may not get better: nobody is asked who could have one.
LEMMA ShownIs ==
  ASSUME Shows(l), Clear(l), l.shown.phase = "Shown", ~ l.shown.better
  PROVE  /\ l.active /\ l.track # NoTrack /\ ~ l.sourcePending
         /\ l.thirdPending => l.source.text = "Synced"
<1>1. NoAnswer.text = "none"
  BY DEF NoAnswer, Answer
<1>2. l.active /\ l.track # NoTrack /\ Rank(l) # "Nothing"
  <2>1. Hidden.phase = "Idle" /\ DOMAIN Hidden = {"track", "phase", "lyrics", "better"}
    BY DEF Hidden
  <2>2. ASSUME NEW t PROVE [Hidden EXCEPT !.track = t].phase = "Idle"
    BY DEF Hidden
  <2>3. ASSUME NEW t, NEW p PROVE [Hidden EXCEPT !.track = t, !.phase = p].phase = p
    BY DEF Hidden
  <2>4. WithoutText(l) # "Shown"
    <3>1. l.source.text \in {"NoAccount", "Failed"} => l.source.text # "Shown"
      OBVIOUS
    <3> QED BY <3>1 DEF WithoutText
  <2> QED BY <2>2, <2>3, <2>4 DEF Shows, View
<1>3. ~ Better(l, Rank(l))
  <2>1. l.shown.better = Better(l, Rank(l))
    BY <1>2 DEF Shows, View
  <2> QED BY <2>1, Zenon
<1>4. ~ l.sourcePending
  BY <1>1, <1>3 DEF Better, Clear, Rank
<1>5. l.thirdPending => Rank(l) \notin {"SourceText", "ThirdPartyText", "ThirdPartySynced", "Nothing"}
  BY <1>1, <1>2, <1>3 DEF Better, Clear, Rank
<1>6. l.thirdPending => l.source.text = "Synced"
  BY <1>5 DEF Rank
<1> QED BY <1>2, <1>4, <1>6

\* The source's synced text is shown whatever the service says.
LEMMA SyncedShows ==
  ASSUME NEW x, NEW y, Shows(x), Shows(y), x.source.text = "Synced",
         y.source = x.source, y.active = x.active, y.track = x.track
  PROVE  y.shown = x.shown
<1>1. Rank(x) = "SourceSynced" /\ Rank(y) = "SourceSynced"
  BY DEF Rank
<1>2. Better(x, "SourceSynced") = FALSE /\ Better(y, "SourceSynced") = FALSE
  BY DEF Better
<1> QED BY <1>1, <1>2 DEF Shows, View

\* Clearness is inductive.
LEMMA ClearStep ==
  ASSUME Inv, Clear(l), [Next]_vars
  PROVE  Clear(l')
<1>1. Full(l)
  BY FinderFull, InvTyped
<1>2. CASE UNCHANGED vars
  BY <1>2 DEF vars
<1> QED BY <1>1, <1>2, CallsClear, SourceTurn, ServiceTurn DEF Next, Timers

\* What a call does not change only improves: an answer, or the end of a wait,
\* never replaces the text shown by a worse one, and one that may not get better
\* stays (lyrics_finder.cpp, rank() and update()).
THEOREM AlwaysImproves == Spec => TextsOnlyImprove
<1> DEFINE I == Inv /\ Clear(l)
           Better2 == PlaceOf(Rank(l')) <= PlaceOf(Rank(l))
           Stays == l.shown.phase = "Shown" /\ ~ l.shown.better => l'.shown = l.shown
<1>1. Init => I
  <2> SUFFICES ASSUME Init PROVE I
    OBVIOUS
  <2>1. Clear(l)
    BY DEF Init, NewFinder, Clear
  <2> QED BY <2>1, InitInv, LyricsAssumption
<1>2. I /\ [Next]_vars => I'
  BY ClearStep, StepInv, LyricsAssumption
<1>3. I /\ I' /\ [Next]_vars => [Calls \/ (Better2 /\ Stays)]_vars
  <2> SUFFICES ASSUME I, I', Next, ~ Calls PROVE Better2 /\ Stays
    OBVIOUS
  <2>1. Full(l) /\ Clear(l) /\ Shows(l)
    BY FinderFull, InvTyped DEF Inv
  <2>2. Shows(l')
    BY DEF Inv
  <2>3. CASE SourceAnswered \/ SourceIsSilent \/ SourceTimedOut
    <3>1. Gains(l, l') /\ (Ignored(l') \/ l.sourcePending)
      BY <2>1, <2>3, SourceTurn
    <3>2. Better2
      <4>1. PICK y : y = l'
        OBVIOUS
      <4> QED BY <3>1, <4>1, GainsImprove
    <3>3. Stays
      BY <2>1, <3>1, ShownIs DEF Ignored
    <3> QED BY <3>2, <3>3
  <2>4. CASE ThirdPartyAnswered \/ ThirdPartyTimedOut
    <3>1. Gains(l, l')
          /\ \/ Ignored(l')
             \/ l.thirdPending /\ l'.source = l.source /\ l'.active = l.active /\ l'.track = l.track
      BY <2>1, <2>4, ServiceTurn
    <3>2. Better2
      <4>1. PICK y : y = l'
        OBVIOUS
      <4> QED BY <3>1, <4>1, GainsImprove
    <3>3. Stays
      <4>1. PICK y : y = l'
        OBVIOUS
      <4>2. Shows(y)
        BY <2>2, <4>1
      <4> QED BY <2>1, <3>1, <4>1, <4>2, ShownIs, SyncedShows DEF Ignored
    <3> QED BY <3>2, <3>3
  <2> QED BY <2>3, <2>4 DEF Next, Timers
<1> QED BY <1>1, <1>2, <1>3, PTL DEF Spec, TextsOnlyImprove

=============================================================================
