------------------------------- MODULE Parts --------------------------------
(***************************************************************************)
(* Parts of the program that share no state with each other, checked in    *)
(* one run: the Spotify session, the telemetry reporter, and the three     *)
(* channels between the engine's threads below the whole values that       *)
(* AudioEngine passes over them.  Since no step of one can depend on       *)
(* another, every behaviour is one of a single part, chosen at the start,  *)
(* while the others stay as they begin.                                    *)
(***************************************************************************)
EXTENDS Naturals

CONSTANTS
  Requests, MaxPoints, MaxLogins, MaxFaults,
  MaxRuns, MaxQueued, MaxBatch, MaxExtras,
  MaxPublished, MaxSnapshots, Capacity, MaxPushed

\* A key is no failure; the first run of the reporter is over when it begins; the
\* ring has a slot.
ASSUME PartsAssumption ==
  /\ Requests \cap {"unasked", "waiting", "Network", "Refused", "Failed"} = {}
  /\ MaxPoints \in Nat
  /\ MaxRuns \in Nat \ {0} /\ MaxQueued \in Nat /\ MaxBatch \in Nat
  /\ Capacity \in Nat \ {0} /\ MaxPushed \in Nat

VARIABLES
  part,
  session, log,
  runs, files, seen,
  slots, middle, back, newest, written, front, reading, heard, ready,
  sequence, fields, stored, published, loading, before, got, since, result,
  ring, head, tail, room, filled

Spotify == INSTANCE SpotifySession
Telemetry == INSTANCE Reporter
Coefficients == INSTANCE EqualizerSlots
Snapshots == INSTANCE PlaybackSeqlock
Blocks == INSTANCE BlockRing

spotifyVars == <<session, log>>
telemetryVars == <<runs, files, seen>>
coefficientVars == <<slots, middle, back, newest, written, front, reading, heard, ready>>
snapshotVars == <<sequence, fields, stored, published, loading, before, got, since, result>>
blockVars == <<ring, head, tail, room, filled>>
vars == <<part, spotifyVars, telemetryVars, coefficientVars, snapshotVars, blockVars>>

Init ==
  /\ part \in {"spotify", "telemetry", "coefficients", "snapshots", "blocks"}
  /\ Spotify!Init /\ Coefficients!Init /\ Snapshots!Init /\ Blocks!Init
  /\ Telemetry!Init /\ (part # "telemetry" => seen.ends[1] = "closed")

SpotifyStep ==
  /\ part = "spotify" /\ Spotify!Next
  /\ UNCHANGED <<part, telemetryVars, coefficientVars, snapshotVars, blockVars>>

TelemetryStep ==
  /\ part = "telemetry" /\ Telemetry!Next
  /\ UNCHANGED <<part, spotifyVars, coefficientVars, snapshotVars, blockVars>>

CoefficientsStep ==
  /\ part = "coefficients" /\ Coefficients!Next
  /\ UNCHANGED <<part, spotifyVars, telemetryVars, snapshotVars, blockVars>>

SnapshotsStep ==
  /\ part = "snapshots" /\ Snapshots!Next
  /\ UNCHANGED <<part, spotifyVars, telemetryVars, coefficientVars, blockVars>>

BlocksStep ==
  /\ part = "blocks" /\ Blocks!Next
  /\ UNCHANGED <<part, spotifyVars, telemetryVars, coefficientVars, snapshotVars>>

Next == SpotifyStep \/ TelemetryStep \/ CoefficientsStep \/ SnapshotsStep \/ BlocksStep

\* A part that takes steps is as fair as on its own.
SpotifyFairness ==
  /\ WF_spotifyVars(part = "spotify" /\ (Spotify!Resolved \/ Spotify!ResolveTimesOut))
  /\ WF_spotifyVars(part = "spotify" /\ Spotify!Connected)
  /\ WF_spotifyVars(part = "spotify" /\ Spotify!ReconnectTimer)
  /\ WF_spotifyVars(part = "spotify" /\ Spotify!KeyTimers)

TelemetryFairness == \A r \in 1..MaxRuns :
  /\ WF_telemetryVars(part = "telemetry" /\ Telemetry!SendTimer(r))
  /\ WF_telemetryVars(part = "telemetry" /\ Telemetry!DelayEnds(r))
  /\ WF_telemetryVars(part = "telemetry" /\ Telemetry!Serves(r))

Spec == Init /\ [][Next]_vars /\ SpotifyFairness /\ TelemetryFairness

-----------------------------------------------------------------------------
(* The properties are those of the parts. *)

\* Each request is told its own key (spotify/client/session.cpp, ApAudioKey).
KeysAreTheirOwn == Spotify!KeysAreTheirOwn

\* Each request for a key is answered, unless a drop took its timer and then the
\* session hangs (spotify/client/session.cpp).
KeysAreAnswered == Spotify!KeysAreAnswered

\* A lost connection is made again, as long as no login hangs
\* (spotify/client/session.cpp).
ComesBack == Spotify!ComesBack

\* Events stay until the server took them (telemetry/reporter.cpp).
EventsAreKept == Telemetry!EventsAreKept

\* How a run ended is told as it was, once it is told (telemetry/reporter.cpp).
EndsAreToldRight == Telemetry!EndsAreToldRight

\* A run that lives sends what it has (telemetry/reporter.cpp).
QueuesEmpty == Telemetry!QueuesEmpty

\* Coefficients are read whole, and the last ones are not lost (audio/equalizer.cpp).
CoefficientsArrive == Coefficients!CoefficientsArrive

\* A snapshot is read whole and is not old (audio/blocks.h).
SnapshotsAreWhole == Snapshots!SnapshotsAreWhole

\* The ring of blocks is a sequence to its threads (audio/blocks.h).
RingIsSequence == Blocks!RingIsSequence
=============================================================================
