--------------------------- MODULE SpotifySession ---------------------------
(***************************************************************************)
(* The connection to a Spotify access point and the audio keys asked for   *)
(* over it (src/spotify/client/session.cpp), with the stages and the keep- *)
(* alive of spotify/protocol/access_point.cpp.                             *)
(*                                                                         *)
(* Each request is for a file of its own, so that a timer, which looks its *)
(* request up by the file, finds its own.  Delays are left out: a timer    *)
(* that runs may fire.  A sequence number is that of the connection plus   *)
(* one, 0 is none.  Ciphers, credentials and the account's country and     *)
(* product are left out.                                                   *)
(***************************************************************************)
EXTENDS Integers, FiniteSets, Sequences, SequencesExt

CONSTANTS
  Requests,    \* audioKey() calls
  MaxPoints,   \* bound: access points an answer of apresolve lists
  MaxLogins,   \* bound: calls of login()
  MaxFaults    \* bound: connections lost or given up, access points that decline,
               \* requests to apresolve that run out of their timeout

VARIABLES session, log
vars == <<session, log>>

Point == 0..MaxPoints
Stages == {"none", "connecting", "login", "ready"}
NewSession ==
  [active |-> FALSE, resolving |-> FALSE, points |-> 0, next |-> 0, conn |-> "none",
   keepAlive |-> "off", reconnect |-> FALSE, keys |-> <<>>, nextSequence |-> 1]
\* answers: what done() of each request was told.  due: requests the access point
\* of this connection has and did not answer.  abandoned: a request to apresolve
\* timed out.  Counts with a bound: logins, faults.
NewLog == [answers |-> [r \in Requests |-> "unasked"], due |-> {}, abandoned |-> FALSE,
           logins |-> 0, faults |-> 0]

Init == session = NewSession /\ log = NewLog

LoggedIn(s) == s.conn = "ready"
Waits(key) == key.sequence = 0

-----------------------------------------------------------------------------
(* Both variables are passed through the calls as one record. *)

Both == [s |-> session, log |-> log]
Now(b) == session' = b.s /\ log' = b.log

Told(b, requests, result) ==
  [b EXCEPT !.log.answers = [r \in Requests |-> IF r \in requests THEN result ELSE @[r]]]

FinishKey(b, i, result) ==
  Told([b EXCEPT !.s.keys = RemoveAt(@, i)], {b.s.keys[i].id}, result)

FailAllKeys(b, failure) ==
  Told([b EXCEPT !.s.keys = <<>>], {b.s.keys[i].id : i \in DOMAIN b.s.keys}, failure)

DropConnection(b) ==
  [b EXCEPT !.s.conn = "none", !.s.keepAlive = "off", !.log.due = {},
            !.s.keys = [i \in DOMAIN @ |-> [@[i] EXCEPT !.sequence = 0, !.timer = "none"]]]

Resolve(b) == [b EXCEPT !.s.resolving = TRUE]

ConnectNext(b) ==
  IF ~ b.s.active THEN b
  ELSE IF b.s.next >= b.s.points THEN Resolve(b)
  ELSE [DropConnection(b) EXCEPT !.s.next = @ + 1, !.s.conn = "connecting"]

\* Mutant: only the list of access points starts again.
ScheduleReconnectNever(b) ==
  IF b.s.active THEN [FailAllKeys(b, "Network") EXCEPT !.s.next = 0] ELSE b

ScheduleReconnect(b) ==
  IF b.s.active
    THEN [FailAllKeys(b, "Network") EXCEPT !.s.next = 0, !.s.reconnect = TRUE]
    ELSE b

\* A row whose request goes out with a number
Sending(key, number) ==
  [key EXCEPT !.sequence = number, !.attempts = @ + 1, !.timer = "answer"]

\* Mutant: a request's number is its row.
SendKeyByRow(b, i) ==
  IF LoggedIn(b.s)
    THEN [b EXCEPT !.s.keys[i] = Sending(@, i),
                   !.log.due = @ \cup {[sequence |-> i, id |-> b.s.keys[i].id]}]
    ELSE b

SendKey(b, i) ==
  IF LoggedIn(b.s)
    THEN [b EXCEPT !.s.keys[i] = Sending(@, b.s.nextSequence),
                   !.s.nextSequence = @ + 1,
                   !.log.due = @ \cup {[sequence |-> b.s.nextSequence, id |-> b.s.keys[i].id]}]
    ELSE b

\* Rows that wait, and the number of each when they are sent in their order
Waiting(keys) == {i \in DOMAIN keys : Waits(keys[i])}
NumberOf(keys, next, i) == next + Cardinality({j \in Waiting(keys) : j < i})

AllSent(keys, next) ==
  [i \in DOMAIN keys |->
    IF i \in Waiting(keys) THEN Sending(keys[i], NumberOf(keys, next, i)) ELSE keys[i]]
Asking(keys, next) ==
  {[sequence |-> NumberOf(keys, next, i), id |-> keys[i].id] : i \in Waiting(keys)}

\* SendKey() for each row that waits
SendQueuedKeys(b) ==
  IF LoggedIn(b.s)
    THEN [b EXCEPT !.s.keys = AllSent(@, b.s.nextSequence),
                   !.s.nextSequence = @ + Cardinality(Waiting(b.s.keys)),
                   !.log.due = @ \cup Asking(b.s.keys, b.s.nextSequence)]
    ELSE b

\* Rows of the requests with a number
Sent(b, sequence) == {i \in DOMAIN b.s.keys : b.s.keys[i].sequence = sequence}

\* Mutant: nothing starts the second attempt.
AskAgainUntimed(b, i) == [b EXCEPT !.s.keys[i] = [@ EXCEPT !.sequence = 0, !.timer = "none"]]

\* The second attempt, a second later
AskAgain(b, i) == [b EXCEPT !.s.keys[i] = [@ EXCEPT !.sequence = 0, !.timer = "retry"]]

RetryOrFail(b, sequence, failure) ==
  IF Sent(b, sequence) = {} THEN b
  ELSE LET i == CHOOSE i \in Sent(b, sequence) : \A j \in Sent(b, sequence) : i <= j
       IN IF failure = "Refused" \/ b.s.keys[i].attempts >= 2
            THEN FinishKey(b, i, failure) ELSE AskAgain(b, i)

LoggedOut(b) ==
  FailAllKeys(DropConnection([b EXCEPT !.s.active = FALSE, !.s.reconnect = FALSE,
                                       !.s.resolving = FALSE]), "Network")

-----------------------------------------------------------------------------
(* Calls *)

Login ==
  /\ log.logins < MaxLogins
  /\ Now(Resolve([LoggedOut(Both) EXCEPT !.s.active = TRUE, !.log.logins = @ + 1]))

Logout == session.active /\ Now(LoggedOut(Both))

Asked(b, request) ==
  LET asked == [b EXCEPT !.s.keys = Append(@, [id |-> request, attempts |-> 0, sequence |-> 0,
                                               timer |-> "queued"]),
                         !.log.answers[request] = "waiting"]
  IN IF LoggedIn(b.s) THEN SendKey(asked, Len(asked.s.keys)) ELSE asked

AudioKey(request) ==
  /\ log.answers[request] = "unasked"
  /\ Now(IF session.active THEN Asked(Both, request) ELSE Told(Both, {request}, "Network"))

Fault == log.faults < MaxFaults
Faulty(b) == [b EXCEPT !.log.faults = @ + 1]

-----------------------------------------------------------------------------
(* apresolve *)

\* Every answer that is not a canceled request counts, an error as one fallback.
Resolved ==
  /\ session.resolving
  /\ \E n \in 1..MaxPoints :
       Now(ConnectNext([Both EXCEPT !.s.resolving = FALSE, !.s.points = n, !.s.next = 0]))

\* OperationCanceledError, the transfer timeout's error as well as abort()'s:
\* nothing asks again.
ResolveTimesOut ==
  /\ Fault /\ session.resolving
  /\ Now([Faulty(Both) EXCEPT !.s.resolving = FALSE, !.log.abandoned = TRUE])

-----------------------------------------------------------------------------
(* The connection *)

Connected ==
  /\ session.conn = "connecting"
  /\ Now([Both EXCEPT !.s.conn = "login", !.s.nextSequence = 1])

\* onSocketLost(): refused, or closed by the other side
SocketLost ==
  /\ Fault /\ session.active /\ session.conn # "none"
  /\ LET b == DropConnection(Faulty(Both))
     IN Now(IF ~ LoggedIn(session) /\ session.next < session.points
              THEN ConnectNext(b) ELSE ScheduleReconnect(b))

\* ApLoggedIn
Welcome ==
  /\ session.conn = "login"
  /\ Now(SendQueuedKeys([Both EXCEPT !.s.conn = "ready", !.s.keepAlive = "ping"]))

\* ApLoginFailed with TryAnotherAp
TryAnotherAp ==
  /\ Fault /\ session.conn = "login"
  /\ Now(ConnectNext(DropConnection(Faulty(Both))))

\* ApLoginFailed with any other code
LoginRefused ==
  /\ session.conn = "login"
  /\ Now(FailAllKeys(DropConnection([Both EXCEPT !.s.active = FALSE]), "Failed"))

GivenUp(b) == ScheduleReconnect(DropConnection(b))

\* What an access point says cannot be read: AccessPoint::fail().
AccessPointFails ==
  /\ Fault /\ session.conn \in {"login", "ready"}
  /\ Now(GivenUp(Faulty(Both)))

\* ApAudioKey; a number nobody waits for is dropped.
KeyArrives(due) ==
  LET b == [Both EXCEPT !.log.due = @ \ {due}]
      found == Sent(b, due.sequence)
  IN Now(IF found = {} THEN b ELSE FinishKey(b, CHOOSE i \in found : \A j \in found : i <= j, due.id))

\* ApAudioKeyRefused
KeyRefused(due) ==
  \E failure \in {"Refused", "Failed"} :
    Now(RetryOrFail([Both EXCEPT !.log.due = @ \ {due}], due.sequence, failure))

KeyAnswered == \E due \in log.due : KeyArrives(due) \/ KeyRefused(due)

Ping == LoggedIn(session) /\ Now([Both EXCEPT !.s.keepAlive = "pong"])
PongAck == LoggedIn(session) /\ Now([Both EXCEPT !.s.keepAlive = "ping"])

-----------------------------------------------------------------------------
(* Timers *)

\* advance(): a pong is due, or the access point stopped answering.
KeepAliveTimer ==
  /\ LoggedIn(session)
  /\ IF session.keepAlive = "pong"
       THEN Now([Both EXCEPT !.s.keepAlive = "ack"])
       ELSE Fault /\ Now(GivenUp(Faulty(Both)))

ReconnectTimer ==
  /\ session.reconnect
  /\ Now(ConnectNext([Both EXCEPT !.s.reconnect = FALSE]))

KeyTimer(i) ==
  LET fired == [Both EXCEPT !.s.keys[i].timer = "none"]
      key == session.keys[i]
  IN Now(CASE key.timer = "answer" -> RetryOrFail(fired, key.sequence, "Failed")
           [] key.timer = "queued" -> FinishKey(fired, i, "Network")
           [] key.timer = "retry" -> SendKey(fired, i))

KeyTimers == \E i \in DOMAIN session.keys : session.keys[i].timer # "none" /\ KeyTimer(i)

Next ==
  \/ Login \/ Logout \/ \E request \in Requests : AudioKey(request)
  \/ Resolved \/ ResolveTimesOut
  \/ Connected \/ SocketLost \/ Welcome \/ TryAnotherAp \/ LoginRefused \/ AccessPointFails
  \/ KeyAnswered \/ Ping \/ PongAck
  \/ KeepAliveTimer \/ ReconnectTimer \/ KeyTimers

Spec == Init /\ [][Next]_vars

\* Timers fire; a request to apresolve and an attempt to connect end one way or the
\* other, by the transfer's timeout and by the system's.  A login has none
\* (AccessPoint::deadline()): an access point may leave it without an answer.
Fairness ==
  /\ WF_vars(Resolved \/ ResolveTimesOut) /\ WF_vars(Connected)
  /\ WF_vars(ReconnectTimer) /\ WF_vars(KeyTimers)
FairSpec == Spec /\ Fairness

-----------------------------------------------------------------------------

\* A request is told its own key: numbers start again on each connection, and an
\* answer is matched by the number alone (session.cpp, ApAudioKey).
KeysAreTheirOwn == \A r \in Requests : log.answers[r] \notin Requests \ {r}

\* The access point is silent before the login, which nothing ends.
LoginHangs == session.conn = "login"

\* A request to apresolve timed out and nothing asks again (ResolveTimesOut).
Forsaken ==
  /\ log.abandoned /\ session.conn = "none"
  /\ ~ session.resolving /\ ~ session.reconnect

\* dropConnection() took the timer of a request.
Untimed(r) == \E i \in DOMAIN session.keys :
  session.keys[i].id = r /\ session.keys[i].timer = "none"

\* src/spotify/client/README.md: "audioKey answers once", whatever becomes of the
\* connection.  A request is left only where a drop took its timer before the login and
\* then the session hangs; one that keeps its timer is answered even there.
KeysAreAnswered == \A r \in Requests :
  []<>~ (Untimed(r) /\ (LoginHangs \/ Forsaken))
    => (log.answers[r] = "waiting" ~> log.answers[r] # "waiting")

\* README: a connection that drops, fails or is declined is made again, until
\* there is no account (logout() or a refused login): as long as no login hangs.
ComesBack ==
  []<>~ LoginHangs => (session.active ~> (LoggedIn(session) \/ ~ session.active \/ Forsaken))
=============================================================================
