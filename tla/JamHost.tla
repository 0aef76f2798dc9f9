------------------------------ MODULE JamHost ------------------------------
(***************************************************************************)
(* The host's side of a jam (src/jam): HostSession with its Client, the    *)
(* stored session, the jam mode as far as it starts and ends, and the jam  *)
(* server, of which the code here shows only the messages.                 *)
(*                                                                         *)
(* A connection is a number; what the app wrote on each and the server has *)
(* not read is in app.up, what the server wrote on the current one is in   *)
(* down.  A request's id is the connection it was sent on, since the app   *)
(* remembers at most one request and one End of each.  Tracks of guests,   *)
(* snapshots, settings and links are left out; the server's address is set.*)
(***************************************************************************)
EXTENDS Integers, Sequences, FiniteSets

CONSTANTS
  Items,           \* bound: items of the jam's queue that are played
  MaxCreates,      \* bound: jams the user creates
  MaxRuns,         \* bound: starts of the program
  MaxBreaks,       \* bound: connections that break
  MaxRefusals,     \* bound: requests the server refuses for now
  MaxEvents        \* bound: jams, breaks and items together

ASSUME JamAssumption ==
  /\ MaxCreates \in Nat /\ MaxRuns \in Nat /\ MaxBreaks \in Nat /\ MaxRefusals \in Nat
  /\ MaxEvents \in Nat

VARIABLES
  app, down, server,
  log   \* what happened: items begun in each room, those begun while a resume
        \* was out (late), those lost with a connection, whether a jam was created
        \* before the question about the stored one was answered (overlaps, after
        \* which the bounds are reached), and the counts that have a bound
vars == <<app, down, server, log>>

Conns == 0..(MaxCreates + MaxRuns + MaxBreaks + MaxRefusals)
Rooms == 1..(MaxCreates + MaxBreaks)
Begun == UNION {log.begun[room] : room \in Rooms}
MoreMayHappen == ~ log.overlaps /\ log.creates + log.breaks + Cardinality(Begun) < MaxEvents

NoSession == [room |-> 0, outbox |-> {}]
HasSession(x) == x.session.room # 0
IsDiscarding(x) == x.discarding.room # 0
HasStored(x) == x.stored.room # 0
HasSocket(x) == x.status \in {"Connecting", "Online"}

\* A run of the program begins: the session is loaded and nothing is connected.
NewRun(disk, conn, up) ==
  [session |-> NoSession, stored |-> disk, discarding |-> NoSession, creating |-> FALSE,
   connected |-> FALSE, request |-> 0, ending |-> 0, later |-> FALSE, status |-> "Idle",
   outbox |-> {}, disk |-> disk, jam |-> FALSE, fed |-> FALSE,
   conn |-> conn, up |-> up]

-----------------------------------------------------------------------------
(* Client *)

\* setStatus() and what HostSession makes of it
WithStatus(x, status) == [x EXCEPT !.status = status, !.connected = @ /\ status = "Online"]

\* start() and connectSocket(): a socket that was open is closed.
StartClient(x) == WithStatus([x EXCEPT !.conn = @ + 1], "Connecting")
StopClient(x) == WithStatus(x, "Stopped")

\* send(): refused unless Online.
Sent(x, type, room, items) ==
  IF x.status = "Online"
    THEN [x EXCEPT !.up[x.conn] = Append(@, [type |-> type, room |-> room, items |-> items])]
    ELSE x

Save(x, session) == [x EXCEPT !.session = session, !.disk = session]

\* Mutant: the outbox stays in memory.
WithOutboxUnsaved(x, items) == [x EXCEPT !.outbox = items]

\* setOutbox() and the handler of outboxChanged
WithOutbox(x, items) ==
  LET y == [x EXCEPT !.outbox = items]
  IN IF items # x.outbox /\ HasSession(x) THEN Save(y, [y.session EXCEPT !.outbox = items]) ELSE y

-----------------------------------------------------------------------------
(* HostSession *)

ConnectTo(x) == StartClient([x EXCEPT !.later = FALSE])
DropConnection(x) == StopClient([x EXCEPT !.later = FALSE, !.connected = FALSE])

\* Mutant: nothing starts the timer.
RetryLaterNever(x) == DropConnection(x)
RetryLater(x) == [DropConnection(x) EXCEPT !.later = TRUE]

EndLocally(x) ==
  LET y == WithOutbox(DropConnection([x EXCEPT !.session = NoSession, !.request = 0]), {})
  IN [y EXCEPT !.disk = NoSession, !.jam = FALSE]

FinishDiscard(x) ==
  LET y == [x EXCEPT !.discarding = NoSession, !.ending = 0, !.request = 0]
  IN IF HasSession(x) \/ x.creating THEN y ELSE DropConnection(y)

StartJam(x) == [x EXCEPT !.jam = TRUE, !.fed = @ /\ x.jam]

\* Mutant: the outbox is not sent.
AskRoomForgets(x, y) ==
  IF HasSession(x) THEN Sent(y, "resume", x.session.room, {})
  ELSE IF IsDiscarding(x) THEN Sent(y, "resume", x.discarding.room, {})
  ELSE Sent(y, "create", 0, {})

\* sendResume() of a session, or create
AskRoom(x, y) ==
  IF HasSession(x) THEN Sent(y, "resume", x.session.room, x.outbox)
  ELSE IF IsDiscarding(x) THEN Sent(y, "resume", x.discarding.room, x.discarding.outbox)
  ELSE Sent(y, "create", 0, {})

Welcomed(x) ==
  LET y == [WithStatus(x, "Online") EXCEPT !.connected = FALSE]
  IN IF HasSession(x) \/ IsDiscarding(x) \/ x.creating
       THEN AskRoom(x, [y EXCEPT !.request = x.conn]) ELSE y

Created(x, room) ==
  StartJam(Save([x EXCEPT !.creating = FALSE, !.request = 0, !.connected = TRUE],
                [room |-> room, outbox |-> {}]))

Resumed(x) ==
  LET y == [x EXCEPT !.request = 0]
  IN IF IsDiscarding(x) THEN Sent([y EXCEPT !.ending = x.conn], "end", 0, {})
     ELSE WithOutbox([y EXCEPT !.connected = TRUE], {})

\* Mutant: only a refused End finishes a discard.
RejectedKeepsDiscard(x, id, gone) ==
  LET y == [x EXCEPT !.request = 0] IN
  CASE id = x.ending -> FinishDiscard(x)
    [] id = x.request /\ x.creating -> DropConnection([y EXCEPT !.creating = FALSE])
    [] id = x.request /\ HasSession(x) -> IF gone THEN EndLocally(y) ELSE RetryLater(y)
    [] OTHER -> x

Rejected(x, id, gone) ==
  LET y == [x EXCEPT !.request = 0] IN
  CASE id = x.ending \/ (id = x.request /\ IsDiscarding(x)) -> FinishDiscard(x)
    [] id = x.request /\ x.creating -> DropConnection([y EXCEPT !.creating = FALSE])
    [] id = x.request /\ HasSession(x) -> IF gone THEN EndLocally(y) ELSE RetryLater(y)
    [] OTHER -> x

\* Ended, after which the client stops
ServerEnded(x) ==
  StopClient(IF IsDiscarding(x) THEN FinishDiscard(x)
             ELSE IF HasSession(x) THEN EndLocally(x) ELSE x)

\* Mutant: the client does not stop.
ToldToUpdateGoesOn(x) == x

\* rejected{update-required} to a hello has no id: HostSession only tells the user
\* (its last else), and the client stops for good.
ToldToUpdate(x) == StopClient(x)

\* Client::receive() and received()
Receive(x, m) ==
  CASE m.type = "welcome" -> Welcomed(x)
    [] m.type = "created" -> IF m.id = x.request THEN Created(x, m.room) ELSE x
    [] m.type = "resumed" -> IF m.id = x.request THEN Resumed(x) ELSE x
    [] m.type \in {"refused", "gone"} -> Rejected(x, m.id, m.type = "gone")
    [] m.type = "ack" -> IF m.id = x.ending THEN FinishDiscard(x) ELSE x
    [] m.type = "state" -> [x EXCEPT !.fed = @ \/ (HasSession(x) /\ x.connected)]
    [] m.type = "snapshot" -> IF HasSession(x) THEN Save(x, x.session) ELSE x
    [] m.type = "ended" -> ServerEnded(x)
    [] m.type = "update-required" -> ToldToUpdate(x)

\* A step of the app that may leave the socket: what the server wrote on it is
\* not read any more.
Becomes(x) ==
  /\ app' = x
  /\ down' = IF x.conn = app.conn /\ HasSocket(x) THEN down ELSE <<>>

-----------------------------------------------------------------------------
(* The user and the jam's queue *)

\* The question about a stored jam is not modal: it may be open still (log.overlaps).
Create ==
  /\ ~ HasSession(app) /\ ~ app.creating /\ log.creates < MaxCreates /\ MoreMayHappen
  /\ LET x == IF IsDiscarding(app) THEN FinishDiscard(app) ELSE app
     IN Becomes(ConnectTo([x EXCEPT !.creating = TRUE]))
  /\ log' = [log EXCEPT !.creates = @ + 1, !.overlaps = @ \/ HasStored(app)]
  /\ UNCHANGED server

CancelCreate ==
  app.creating /\ Becomes(DropConnection([app EXCEPT !.creating = FALSE]))
  /\ UNCHANGED <<server, log>>

ContinueStored ==
  /\ HasStored(app)
  /\ LET x == [app EXCEPT !.session = app.stored, !.stored = NoSession]
     IN Becomes(ConnectTo(StartJam(WithOutbox(x, x.session.outbox))))
  /\ UNCHANGED <<server, log>>

DiscardStored ==
  /\ HasStored(app)
  /\ Becomes(ConnectTo([app EXCEPT !.discarding = app.stored, !.stored = NoSession,
                                   !.disk = NoSession]))
  /\ UNCHANGED <<server, log>>

End ==
  /\ HasSession(app)
  /\ Becomes(EndLocally(IF app.connected THEN Sent(app, "end", 0, {}) ELSE app))
  /\ UNCHANGED <<server, log>>

\* started() by itemStarted: sent, or kept when the server has not accepted yet.
StartedItem(x, item) ==
  IF x.connected /\ x.status = "Online" THEN Sent(x, "started", 0, {item})
  ELSE WithOutbox(x, x.outbox \cup {item})

\* JamMode hears Started of an item that a state brought.
ItemStarted ==
  /\ app.jam /\ app.fed /\ HasSession(app) /\ MoreMayHappen
  /\ \E item \in Items \ Begun :
       /\ Becomes(StartedItem(app, item))
       /\ log' = [log EXCEPT !.begun[app.session.room] = @ \cup {item},
                             !.late = IF app.request # 0 /\ app.status = "Online"
                                        THEN @ \cup {item} ELSE @]
  /\ UNCHANGED server

-----------------------------------------------------------------------------
(* The connection *)

\* The socket's message
Read ==
  /\ HasSocket(app) /\ down # <<>>
  /\ LET x == Receive(app, Head(down)) IN
       /\ app' = x
       /\ down' = IF HasSocket(x) THEN Tail(down) ELSE <<>>
  /\ UNCHANGED <<server, log>>

\* What was written on some connections and not read is lost.
Unread(conns) == [c \in Conns |-> IF c \in conns THEN <<>> ELSE app.up[c]]
StartedIn(messages) ==
  UNION {messages[i].items : i \in {j \in DOMAIN messages : messages[j].type = "started"}}
ItemsOn(conns) == UNION {StartedIn(app.up[c]) : c \in conns}

\* The connection breaks, or the pings find that it is dead; socketClosed().
Break ==
  /\ HasSocket(app) /\ log.breaks < MaxBreaks /\ MoreMayHappen
  /\ Becomes(WithStatus([app EXCEPT !.up = Unread({app.conn})], "Offline"))
  /\ log' = [log EXCEPT !.breaks = @ + 1, !.lost = @ \cup ItemsOn({app.conn})]
  /\ UNCHANGED server

\* The retry timer of the client, or networkBack()
Reconnect ==
  app.status = "Offline" /\ Becomes(StartClient(app)) /\ UNCHANGED <<server, log>>

\* The retry timer of the session
TryAgain ==
  /\ app.later
  /\ Becomes(IF HasSession(app) THEN ConnectTo(app) ELSE [app EXCEPT !.later = FALSE])
  /\ UNCHANGED <<server, log>>

\* The program ends, at any time, and is started again.
Restart ==
  /\ log.runs < MaxRuns
  /\ \E lost \in {{}, Conns} :
       /\ app' = NewRun(app.disk, app.conn, Unread(lost))
       /\ log' = [log EXCEPT !.runs = @ + 1, !.lost = @ \cup ItemsOn(lost)]
  /\ down' = <<>>
  /\ UNCHANGED server

-----------------------------------------------------------------------------
(* The server *)

Message(type, id, room) == [type |-> type, id |-> id, room |-> room]

\* Its answer to the hello of a connection
Welcome ==
  /\ down' = <<Message("welcome", 0, 0)>>
  /\ UNCHANGED server

RefuseHello ==
  /\ down' = <<Message("update-required", 0, 0)>>
  /\ server' = [server EXCEPT !.outdated = app.conn]

Greet ==
  /\ app.status = "Connecting" /\ down = <<>>
  /\ Welcome \/ RefuseHello
  /\ UNCHANGED <<app, log>>

Answer(conn, type, room) ==
  down' = IF conn = app.conn /\ HasSocket(app) THEN Append(down, Message(type, conn, room)) ELSE down

IsOpen(room) == room # 0 /\ server.rooms[room] = "open"

\* A request is refused for now.
Refuse(conn, m) ==
  /\ server.refusals < MaxRefusals /\ m.type \in {"create", "resume"}
  /\ server' = [server EXCEPT !.refusals = @ + 1]
  /\ Answer(conn, "refused", 0)

OpenRoom(conn, m) ==
  /\ m.type = "create"
  /\ \E room \in Rooms :
       /\ server.rooms[room] = "none" /\ \A other \in 1..(room - 1) : server.rooms[other] # "none"
       /\ server' = [server EXCEPT !.rooms[room] = "open", !.room[conn] = room]
       /\ Answer(conn, "created", room)

ResumeRoom(conn, m) ==
  /\ m.type = "resume"
  /\ IF IsOpen(m.room)
       THEN /\ server' = [server EXCEPT !.room[conn] = m.room, !.started[m.room] = @ \cup m.items]
            /\ Answer(conn, "resumed", 0)
       ELSE /\ Answer(conn, "gone", 0)
            /\ UNCHANGED server

NoteStarted(conn, m) ==
  /\ m.type = "started"
  /\ LET room == server.room[conn] IN
     server' = IF IsOpen(room) THEN [server EXCEPT !.started[room] = @ \cup m.items] ELSE server
  /\ UNCHANGED down

EndRoom(conn, m) ==
  /\ m.type = "end"
  /\ LET room == server.room[conn] IN
     server' = IF IsOpen(room) THEN [server EXCEPT !.rooms[room] = "ended by the host"] ELSE server
  /\ Answer(conn, "ack", 0)

\* The server reads a connection in order, several in any order.
Serve ==
  \E conn \in Conns :
    /\ app.up[conn] # <<>>
    /\ LET m == Head(app.up[conn]) IN
         \/ Refuse(conn, m) \/ OpenRoom(conn, m) \/ ResumeRoom(conn, m)
         \/ NoteStarted(conn, m) \/ EndRoom(conn, m)
    /\ app' = [app EXCEPT !.up[conn] = Tail(@)]
    /\ UNCHANGED log

Accepted == HasSocket(app) /\ IsOpen(server.room[app.conn])

\* What it tells a host without being asked
Tell ==
  /\ Accepted /\ down = <<>>
  /\ \E type \in {"state", "snapshot"} : down' = <<Message(type, 0, 0)>>
  /\ UNCHANGED <<app, server, log>>

\* A room is closed, by the server or because its host was away for long.
CloseRoom ==
  /\ \E room \in Rooms :
       /\ IsOpen(room)
       /\ server' = [server EXCEPT !.rooms[room] = "closed"]
       /\ down' = IF HasSocket(app) /\ server.room[app.conn] = room
                    THEN Append(down, Message("ended", 0, 0)) ELSE down
  /\ UNCHANGED <<app, log>>

-----------------------------------------------------------------------------
Init ==
  /\ app = NewRun(NoSession, 0, [c \in Conns |-> <<>>]) /\ down = <<>>
  /\ server = [rooms |-> [r \in Rooms |-> "none"], started |-> [r \in Rooms |-> {}],
               room |-> [c \in Conns |-> 0], outdated |-> 0, refusals |-> 0]
  /\ log = [begun |-> [r \in Rooms |-> {}], late |-> {}, lost |-> {}, overlaps |-> FALSE,
            creates |-> 0, breaks |-> 0, runs |-> 1]

Next ==
  \/ Create \/ CancelCreate \/ ContinueStored \/ DiscardStored \/ End \/ ItemStarted
  \/ Read \/ Break \/ Reconnect \/ TryAgain \/ Restart
  \/ Greet \/ Serve \/ Tell \/ CloseRoom

Spec == Init /\ [][Next]_vars

\* The timers fire, the socket delivers, and the server answers: a hello with a
\* welcome or with rejected{update-required}.
FairSpec ==
  /\ Spec
  /\ WF_vars(Read) /\ WF_vars(Reconnect) /\ WF_vars(TryAgain) /\ WF_vars(Greet) /\ WF_vars(Serve)

-----------------------------------------------------------------------------
(* Properties *)

\* What the host keeps while its jam lasts is on disk at any time the program may
\* end (HOST-22): the room, and the outbox as the client has it.  No session is
\* left there once it ended, and the queue has the jam's layer as long as it lasts.
OnDisk == log.overlaps \/
  /\ HasSession(app) => app.disk = [room |-> app.session.room, outbox |-> app.outbox]
  /\ ~ HasSession(app) => app.disk = app.stored
  /\ app.jam <=> HasSession(app)

\* What a room of the server will know of, or was lost with a connection.
Known(room) == server.started[room] \cup app.disk.outbox \cup ItemsOn(Conns) \cup log.lost

\* "To the outbox while not connected" (src/jam/README.md:226): as long as the
\* room is open, through breaks, refusals and restarts, every item that began is known
\* to the server, under way or waits to be resent.  Those that began while a
\* resume was out are in JustStartedIsKept.
StartedIsKept ==
  IsOpen(app.disk.room) /\ ~ log.overlaps =>
    log.begun[app.disk.room] \subseteq Known(app.disk.room) \cup log.late

\* The same of all: the outbox keeps the item id "before the server accepted create
\* or resume" (src/jam/README.md:137).
JustStartedIsKept ==
  IsOpen(app.disk.room) => log.begun[app.disk.room] \subseteq Known(app.disk.room)

\* The hello of this connection was answered by rejected{update-required}, and the
\* client has stopped: the app leaves it at that.  What the user begins after it is a
\* new connection.
MustUpdate == app.conn = server.outdated /\ app.status = "Stopped"

\* With a network and a server a jam that goes on is connected again, or learns
\* that it is over, a discarded one is given up and a creation ends: unless the client
\* stopped because the user must update (src/jam/README.md:130).
JamSettles ==
  /\ HasSession(app) ~> app.connected \/ ~ HasSession(app) \/ MustUpdate \/ log.overlaps
  /\ IsDiscarding(app) ~> ~ IsDiscarding(app) \/ MustUpdate \/ log.overlaps
  /\ app.creating ~> ~ app.creating \/ MustUpdate \/ log.overlaps
=============================================================================
