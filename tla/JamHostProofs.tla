---------------------------- MODULE JamHostProofs ----------------------------
(***************************************************************************)
(* The stored session is the one in memory, and the items that began in    *)
(* its room are kept until the server knows them, for any number of jams,  *)
(* runs, breaks and refusals.                                              *)
(***************************************************************************)
EXTENDS JamHost, SequenceTheorems, TLAPS

Session == [room : Nat, outbox : SUBSET Items]
Request == [type : {"create", "resume", "started", "end"}, room : Nat, items : SUBSET Items]
Reply == [type : {"welcome", "created", "resumed", "refused", "gone", "ack", "state",
                  "snapshot", "ended", "update-required"},
          id : Nat, room : Nat]
Status == {"Idle", "Connecting", "Online", "Offline", "Stopped"}

App == [session : Session, stored : Session, discarding : Session, creating : BOOLEAN,
        connected : BOOLEAN, request : Nat, ending : Nat, later : BOOLEAN, status : Status,
        outbox : SUBSET Items, disk : Session, jam : BOOLEAN, fed : BOOLEAN,
        conn : Nat, up : [Conns -> Seq(Request)]]

\* What the host keeps while its jam lasts is on disk.
Kept(x) ==
  /\ HasSession(x) => x.disk = [room |-> x.session.room, outbox |-> x.outbox]
  /\ ~ HasSession(x) => x.disk = x.stored
  /\ x.jam <=> HasSession(x)

\* The session, the one of before and the one being created exclude each other,
\* and only a session has an outbox, which is its own.
Apart(x) ==
  /\ HasSession(x) => x.session.outbox = x.outbox /\ ~ x.creating /\ ~ HasStored(x)
  /\ ~ HasSession(x) => x.outbox = {}
  /\ HasStored(x) => ~ x.creating
  /\ ~ HasStored(x) => x.stored = NoSession

\* What neither the connection nor a request changes.
SameJam(x, y) ==
  /\ y.session = x.session /\ y.stored = x.stored /\ y.outbox = x.outbox
  /\ y.disk = x.disk /\ y.jam = x.jam /\ y.creating = x.creating
SameMail(x, y) == y.conn = x.conn /\ y.up = x.up /\ y.request = x.request

-----------------------------------------------------------------------------
(* Records *)

LEMMA SameKeeps ==
  ASSUME NEW x, NEW y, SameJam(x, y)
  PROVE  (Kept(x) => Kept(y)) /\ (Apart(x) => Apart(y))
BY DEF SameJam, Kept, Apart, HasSession, HasStored

LEMMA WithStatusIs ==
  ASSUME NEW x \in App, NEW s \in Status
  PROVE  /\ WithStatus(x, s) \in App /\ WithStatus(x, s).status = s
         /\ SameJam(x, WithStatus(x, s)) /\ SameMail(x, WithStatus(x, s))
         /\ WithStatus(x, s).discarding = x.discarding
<1> DEFINE b == x.connected /\ s = "Online"
<1>1. b \in BOOLEAN
  BY DEF App
<1>2. WithStatus(x, s) = [x EXCEPT !.status = s, !.connected = b]
  BY DEF WithStatus
<1> HIDE DEF b
<1>3. WithStatus(x, s) \in App
  BY <1>1, <1>2 DEF App
<1>4. SameJam(x, WithStatus(x, s)) /\ SameMail(x, WithStatus(x, s))
  BY <1>2 DEF App, SameJam, SameMail
<1>5. WithStatus(x, s).status = s /\ WithStatus(x, s).discarding = x.discarding
  BY <1>2 DEF App
<1> QED BY <1>3, <1>4, <1>5

LEMMA StartClientIs ==
  ASSUME NEW x \in App
  PROVE  LET y == StartClient(x) IN
         /\ y \in App /\ SameJam(x, y) /\ y.discarding = x.discarding
         /\ y.status = "Connecting" /\ y.conn = x.conn + 1
         /\ y.up = x.up /\ y.request = x.request
<1> DEFINE z == [x EXCEPT !.conn = @ + 1]
<1>1. z \in App /\ SameJam(x, z) /\ z.discarding = x.discarding
      /\ z.conn = x.conn + 1 /\ z.up = x.up /\ z.request = x.request
  <2>1. x.conn + 1 \in Nat
    BY DEF App
  <2>2. z \in App
    BY <2>1 DEF App
  <2>3. z.conn = x.conn + 1
    BY DEF App
  <2>4. SameJam(x, z) /\ z.discarding = x.discarding /\ z.up = x.up /\ z.request = x.request
    BY DEF App, SameJam
  <2> QED BY <2>2, <2>3, <2>4
<1>2. StartClient(x) = WithStatus(z, "Connecting") /\ "Connecting" \in Status
  BY DEF StartClient, Status
<1> HIDE DEF z
<1> QED BY <1>1, <1>2, WithStatusIs DEF SameJam, SameMail

LEMMA ConnectToIs ==
  ASSUME NEW x \in App
  PROVE  LET y == ConnectTo(x) IN
         /\ y \in App /\ SameJam(x, y) /\ y.discarding = x.discarding
         /\ y.status = "Connecting" /\ y.conn = x.conn + 1
         /\ y.up = x.up /\ y.request = x.request
<1> DEFINE z == [x EXCEPT !.later = FALSE]
<1>1. z \in App /\ SameJam(x, z) /\ z.discarding = x.discarding
      /\ z.conn = x.conn /\ z.up = x.up /\ z.request = x.request
  BY DEF App, SameJam
<1>2. ConnectTo(x) = StartClient(z)
  BY DEF ConnectTo
<1> HIDE DEF z
<1> QED BY <1>1, <1>2, StartClientIs DEF SameJam

\* Leaving the connection touches nothing of the jam.
Leaves(x, y) ==
  /\ y \in App /\ SameJam(x, y) /\ SameMail(x, y)
  /\ y.discarding = x.discarding /\ y.status = "Stopped"

LEMMA StopClientLeaves ==
  ASSUME NEW x \in App PROVE Leaves(x, StopClient(x))
BY WithStatusIs DEF StopClient, Status, Leaves

LEMMA DropConnectionLeaves ==
  ASSUME NEW x \in App PROVE Leaves(x, DropConnection(x))
<1> DEFINE z == [x EXCEPT !.later = FALSE, !.connected = FALSE]
<1>1. z \in App /\ SameJam(x, z) /\ SameMail(x, z) /\ z.discarding = x.discarding
  BY DEF App, SameJam, SameMail
<1>2. DropConnection(x) = StopClient(z)
  BY DEF DropConnection
<1> HIDE DEF z
<1>3. Leaves(z, StopClient(z))
  BY <1>1, StopClientLeaves
<1> QED BY <1>1, <1>2, <1>3 DEF Leaves, SameJam, SameMail

LEMMA RetryLaterLeaves ==
  ASSUME NEW x \in App PROVE Leaves(x, RetryLater(x))
<1> DEFINE d == DropConnection(x)
<1>1. Leaves(x, d)
  BY DropConnectionLeaves
<1>2. RetryLater(x) = [d EXCEPT !.later = TRUE]
  BY DEF RetryLater
<1> HIDE DEF d
<1> QED BY <1>1, <1>2 DEF Leaves, App, SameJam, SameMail

LEMMA FinishDiscardIs ==
  ASSUME NEW x \in App
  PROVE  LET y == FinishDiscard(x) IN
         /\ y \in App /\ SameJam(x, y) /\ y.conn = x.conn /\ y.up = x.up
         /\ y.request = 0 /\ y.status \in {x.status, "Stopped"}
<1> DEFINE z == [x EXCEPT !.discarding = NoSession, !.ending = 0, !.request = 0]
<1>1. NoSession \in Session
  BY DEF NoSession, Session
<1>2. z \in App /\ SameJam(x, z) /\ z.conn = x.conn /\ z.up = x.up
      /\ z.request = 0 /\ z.status = x.status
  BY <1>1 DEF App, SameJam
<1>3. FinishDiscard(x) \in {z, DropConnection(z)}
  BY DEF FinishDiscard
<1> HIDE DEF z
<1>4. Leaves(z, DropConnection(z))
  BY <1>2, DropConnectionLeaves
<1> QED BY <1>2, <1>3, <1>4 DEF Leaves, SameJam, SameMail

\* What send() writes goes to the end of the current connection, when it is Online.
Writes(x, y, type) ==
  \/ y.up = x.up
  \/ /\ x.status = "Online"
     /\ \A c \in Conns : c # x.conn => y.up[c] = x.up[c]
     /\ x.conn \in Conns => \E m \in Request : m.type = type /\ y.up[x.conn] = Append(x.up[x.conn], m)

LEMMA SentIs ==
  ASSUME NEW x \in App, NEW type \in {"create", "resume", "started", "end"},
         NEW room \in Nat, NEW items \in SUBSET Items
  PROVE  LET y == Sent(x, type, room, items) IN
         /\ y \in App /\ SameJam(x, y) /\ y.discarding = x.discarding
         /\ y.status = x.status /\ y.conn = x.conn /\ y.request = x.request
         /\ Writes(x, y, type)
<1> DEFINE m == [type |-> type, room |-> room, items |-> items]
           u == [x.up EXCEPT ![x.conn] = Append(@, m)]
           y == Sent(x, type, room, items)
<1>1. m \in Request /\ m.type = type
  BY DEF Request
<1>2. x.up \in [Conns -> Seq(Request)]
  BY DEF App
<1>3. x.conn \in Conns => Append(x.up[x.conn], m) \in Seq(Request)
  BY <1>1, <1>2, AppendProperties
<1>4. u \in [Conns -> Seq(Request)] /\ (x.conn \in Conns => u[x.conn] = Append(x.up[x.conn], m))
      /\ \A c \in Conns : c # x.conn => u[c] = x.up[c]
  BY <1>2, <1>3
<1>5. CASE x.status # "Online"
  BY <1>5 DEF Sent, SameJam, Writes
<1>6. CASE x.status = "Online"
  <2>1. y = [x EXCEPT !.up = u]
    BY <1>6 DEF Sent
  <2> HIDE DEF m, u, y
  <2>2. y \in App /\ SameJam(x, y) /\ y.discarding = x.discarding
        /\ y.status = x.status /\ y.conn = x.conn /\ y.request = x.request /\ y.up = u
    BY <1>4, <2>1 DEF App, SameJam
  <2>3. Writes(x, y, type)
    BY <1>1, <1>4, <1>6, <2>2 DEF Writes
  <2> QED BY <2>2, <2>3 DEF y
<1> QED BY <1>5, <1>6

-----------------------------------------------------------------------------
(* What changes the jam *)

\* The connection, its request and what is written stay.
SameLine(x, y) ==
  /\ y.conn = x.conn /\ y.up = x.up /\ y.request = x.request /\ y.creating = x.creating
  /\ y.status = x.status /\ y.stored = x.stored /\ y.discarding = x.discarding

LEMMA SaveIs ==
  ASSUME NEW x \in App, NEW s \in Session
  PROVE  /\ Save(x, s) \in App /\ SameLine(x, Save(x, s))
         /\ Save(x, s).session = s /\ Save(x, s).disk = s
         /\ Save(x, s).outbox = x.outbox /\ Save(x, s).jam = x.jam
         /\ Save(x, s).connected = x.connected
BY DEF Save, App, SameLine

\* A changed outbox of a jam is written to its session and to the disk.
LEMMA WithOutboxIs ==
  ASSUME NEW x \in App, NEW items \in SUBSET Items
  PROVE  LET y == WithOutbox(x, items) IN
         /\ y \in App /\ SameLine(x, y) /\ y.outbox = items /\ y.jam = x.jam
         /\ \/ y.session = x.session /\ y.disk = x.disk /\ (~ HasSession(x) \/ items = x.outbox)
            \/ /\ HasSession(x)
               /\ y.session = [room |-> x.session.room, outbox |-> items] /\ y.disk = y.session
<1> DEFINE z == [x EXCEPT !.outbox = items]
           s == [z.session EXCEPT !.outbox = items]
           y == WithOutbox(x, items)
<1>1. z \in App /\ SameLine(x, z) /\ z.outbox = items /\ z.jam = x.jam
      /\ z.session = x.session /\ z.disk = x.disk
  BY DEF App, SameLine
<1>2. s = [room |-> x.session.room, outbox |-> items] /\ s \in Session
  <2>1. x.session \in Session
    BY DEF App
  <2> QED BY <1>1, <2>1 DEF Session
<1>3. y = IF items # x.outbox /\ HasSession(x) THEN Save(z, s) ELSE z
  BY DEF WithOutbox
<1> HIDE DEF z, s, y
<1>4. CASE items # x.outbox /\ HasSession(x)
  <2>1. y = Save(z, s)
    BY <1>3, <1>4
  <2>2. y \in App /\ SameLine(z, y) /\ y.session = s /\ y.disk = s
        /\ y.outbox = z.outbox /\ y.jam = z.jam
    BY <1>1, <1>2, <2>1, SaveIs
  <2> QED BY <1>1, <1>2, <1>4, <2>2 DEF SameLine, y
<1>5. CASE ~ (items # x.outbox /\ HasSession(x))
  BY <1>1, <1>3, <1>5 DEF y
<1> QED BY <1>4, <1>5

LEMMA WithOutboxKeeps ==
  ASSUME NEW x \in App, NEW items \in SUBSET Items, HasSession(x) \/ items = {},
         Kept(x), Apart(x)
  PROVE  Kept(WithOutbox(x, items)) /\ Apart(WithOutbox(x, items))
<1> DEFINE y == WithOutbox(x, items)
<1>1. y \in App /\ SameLine(x, y) /\ y.outbox = items /\ y.jam = x.jam
      /\ \/ y.session = x.session /\ y.disk = x.disk /\ (~ HasSession(x) \/ items = x.outbox)
         \/ /\ HasSession(x)
            /\ y.session = [room |-> x.session.room, outbox |-> items] /\ y.disk = y.session
  BY WithOutboxIs
<1> HIDE DEF y
<1>2. Kept(y) /\ Apart(y)
  BY <1>1 DEF Kept, Apart, HasSession, HasStored, SameLine
<1> QED BY <1>2 DEF y

LEMMA EndLocallyIs ==
  ASSUME NEW x \in App
  PROVE  LET y == EndLocally(x) IN
         /\ y \in App /\ y.session = NoSession /\ y.disk = NoSession /\ y.outbox = {}
         /\ y.jam = FALSE /\ y.stored = x.stored /\ y.creating = x.creating
         /\ y.conn = x.conn /\ y.up = x.up /\ y.request = 0 /\ y.status = "Stopped"
<1> DEFINE z == [x EXCEPT !.session = NoSession, !.request = 0]
           d == DropConnection(z)
           w == WithOutbox(d, {})
<1>1. NoSession \in Session /\ NoSession.room = 0 /\ {} \in SUBSET Items
  BY DEF NoSession, Session
<1>2. z \in App /\ z.session = NoSession /\ z.stored = x.stored /\ z.creating = x.creating
      /\ z.conn = x.conn /\ z.up = x.up /\ z.request = 0
  BY <1>1 DEF App
<1>3. EndLocally(x) = [w EXCEPT !.disk = NoSession, !.jam = FALSE]
  BY DEF EndLocally
<1> HIDE DEF z
<1>4. Leaves(z, d)
  BY <1>2, DropConnectionLeaves
<1> HIDE DEF d
<1>5. d \in App /\ d.session = NoSession
  BY <1>2, <1>4 DEF Leaves, SameJam
<1>6. w \in App /\ SameLine(d, w) /\ w.outbox = {} /\ w.session = NoSession
  BY <1>1, <1>5, WithOutboxIs DEF HasSession
<1> HIDE DEF w
<1>7. w \in App /\ w.session = NoSession /\ w.outbox = {}
      /\ w.stored = x.stored /\ w.creating = x.creating
      /\ w.conn = x.conn /\ w.up = x.up /\ w.request = 0 /\ w.status = "Stopped"
  BY <1>2, <1>4, <1>6 DEF Leaves, SameJam, SameMail, SameLine
<1> QED BY <1>1, <1>3, <1>7 DEF App

LEMMA EndLocallyKeeps ==
  ASSUME NEW x \in App, HasSession(x), Apart(x)
  PROVE  Kept(EndLocally(x)) /\ Apart(EndLocally(x))
BY EndLocallyIs DEF Kept, Apart, HasSession, HasStored, NoSession

LEMMA StartJamIs ==
  ASSUME NEW x \in App
  PROVE  LET y == StartJam(x) IN
         /\ y \in App /\ SameLine(x, y) /\ y.session = x.session /\ y.disk = x.disk
         /\ y.outbox = x.outbox /\ y.jam = TRUE
<1> DEFINE b == x.fed /\ x.jam
<1>1. b \in BOOLEAN
  BY DEF App
<1>2. StartJam(x) = [x EXCEPT !.jam = TRUE, !.fed = b]
  BY DEF StartJam
<1> HIDE DEF b
<1> QED BY <1>1, <1>2 DEF App, SameLine

-----------------------------------------------------------------------------
(* What the server's messages do *)

\* What keeps a created jam from taking the place of another: the answer to the
\* request of a connection is the one to create only while one is being created.
Mail(x, d) ==
  /\ \A c \in Conns : c > x.conn => x.up[c] = <<>>
  /\ ~ HasSocket(x) => d = <<>>
  /\ HasSocket(x) =>
       /\ x.conn # 0
       /\ x.status = "Connecting" =>
            /\ x.conn \in Conns => x.up[x.conn] = <<>>
            /\ \A i \in DOMAIN d : d[i].type # "created"
       /\ \A i \in DOMAIN d : d[i].type = "welcome" => i = 1 /\ x.status = "Connecting"
       /\ \A i \in DOMAIN d : d[i].type = "created" =>
            d[i].room # 0 /\ d[i].id = x.conn /\ (x.request = x.conn => x.creating)
       /\ x.conn \in Conns /\ x.request = x.conn =>
            \A i \in DOMAIN x.up[x.conn] : x.up[x.conn][i].type = "create" => x.creating

\* A step that goes on with the connection: it may write anything but a create,
\* and may forget the request.
Stays(x, y) ==
  /\ y.conn = x.conn /\ y.status = x.status
  /\ \E type \in {"resume", "started", "end"} : Writes(x, y, type)
  /\ y.request = 0 \/ (y.request = x.request /\ y.creating = x.creating)

\* One that leaves it, after it may have written.
Drops(x, y) ==
  /\ y.conn = x.conn /\ ~ HasSocket(y)
  /\ \E type \in {"resume", "started", "end"} : Writes(x, y, type)

LEMMA WritesBeyond ==
  ASSUME NEW x \in App, NEW y \in App, NEW type, Writes(x, y, type), NEW d, Mail(x, d),
         y.conn = x.conn
  PROVE  \A c \in Conns : c > y.conn => y.up[c] = <<>>
<1>1. x.conn \in Nat /\ \A c \in Conns : c > x.conn => c # x.conn
  BY DEF App
<1>2. \A c \in Conns : c > x.conn => x.up[c] = <<>>
  BY DEF Mail
<1>3. \A c \in Conns : c # x.conn => y.up[c] = x.up[c]
  BY DEF Writes
<1> QED BY <1>1, <1>2, <1>3

LEMMA DropsMail ==
  ASSUME NEW x \in App, NEW y \in App, NEW d, Mail(x, d), Drops(x, y)
  PROVE  Mail(y, <<>>)
BY WritesBeyond DEF Drops, Mail

\* A connection begun is empty.
LEMMA BeginsMail ==
  ASSUME NEW x \in App, NEW y \in App, NEW d, Mail(x, d),
         y.conn = x.conn + 1, y.up = x.up, y.status = "Connecting"
  PROVE  Mail(y, <<>>)
<1>1. x.conn \in Nat
  BY DEF App
<1>2. \A c \in Conns : c > y.conn => y.up[c] = <<>>
  BY <1>1 DEF Mail, Conns, JamAssumption
<1>3. y.conn \in Conns => y.up[y.conn] = <<>>
  BY <1>1 DEF Mail
<1>4. y.conn # 0 /\ HasSocket(y)
  BY <1>1 DEF HasSocket
<1>5. \A i \in DOMAIN <<>> : FALSE
  OBVIOUS
<1> QED BY <1>2, <1>3, <1>4, <1>5 DEF Mail

\* What is written on the connection that goes on is no create.
LEMMA WritesNoCreate ==
  ASSUME NEW x \in App, NEW y \in App, NEW type, type # "create", Writes(x, y, type),
         y.conn = x.conn, x.conn \in Conns,
         NEW i \in DOMAIN y.up[y.conn], y.up[y.conn][i].type = "create"
  PROVE  /\ i \in DOMAIN x.up[x.conn] /\ x.up[x.conn][i].type = "create"
<1>1. CASE y.up = x.up
  BY <1>1
<1>2. CASE y.up # x.up
  <2>1. PICK m \in Request : m.type = type /\ y.up[x.conn] = Append(x.up[x.conn], m)
    BY <1>2 DEF Writes
  <2>2. x.up[x.conn] \in Seq(Request)
    BY DEF App
  <2>3. i \in 1..(Len(x.up[x.conn]) + 1)
    BY <2>1, <2>2
  <2>4. i # Len(x.up[x.conn]) + 1
    BY <2>1, <2>2
  <2>5. i \in 1..Len(x.up[x.conn])
    BY <2>2, <2>3, <2>4
  <2>6. y.up[y.conn][i] = x.up[x.conn][i]
    BY <2>1, <2>2, <2>5
  <2> QED BY <2>2, <2>5, <2>6
<1> QED BY <1>1, <1>2

\* The line that goes on, with e of its messages read and none new.
LEMMA StaysMail ==
  ASSUME NEW x \in App, NEW y \in App, NEW d, NEW e, Mail(x, d), Stays(x, y),
         ~ HasSocket(x) => e = <<>>,
         \A i \in DOMAIN e : e[i].type = "created" => \E j \in DOMAIN d : e[i] = d[j],
         \A i \in DOMAIN e : e[i].type = "welcome" => i = 1 /\ x.status = "Connecting"
  PROVE  Mail(y, e)
<1>1. PICK type \in {"resume", "started", "end"} : Writes(x, y, type)
  BY DEF Stays
<1>2. y.conn = x.conn /\ y.status = x.status /\ (HasSocket(y) <=> HasSocket(x))
  BY DEF Stays, HasSocket
<1>3. \A c \in Conns : c > y.conn => y.up[c] = <<>>
  BY <1>1, <1>2, WritesBeyond
<1>4. ASSUME HasSocket(x)
      PROVE  /\ y.conn # 0
             /\ y.status = "Connecting" =>
                  /\ y.conn \in Conns => y.up[y.conn] = <<>>
                  /\ \A i \in DOMAIN e : e[i].type # "created"
             /\ \A i \in DOMAIN e : e[i].type = "welcome" => i = 1 /\ y.status = "Connecting"
             /\ \A i \in DOMAIN e : e[i].type = "created" =>
                  e[i].room # 0 /\ e[i].id = y.conn /\ (y.request = y.conn => y.creating)
             /\ y.conn \in Conns /\ y.request = y.conn =>
                  \A i \in DOMAIN y.up[y.conn] : y.up[y.conn][i].type = "create" => y.creating
  <2>1. y.conn # 0
    BY <1>2, <1>4 DEF Mail
  <2>2. y.status = "Connecting" => y.up = x.up
    BY <1>1, <1>2 DEF Writes
  <2>3. y.request = y.conn => x.request = x.conn /\ y.creating = x.creating
    BY <1>2, <2>1 DEF Stays
  <2>4. ASSUME y.conn \in Conns, y.request = y.conn, NEW i \in DOMAIN y.up[y.conn],
               y.up[y.conn][i].type = "create"
        PROVE  y.creating
    <3>1. i \in DOMAIN x.up[x.conn] /\ x.up[x.conn][i].type = "create"
      BY <1>1, <1>2, <2>4, WritesNoCreate
    <3> QED BY <1>2, <1>4, <2>3, <2>4, <3>1 DEF Mail
  <2>5. ASSUME NEW i \in DOMAIN e, e[i].type = "created"
        PROVE  e[i].room # 0 /\ e[i].id = y.conn /\ (y.request = y.conn => y.creating)
               /\ y.status # "Connecting"
    <3>1. PICK j \in DOMAIN d : e[i] = d[j]
      BY <2>5
    <3> QED BY <1>2, <1>4, <2>3, <2>5, <3>1 DEF Mail
  <2>6. y.status = "Connecting" /\ y.conn \in Conns => y.up[y.conn] = <<>>
    BY <1>2, <1>4, <2>2 DEF Mail
  <2> QED BY <1>2, <2>1, <2>4, <2>5, <2>6
<1> QED BY <1>2, <1>3, <1>4 DEF Mail

\* The server welcomes, and is asked for the room: a create only for a jam that is
\* being created, on a connection with nothing on it.
LEMMA WelcomedKeeps ==
  ASSUME NEW x \in App, NEW d \in Seq(Reply), Mail(x, d), HasSocket(x),
         d # <<>>, Head(d).type = "welcome"
  PROVE  LET y == Welcomed(x) IN
         y \in App /\ SameJam(x, y) /\ HasSocket(y) /\ Mail(y, Tail(d))
<1> DEFINE w == WithStatus(x, "Online")
           z == [w EXCEPT !.connected = FALSE]
           a == [z EXCEPT !.request = x.conn]
           y == Welcomed(x)
<1>1. w \in App /\ w.status = "Online" /\ SameJam(x, w) /\ SameMail(x, w)
  BY WithStatusIs DEF Status
<1>2. y = IF HasSession(x) \/ IsDiscarding(x) \/ x.creating THEN AskRoom(x, a) ELSE z
  BY DEF Welcomed
<1> HIDE DEF w
<1>3. z \in App /\ z.status = "Online" /\ SameJam(x, z) /\ SameMail(x, z)
  BY <1>1 DEF App, SameJam, SameMail
<1> HIDE DEF z
<1>4. a \in App /\ a.status = "Online" /\ SameJam(x, a)
      /\ a.conn = x.conn /\ a.up = x.up /\ a.request = x.conn
  BY <1>3 DEF App, SameJam, SameMail
<1> HIDE DEF a, y
<1>5. d[1].type = "welcome" /\ 1 \in DOMAIN d
  BY DEF Reply
<1>6. x.status = "Connecting" /\ (x.conn \in Conns => x.up[x.conn] = <<>>)
      /\ \A i \in DOMAIN d : d[i].type # "created"
  BY <1>5 DEF Mail
<1>7. \A i \in DOMAIN Tail(d) : i + 1 \in DOMAIN d /\ Tail(d)[i] = d[i + 1] /\ i + 1 # 1
  BY HeadTailProperties
<1>8. \A i \in DOMAIN Tail(d) : Tail(d)[i].type \notin {"welcome", "created"}
  BY <1>6, <1>7 DEF Mail
<1>9. CASE y = z
  <2>1. HasSocket(y)
    BY <1>3, <1>9 DEF HasSocket
  <2>2. \A c \in Conns : c > y.conn => y.up[c] = <<>>
    BY <1>3, <1>9 DEF Mail, SameMail
  <2>3. y.conn # 0 /\ y.status = "Online"
    BY <1>3, <1>9 DEF Mail, SameMail
  <2>4. y.conn \in Conns => y.up[y.conn] = <<>>
    BY <1>3, <1>6, <1>9 DEF SameMail
  <2>5. Mail(y, Tail(d))
    BY <1>8, <2>1, <2>2, <2>3, <2>4 DEF Mail
  <2> QED BY <1>3, <1>9, <2>1, <2>5 DEF y
<1>10. CASE y = AskRoom(x, a) /\ (HasSession(x) \/ IsDiscarding(x) \/ x.creating)
  <2>1. /\ x.session \in Session /\ x.discarding \in Session /\ x.outbox \in SUBSET Items
        /\ x.session.room \in Nat /\ x.discarding.room \in Nat
        /\ x.discarding.outbox \in SUBSET Items
    BY DEF App, Session
  <2>2. PICK type \in {"resume", "create"} :
          /\ y \in App /\ SameJam(a, y) /\ y.status = a.status /\ y.conn = a.conn
          /\ y.request = a.request /\ Writes(a, y, type)
          /\ type = "create" => x.creating
    <3>1. CASE HasSession(x)
      <4>1. y = Sent(a, "resume", x.session.room, x.outbox)
        BY <1>10, <3>1 DEF AskRoom
      <4> QED BY <1>4, <2>1, <4>1, SentIs
    <3>2. CASE ~ HasSession(x) /\ IsDiscarding(x)
      <4>1. y = Sent(a, "resume", x.discarding.room, x.discarding.outbox)
        BY <1>10, <3>2 DEF AskRoom
      <4> QED BY <1>4, <2>1, <4>1, SentIs
    <3>3. CASE ~ HasSession(x) /\ ~ IsDiscarding(x)
      <4>1. y = Sent(a, "create", 0, {}) /\ x.creating
        BY <1>10, <3>3 DEF AskRoom
      <4> QED BY <1>4, <4>1, SentIs
    <3> QED BY <3>1, <3>2, <3>3
  <2>3. HasSocket(y) /\ y.status = "Online" /\ y.conn = x.conn /\ y.request = x.conn
        /\ y.creating = x.creating
    BY <1>4, <2>2 DEF HasSocket, SameJam
  <2>4. \A c \in Conns : c > y.conn => y.up[c] = <<>>
    <3>1. Writes(x, y, type) \/ y.up = x.up \/ \A c \in Conns : c # x.conn => y.up[c] = x.up[c]
      BY <1>4, <2>2 DEF Writes
    <3>2. \A c \in Conns : c # x.conn => y.up[c] = x.up[c]
      BY <1>4, <2>2 DEF Writes
    <3>3. \A c \in Conns : c > x.conn => c # x.conn /\ x.up[c] = <<>>
      <4>1. x.conn \in Nat
        BY DEF App
      <4> QED BY <4>1 DEF Mail
    <3> QED BY <2>3, <3>2, <3>3
  <2>5. y.conn # 0
    BY <2>3 DEF Mail
  <2>6. ASSUME y.conn \in Conns, NEW i \in DOMAIN y.up[y.conn], y.up[y.conn][i].type = "create"
        PROVE  y.creating
    <3>1. a.up[a.conn] = <<>>
      BY <1>4, <1>6, <2>3, <2>6
    <3>2. CASE type = "resume"
      <4>1. i \in DOMAIN a.up[a.conn]
        BY <1>4, <2>2, <2>3, <2>6, <3>2, WritesNoCreate
      <4> QED BY <3>1, <4>1
    <3>3. CASE type = "create"
      BY <2>2, <2>3, <3>3
    <3> QED BY <3>2, <3>3
  <2>7. Mail(y, Tail(d))
    BY <1>8, <2>3, <2>4, <2>5, <2>6 DEF Mail
  <2> QED BY <1>4, <2>2, <2>3, <2>7 DEF SameJam, y
<1> QED BY <1>2, <1>9, <1>10

\* A jam is created only while none is had, so that its outbox is empty.
LEMMA CreatedKeeps ==
  ASSUME NEW x \in App, NEW room \in Nat
  PROVE  LET y == Created(x, room) IN
         /\ y \in App /\ Stays(x, y)
         /\ room # 0 /\ x.creating /\ Kept(x) /\ Apart(x) => Kept(y) /\ Apart(y)
<1> DEFINE z == [x EXCEPT !.creating = FALSE, !.request = 0, !.connected = TRUE]
           s == [room |-> room, outbox |-> {}]
           v == Save(z, s)
           y == Created(x, room)
<1>1. s \in Session
  BY DEF Session
<1>2. z \in App /\ z.creating = FALSE /\ z.request = 0 /\ z.conn = x.conn /\ z.up = x.up
      /\ z.status = x.status /\ z.outbox = x.outbox /\ z.stored = x.stored
  BY DEF App
<1>3. y = StartJam(v)
  BY DEF Created
<1> HIDE DEF z
<1>4. v \in App /\ SameLine(z, v) /\ v.session = s /\ v.disk = s /\ v.outbox = z.outbox
  BY <1>1, <1>2, SaveIs
<1> HIDE DEF v, y
<1>5. y \in App /\ SameLine(v, y) /\ y.session = s /\ y.disk = s /\ y.outbox = v.outbox
      /\ y.jam = TRUE
  BY <1>3, <1>4, StartJamIs
<1>6. y.creating = FALSE /\ y.request = 0 /\ y.conn = x.conn /\ y.up = x.up
      /\ y.status = x.status /\ y.outbox = x.outbox /\ y.stored = x.stored
  BY <1>2, <1>4, <1>5 DEF SameLine
<1>7. Stays(x, y)
  BY <1>6 DEF Stays, Writes
<1>8. ASSUME room # 0, x.creating, Kept(x), Apart(x) PROVE Kept(y) /\ Apart(y)
  <2>1. x.outbox = {} /\ ~ HasStored(x)
    BY <1>8 DEF Apart
  <2> QED BY <1>5, <1>6, <1>8, <2>1 DEF Kept, Apart, HasSession, HasStored
<1> QED BY <1>5, <1>7, <1>8 DEF y

\* What a message leaves of the jam and of the line.
Reads(x, y) ==
  /\ y \in App /\ (Stays(x, y) \/ Drops(x, y))
  /\ Kept(x) /\ Apart(x) => Kept(y) /\ Apart(y)

LEMMA ResumedReads ==
  ASSUME NEW x \in App PROVE Reads(x, Resumed(x))
<1> DEFINE q == [x EXCEPT !.request = 0]
           e == [q EXCEPT !.ending = x.conn]
           c == [q EXCEPT !.connected = TRUE]
           y == Resumed(x)
<1>1. q \in App /\ SameJam(x, q) /\ q.conn = x.conn /\ q.up = x.up /\ q.request = 0
      /\ q.status = x.status
  BY DEF App, SameJam
<1>2. y = IF IsDiscarding(x) THEN Sent(e, "end", 0, {}) ELSE WithOutbox(c, {})
  BY DEF Resumed
<1> HIDE DEF q
<1>3. e \in App /\ SameJam(x, e) /\ e.conn = x.conn /\ e.up = x.up /\ e.request = 0
      /\ e.status = x.status
  <2>1. x.conn \in Nat
    BY DEF App
  <2> QED BY <1>1, <2>1 DEF App, SameJam
<1>4. c \in App /\ SameJam(x, c) /\ c.conn = x.conn /\ c.up = x.up /\ c.request = 0
      /\ c.status = x.status
  BY <1>1 DEF App, SameJam
<1> HIDE DEF e, c, y
<1>5. CASE y = Sent(e, "end", 0, {})
  <2>1. y \in App /\ SameJam(e, y) /\ y.status = e.status /\ y.conn = e.conn
        /\ y.request = e.request /\ Writes(e, y, "end")
    BY <1>3, <1>5, SentIs
  <2>2. SameJam(x, y) /\ Stays(x, y)
    BY <1>3, <2>1 DEF SameJam, Stays, Writes
  <2> QED BY <2>1, <2>2, SameKeeps DEF Reads, y
<1>6. CASE y = WithOutbox(c, {})
  <2>1. y \in App /\ SameLine(c, y)
    BY <1>4, <1>6, WithOutboxIs
  <2>2. Stays(x, y)
    BY <1>4, <2>1 DEF SameLine, Stays, Writes
  <2>3. Kept(c) /\ Apart(c) => Kept(y) /\ Apart(y)
    BY <1>4, <1>6, WithOutboxKeeps
  <2> QED BY <1>4, <2>1, <2>2, <2>3, SameKeeps DEF Reads, y
<1> QED BY <1>2, <1>5, <1>6

LEMMA LeavesReads ==
  ASSUME NEW x \in App, NEW q \in App, SameJam(x, q), q.conn = x.conn, q.up = x.up,
         NEW y, Leaves(q, y)
  PROVE  Reads(x, y)
<1>1. SameJam(x, y) /\ y.conn = x.conn /\ y.up = x.up /\ ~ HasSocket(y) /\ y \in App
  BY DEF Leaves, SameJam, SameMail, HasSocket
<1> QED BY <1>1, SameKeeps DEF Reads, Drops, Writes

LEMMA FinishDiscardReads ==
  ASSUME NEW x \in App PROVE Reads(x, FinishDiscard(x))
<1> DEFINE y == FinishDiscard(x)
<1>1. y \in App /\ SameJam(x, y) /\ y.conn = x.conn /\ y.up = x.up
      /\ y.request = 0 /\ y.status \in {x.status, "Stopped"}
  BY FinishDiscardIs
<1> HIDE DEF y
<1>2. Stays(x, y) \/ Drops(x, y)
  BY <1>1 DEF Stays, Drops, Writes, HasSocket
<1> QED BY <1>1, <1>2, SameKeeps DEF Reads, y

\* A session ends together with its connection.
LEMMA EndLocallyReads ==
  ASSUME NEW x \in App, NEW q \in App, SameJam(x, q), q.conn = x.conn, q.up = x.up,
         HasSession(x)
  PROVE  Reads(x, EndLocally(q))
<1>1. HasSession(q) /\ (Apart(x) => Apart(q))
  BY SameKeeps DEF SameJam, HasSession
<1>2. Apart(q) => Kept(EndLocally(q)) /\ Apart(EndLocally(q))
  BY <1>1, EndLocallyKeeps
<1>3. EndLocally(q) \in App /\ Drops(x, EndLocally(q))
  BY EndLocallyIs DEF Drops, Writes, HasSocket
<1> QED BY <1>1, <1>2, <1>3 DEF Reads

LEMMA SameReads == ASSUME NEW x \in App PROVE Reads(x, x)
BY DEF Reads, Stays, Writes

LEMMA RejectedReads ==
  ASSUME NEW x \in App, NEW id, NEW gone \in BOOLEAN PROVE Reads(x, Rejected(x, id, gone))
<1> DEFINE q == [x EXCEPT !.request = 0]
           n == [q EXCEPT !.creating = FALSE]
           y == Rejected(x, id, gone)
<1>1. q \in App /\ SameJam(x, q) /\ q.conn = x.conn /\ q.up = x.up
  BY DEF App, SameJam
<1>2. n \in App /\ n.conn = x.conn /\ n.up = x.up
      /\ n.session = x.session /\ n.stored = x.stored /\ n.outbox = x.outbox
      /\ n.disk = x.disk /\ n.jam = x.jam /\ n.creating = FALSE
  BY DEF App
<1>3. Kept(x) /\ Apart(x) => Kept(n) /\ Apart(n)
  BY <1>2 DEF Kept, Apart, HasSession, HasStored
<1>4. y \in {FinishDiscard(x), DropConnection(n), x}
      \/ (HasSession(x) /\ y \in {EndLocally(q), RetryLater(q)})
  BY DEF Rejected
<1> HIDE DEF q, n, y
<1>5. CASE y = DropConnection(n)
  <2>1. Leaves(n, y)
    BY <1>2, <1>5, DropConnectionLeaves
  <2>2. Reads(n, y)
    BY <1>2, <2>1, LeavesReads DEF SameJam
  <2>3. Drops(x, y)
    BY <1>2, <2>1 DEF Leaves, SameMail, Drops, Writes, HasSocket
  <2> QED BY <1>3, <2>2, <2>3 DEF Reads, y
<1>6. CASE HasSession(x) /\ y = EndLocally(q)
  BY <1>1, <1>6, EndLocallyReads DEF y
<1>7. CASE y = RetryLater(q)
  BY <1>1, <1>7, RetryLaterLeaves, LeavesReads DEF y
<1>8. CASE y = FinishDiscard(x)
  BY <1>8, FinishDiscardReads DEF y
<1>9. CASE y = x
  BY <1>9, SameReads DEF y
<1> QED BY <1>4, <1>5, <1>6, <1>7, <1>8, <1>9

LEMMA ServerEndedReads ==
  ASSUME NEW x \in App PROVE Reads(x, ServerEnded(x))
<1> DEFINE v == IF IsDiscarding(x) THEN FinishDiscard(x)
                ELSE IF HasSession(x) THEN EndLocally(x) ELSE x
           y == ServerEnded(x)
<1>1. Reads(x, v)
  <2>1. SameJam(x, x)
    BY DEF SameJam
  <2> QED BY <2>1, FinishDiscardReads, EndLocallyReads, SameReads
<1>2. y = StopClient(v)
  BY DEF ServerEnded
<1> HIDE DEF v, y
<1>3. v \in App /\ v.conn = x.conn
      /\ \E type \in {"resume", "started", "end"} : Writes(x, v, type)
  BY <1>1 DEF Reads, Stays, Drops
<1>4. Leaves(v, y)
  BY <1>2, <1>3, StopClientLeaves
<1>5. Drops(x, y)
  BY <1>3, <1>4 DEF Leaves, SameMail, Drops, Writes, HasSocket
<1>6. Kept(v) /\ Apart(v) => Kept(y) /\ Apart(y)
  BY <1>4, SameKeeps DEF Leaves
<1> QED BY <1>1, <1>4, <1>5, <1>6 DEF Reads, Leaves, y

\* Every message but the welcome
LEMMA ReceiveReads ==
  ASSUME NEW x \in App, NEW m \in Reply, m.type # "welcome",
         m.type = "created" /\ m.id = x.request => m.room # 0 /\ x.creating
  PROVE  Reads(x, Receive(x, m))
<1> DEFINE y == Receive(x, m)
<1>0. m.room \in Nat
  BY DEF Reply
<1>1. CASE m.type = "created"
  <2>1. y = IF m.id = x.request THEN Created(x, m.room) ELSE x
    BY <1>1 DEF Receive
  <2>2. CASE m.id = x.request
    <3>1. y = Created(x, m.room)
      BY <2>1, <2>2
    <3> QED BY <1>0, <1>1, <2>2, <3>1, CreatedKeeps DEF Reads
  <2>3. CASE m.id # x.request
    BY <2>1, <2>3, SameReads
  <2> QED BY <2>2, <2>3
<1>2. CASE m.type = "resumed"
  BY <1>2, ResumedReads, SameReads DEF Receive
<1>3. CASE m.type \in {"refused", "gone"}
  BY <1>3, RejectedReads DEF Receive
<1>4. CASE m.type = "ack"
  BY <1>4, FinishDiscardReads, SameReads DEF Receive
<1>5. CASE m.type = "state"
  <2> DEFINE b == x.fed \/ (HasSession(x) /\ x.connected)
  <2>1. b \in BOOLEAN
    BY DEF App
  <2>2. y = [x EXCEPT !.fed = b]
    BY <1>5 DEF Receive
  <2> HIDE DEF b, y
  <2>3. y \in App /\ SameJam(x, y) /\ SameMail(x, y) /\ y.status = x.status
    BY <2>1, <2>2 DEF App, SameJam, SameMail
  <2> QED BY <2>3, SameKeeps DEF Reads, Stays, Writes, SameJam, SameMail, y
<1>6. CASE m.type = "snapshot"
  <2>1. y = IF HasSession(x) THEN Save(x, x.session) ELSE x
    BY <1>6 DEF Receive
  <2>2. x.session \in Session
    BY DEF App
  <2>3. CASE HasSession(x)
    <3>1. y = Save(x, x.session)
      BY <2>1, <2>3
    <3> HIDE DEF y
    <3>2. y \in App /\ SameLine(x, y) /\ y.session = x.session /\ y.disk = x.session
          /\ y.outbox = x.outbox /\ y.jam = x.jam
      BY <2>2, <3>1, SaveIs
    <3>3. Stays(x, y)
      BY <3>2 DEF SameLine, Stays, Writes
    <3>4. x.session = [room |-> x.session.room, outbox |-> x.session.outbox]
      BY <2>2 DEF Session
    <3>5. Kept(x) /\ Apart(x) => Kept(y) /\ Apart(y)
      BY <2>3, <3>2, <3>4 DEF SameLine, Kept, Apart, HasSession, HasStored
    <3> QED BY <3>2, <3>3, <3>5 DEF Reads, y
  <2>4. CASE ~ HasSession(x)
    BY <2>1, <2>4, SameReads
  <2> QED BY <2>3, <2>4
<1>7. CASE m.type = "ended"
  BY <1>7, ServerEndedReads DEF Receive
<1>8. CASE m.type = "update-required"
  <2>1. y = StopClient(x)
    BY <1>8 DEF Receive, ToldToUpdate
  <2>2. SameJam(x, x)
    BY DEF SameJam
  <2> QED BY <2>1, <2>2, StopClientLeaves, LeavesReads
<1> QED BY <1>1, <1>2, <1>3, <1>4, <1>5, <1>6, <1>7, <1>8 DEF Reply

-----------------------------------------------------------------------------
(* The invariant *)

TypeCorrect == app \in App /\ down \in Seq(Reply) /\ "overlaps" \in DOMAIN log
Settled == log.overlaps \/ (Kept(app) /\ Apart(app))

Inv == TypeCorrect /\ Mail(app, down) /\ Settled

\* A step of the app from which it has app'.
AppStep(y) ==
  /\ y \in App /\ Becomes(y)
  /\ (Stays(app, y) \/ Drops(app, y)
      \/ (y.conn = app.conn + 1 /\ y.up = app.up /\ y.status = "Connecting"))

LEMMA AppStepKeeps ==
  ASSUME Inv, NEW y, AppStep(y), "overlaps" \in DOMAIN log',
         log'.overlaps \/ (Kept(y) /\ Apart(y))
  PROVE  Inv'
<1>1. y \in App /\ app' = y
      /\ down' = IF y.conn = app.conn /\ HasSocket(y) THEN down ELSE <<>>
  BY DEF AppStep, Becomes
<1>2. app \in App /\ down \in Seq(Reply) /\ Mail(app, down)
  BY DEF Inv, TypeCorrect
<1>3. down' \in Seq(Reply)
  BY <1>1, <1>2
<1>4. CASE Stays(app, y)
  <2>1. y.conn = app.conn /\ (HasSocket(y) <=> HasSocket(app))
    BY <1>4 DEF Stays, HasSocket
  <2>2. ~ HasSocket(app) => down = <<>>
    BY <1>2 DEF Mail
  <2>3. down' = down
    BY <1>1, <2>1, <2>2
  <2>4. \A i \in DOMAIN down : down[i].type = "welcome" => i = 1 /\ app.status = "Connecting"
    BY <1>2 DEF Mail
  <2>5. Mail(y, down)
    BY <1>1, <1>2, <1>4, <2>2, <2>4, StaysMail
  <2> QED BY <1>1, <1>3, <2>3, <2>5 DEF Inv, TypeCorrect, Settled
<1>5. CASE Drops(app, y)
  <2>1. down' = <<>>
    BY <1>1, <1>5 DEF Drops
  <2>2. Mail(y, <<>>)
    BY <1>1, <1>2, <1>5, DropsMail
  <2> QED BY <1>1, <1>3, <2>1, <2>2 DEF Inv, TypeCorrect, Settled
<1>6. CASE y.conn = app.conn + 1 /\ y.up = app.up /\ y.status = "Connecting"
  <2>1. app.conn \in Nat
    BY <1>2 DEF App
  <2>2. down' = <<>>
    BY <1>1, <1>6, <2>1
  <2>3. Mail(y, <<>>)
    BY <1>1, <1>2, <1>6, BeginsMail
  <2> QED BY <1>1, <1>3, <2>2, <2>3 DEF Inv, TypeCorrect, Settled
<1> QED BY <1>4, <1>5, <1>6 DEF AppStep

\* The same when log does not change, or not in what matters.
LEMMA SameLog ==
  ASSUME Inv, NEW y, SameJam(app, y) \/ (Kept(app) /\ Apart(app) => Kept(y) /\ Apart(y))
  PROVE  log.overlaps \/ (Kept(y) /\ Apart(y))
BY SameKeeps DEF Inv, Settled

LEMMA InitInv == Init => Inv
<1> SUFFICES ASSUME Init PROVE Inv
  OBVIOUS
<1> DEFINE u == [c \in Conns |-> <<>>]
<1>1. u \in [Conns -> Seq(Request)] /\ NoSession \in Session /\ NoSession.room = 0
  BY DEF NoSession, Session
<1>2. app = NewRun(NoSession, 0, u) /\ down = <<>> /\ log.overlaps = FALSE
      /\ "overlaps" \in DOMAIN log
  BY DEF Init
<1> HIDE DEF u
<1>3. app \in App
  BY <1>1, <1>2 DEF NewRun, App, Status
<1>4. Kept(app) /\ Apart(app)
  BY <1>1, <1>2 DEF NewRun, Kept, Apart, HasSession, HasStored
<1>5. Mail(app, down)
  BY <1>2 DEF NewRun, Mail, HasSocket, u
<1> QED BY <1>2, <1>3, <1>4, <1>5 DEF Inv, TypeCorrect, Settled

-----------------------------------------------------------------------------
(* The user and the jam's queue *)

LEMMA AppIn == Inv => app \in App
BY DEF Inv, TypeCorrect

LEMMA CreateKeeps == Inv /\ Create => Inv'
<1> SUFFICES ASSUME Inv, Create PROVE Inv'
  OBVIOUS
<1> DEFINE x == IF IsDiscarding(app) THEN FinishDiscard(app) ELSE app
           z == [x EXCEPT !.creating = TRUE]
           y == ConnectTo(z)
           b == log.overlaps \/ HasStored(app)
<1>1. app \in App /\ ~ HasSession(app) /\ Becomes(y) /\ "overlaps" \in DOMAIN log
      /\ log' = [log EXCEPT !.creates = @ + 1, !.overlaps = b]
  BY DEF Inv, TypeCorrect, Create
<1>2. x \in App /\ SameJam(app, x) /\ x.conn = app.conn /\ x.up = app.up
  BY <1>1, FinishDiscardIs DEF SameJam
<1> HIDE DEF x
<1>3. /\ z \in App /\ z.conn = app.conn /\ z.up = app.up
      /\ z.session = app.session /\ z.stored = app.stored /\ z.outbox = app.outbox
      /\ z.disk = app.disk /\ z.jam = app.jam
  BY <1>2 DEF App, SameJam
<1> HIDE DEF z
<1>4. y \in App /\ SameJam(z, y) /\ y.status = "Connecting" /\ y.conn = z.conn + 1
      /\ y.up = z.up
  BY <1>3, ConnectToIs
<1> HIDE DEF y
<1>5. AppStep(y)
  BY <1>1, <1>3, <1>4 DEF AppStep
<1>6. "overlaps" \in DOMAIN log' /\ log'.overlaps = b
  BY <1>1
<1>7. ~ b => Kept(z) /\ Apart(z)
  BY <1>1, <1>3 DEF Inv, Settled, Kept, Apart, HasSession, HasStored
<1>8. log'.overlaps \/ (Kept(y) /\ Apart(y))
  BY <1>4, <1>6, <1>7, SameKeeps
<1> QED BY <1>5, <1>6, <1>8, AppStepKeeps

LEMMA CancelCreateKeeps == Inv /\ CancelCreate => Inv'
<1> SUFFICES ASSUME Inv, CancelCreate PROVE Inv'
  OBVIOUS
<1> DEFINE z == [app EXCEPT !.creating = FALSE]
           y == DropConnection(z)
<1>1. app \in App /\ Becomes(y) /\ log' = log /\ "overlaps" \in DOMAIN log
  BY DEF Inv, TypeCorrect, CancelCreate
<1>2. /\ z \in App /\ z.conn = app.conn /\ z.up = app.up
      /\ z.session = app.session /\ z.stored = app.stored /\ z.outbox = app.outbox
      /\ z.disk = app.disk /\ z.jam = app.jam /\ z.creating = FALSE
  BY <1>1 DEF App
<1> HIDE DEF z
<1>3. Leaves(z, y)
  BY <1>2, DropConnectionLeaves
<1> HIDE DEF y
<1>4. AppStep(y)
  BY <1>1, <1>2, <1>3 DEF AppStep, Leaves, SameMail, Drops, Writes, HasSocket
<1>5. Kept(app) /\ Apart(app) => Kept(z) /\ Apart(z)
  BY <1>2 DEF Kept, Apart, HasSession, HasStored
<1>6. log'.overlaps \/ (Kept(y) /\ Apart(y))
  BY <1>1, <1>3, <1>5, SameKeeps DEF Inv, Settled, Leaves
<1> QED BY <1>1, <1>4, <1>6, AppStepKeeps

\* The stored session becomes the session, with the outbox it had.
LEMMA ContinueStoredKeeps == Inv /\ ContinueStored => Inv'
<1> SUFFICES ASSUME Inv, ContinueStored PROVE Inv'
  OBVIOUS
<1> DEFINE x == [app EXCEPT !.session = app.stored, !.stored = NoSession]
           w == WithOutbox(x, x.session.outbox)
           v == StartJam(w)
           y == ConnectTo(v)
<1>1. app \in App /\ HasStored(app) /\ Becomes(y) /\ log' = log /\ "overlaps" \in DOMAIN log
  BY DEF Inv, TypeCorrect, ContinueStored
<1>2. NoSession \in Session /\ NoSession.room = 0
  BY DEF NoSession, Session
<1>3. x \in App /\ x.session = app.stored /\ x.stored = NoSession /\ x.disk = app.disk
      /\ x.outbox = app.outbox /\ x.creating = app.creating /\ x.conn = app.conn /\ x.up = app.up
  BY <1>1, <1>2 DEF App
<1> HIDE DEF x
<1>4. app.stored \in Session /\ app.stored.outbox \in SUBSET Items
      /\ app.stored = [room |-> app.stored.room, outbox |-> app.stored.outbox]
  <2>1. app.stored \in Session
    BY <1>1 DEF App
  <2> QED BY <2>1 DEF Session
<1>5. w \in App /\ SameLine(x, w) /\ w.outbox = app.stored.outbox
      /\ w.session = app.stored
      /\ (w.disk = x.disk \/ w.disk = app.stored)
  BY <1>3, <1>4, WithOutboxIs
<1> HIDE DEF w
<1>6. v \in App /\ SameLine(w, v) /\ v.session = w.session /\ v.disk = w.disk
      /\ v.outbox = w.outbox /\ v.jam = TRUE
  BY <1>5, StartJamIs
<1> HIDE DEF v
<1>7. y \in App /\ SameJam(v, y) /\ y.status = "Connecting" /\ y.conn = v.conn + 1
      /\ y.up = v.up
  BY <1>6, ConnectToIs
<1> HIDE DEF y
<1>8. AppStep(y)
  BY <1>1, <1>3, <1>5, <1>6, <1>7 DEF AppStep, SameLine
<1>9. Kept(app) /\ Apart(app) => Kept(v) /\ Apart(v)
  <2> SUFFICES ASSUME Kept(app), Apart(app) PROVE Kept(v) /\ Apart(v)
    OBVIOUS
  <2>1. ~ HasSession(app) /\ app.disk = app.stored /\ ~ app.creating
    BY <1>1 DEF Kept, Apart
  <2>2. v.session = app.stored /\ v.disk = app.stored /\ v.outbox = app.stored.outbox
        /\ v.jam = TRUE /\ v.stored = NoSession /\ v.creating = app.creating
    BY <1>3, <1>5, <1>6, <2>1 DEF SameLine
  <2> QED BY <1>1, <1>2, <1>4, <2>1, <2>2 DEF Kept, Apart, HasSession, HasStored
<1>10. log'.overlaps \/ (Kept(y) /\ Apart(y))
  BY <1>1, <1>7, <1>9, SameKeeps DEF Inv, Settled
<1> QED BY <1>1, <1>8, <1>10, AppStepKeeps

LEMMA DiscardStoredKeeps == Inv /\ DiscardStored => Inv'
<1> SUFFICES ASSUME Inv, DiscardStored PROVE Inv'
  OBVIOUS
<1> DEFINE x == [app EXCEPT !.discarding = app.stored, !.stored = NoSession, !.disk = NoSession]
           y == ConnectTo(x)
<1>1. app \in App /\ HasStored(app) /\ Becomes(y) /\ log' = log /\ "overlaps" \in DOMAIN log
  BY DEF Inv, TypeCorrect, DiscardStored
<1>2. NoSession \in Session /\ NoSession.room = 0
  BY DEF NoSession, Session
<1>3. x \in App /\ x.session = app.session /\ x.stored = NoSession /\ x.disk = NoSession
      /\ x.outbox = app.outbox /\ x.creating = app.creating /\ x.conn = app.conn
      /\ x.up = app.up /\ x.jam = app.jam
  BY <1>1, <1>2 DEF App
<1> HIDE DEF x
<1>4. y \in App /\ SameJam(x, y) /\ y.status = "Connecting" /\ y.conn = x.conn + 1
      /\ y.up = x.up
  BY <1>3, ConnectToIs
<1> HIDE DEF y
<1>5. AppStep(y)
  BY <1>1, <1>3, <1>4 DEF AppStep
<1>6. Kept(app) /\ Apart(app) => Kept(x) /\ Apart(x)
  BY <1>1, <1>2, <1>3 DEF Kept, Apart, HasSession, HasStored
<1>7. log'.overlaps \/ (Kept(y) /\ Apart(y))
  BY <1>1, <1>4, <1>6, SameKeeps DEF Inv, Settled
<1> QED BY <1>1, <1>5, <1>7, AppStepKeeps

LEMMA EndKeeps == Inv /\ End => Inv'
<1> SUFFICES ASSUME Inv, End PROVE Inv'
  OBVIOUS
<1> DEFINE q == IF app.connected THEN Sent(app, "end", 0, {}) ELSE app
           y == EndLocally(q)
<1>1. app \in App /\ HasSession(app) /\ Becomes(y) /\ log' = log /\ "overlaps" \in DOMAIN log
  BY DEF Inv, TypeCorrect, End
<1>2. q \in App /\ SameJam(app, q) /\ q.conn = app.conn /\ Writes(app, q, "end")
  <2>1. CASE app.connected
    BY <1>1, <2>1, SentIs
  <2>2. CASE ~ app.connected
    BY <1>1, <2>2 DEF SameJam, Writes
  <2> QED BY <2>1, <2>2
<1> HIDE DEF q
<1>3. y \in App /\ y.conn = q.conn /\ y.up = q.up /\ y.status = "Stopped"
  BY <1>2, EndLocallyIs
<1>4. HasSession(q) /\ (Apart(app) => Apart(q))
  BY <1>1, <1>2, SameKeeps DEF SameJam, HasSession
<1>5. Apart(app) => Kept(y) /\ Apart(y)
  BY <1>2, <1>4, EndLocallyKeeps
<1> HIDE DEF y
<1>6. AppStep(y)
  BY <1>1, <1>2, <1>3 DEF AppStep, Drops, Writes, HasSocket
<1>7. log'.overlaps \/ (Kept(y) /\ Apart(y))
  BY <1>1, <1>5 DEF Inv, Settled
<1> QED BY <1>1, <1>6, <1>7, AppStepKeeps

LEMMA ItemStartedKeeps == Inv /\ ItemStarted => Inv'
<1> SUFFICES ASSUME Inv, ItemStarted PROVE Inv'
  OBVIOUS
<1>1. app \in App /\ HasSession(app) /\ "overlaps" \in DOMAIN log
  BY DEF Inv, TypeCorrect, ItemStarted
<1>2. PICK item \in Items :
        /\ Becomes(StartedItem(app, item))
        /\ log' = [log EXCEPT !.begun[app.session.room] = @ \cup {item},
                              !.late = IF app.request # 0 /\ app.status = "Online"
                                         THEN @ \cup {item} ELSE @]
  BY DEF ItemStarted
<1>3. "overlaps" \in DOMAIN log' /\ log'.overlaps = log.overlaps
  BY <1>1, <1>2
<1> DEFINE y == StartedItem(app, item)
           items == app.outbox \cup {item}
<1>4. items \in SUBSET Items /\ {item} \in SUBSET Items
  BY <1>1 DEF App
<1>5. y = Sent(app, "started", 0, {item}) \/ y = WithOutbox(app, items)
  BY DEF StartedItem
<1>6. Becomes(y)
  BY <1>2
<1> HIDE DEF y, items
<1>7. CASE y = Sent(app, "started", 0, {item})
  <2>1. /\ y \in App /\ SameJam(app, y) /\ y.status = app.status /\ y.conn = app.conn
        /\ y.request = app.request /\ Writes(app, y, "started")
    BY <1>1, <1>4, <1>7, SentIs
  <2>2. AppStep(y)
    BY <1>6, <2>1 DEF AppStep, Stays, SameJam
  <2> QED BY <1>3, <2>1, <2>2, SameLog, AppStepKeeps
<1>8. CASE y = WithOutbox(app, items)
  <2>1. y \in App /\ SameLine(app, y)
    BY <1>1, <1>4, <1>8, WithOutboxIs
  <2>2. AppStep(y)
    BY <1>6, <2>1 DEF AppStep, Stays, SameLine, Writes
  <2>3. Kept(app) /\ Apart(app) => Kept(y) /\ Apart(y)
    BY <1>1, <1>4, <1>8, WithOutboxKeeps
  <2> QED BY <1>3, <2>2, <2>3, SameLog, AppStepKeeps
<1> QED BY <1>5, <1>7, <1>8

-----------------------------------------------------------------------------
(* The connection *)

\* The id of the answer that creates a jam is that of the request to create it.
LEMMA ReadKeeps == Inv /\ Read => Inv'
<1> SUFFICES ASSUME Inv, Read PROVE Inv'
  OBVIOUS
<1> DEFINE m == Head(down)
           x == Receive(app, m)
<1>1. /\ app \in App /\ down \in Seq(Reply) /\ down # <<>> /\ HasSocket(app)
      /\ Mail(app, down) /\ log' = log /\ "overlaps" \in DOMAIN log
      /\ app' = x /\ down' = IF HasSocket(x) THEN Tail(down) ELSE <<>>
  BY DEF Inv, TypeCorrect, Read
<1>2. m \in Reply /\ m = down[1] /\ 1 \in DOMAIN down
      /\ Tail(down) \in Seq(Reply) /\ down' \in Seq(Reply)
      /\ \A i \in DOMAIN Tail(down) : i + 1 \in DOMAIN down /\ Tail(down)[i] = down[i + 1]
                                      /\ i + 1 # 1
  BY <1>1, HeadTailProperties
<1>3. CASE m.type = "welcome"
  <2>1. x = Welcomed(app)
    BY <1>3 DEF Receive
  <2>2. x \in App /\ SameJam(app, x) /\ HasSocket(x) /\ Mail(x, Tail(down))
    BY <1>1, <1>3, <2>1, WelcomedKeeps
  <2> HIDE DEF x, m
  <2>3. log.overlaps \/ (Kept(x) /\ Apart(x))
    BY <2>2, SameLog
  <2> QED BY <1>1, <1>2, <2>2, <2>3 DEF Inv, TypeCorrect, Settled
<1>4. CASE m.type # "welcome"
  <2>1. m.type = "created" /\ m.id = app.request => m.room # 0 /\ app.creating
    BY <1>1, <1>2 DEF Mail
  <2>2. Reads(app, x)
    BY <1>1, <1>2, <1>4, <2>1, ReceiveReads
  <2> HIDE DEF x, m
  <2>3. x \in App /\ (log.overlaps \/ (Kept(x) /\ Apart(x)))
    BY <2>2, SameLog DEF Reads
  <2>4. \A i \in DOMAIN Tail(down) : Tail(down)[i].type # "welcome"
    BY <1>1, <1>2 DEF Mail
  <2>5. CASE Stays(app, x)
    <3>1. HasSocket(x)
      BY <1>1, <2>5 DEF Stays, HasSocket
    <3>2. Mail(x, Tail(down))
      BY <1>1, <1>2, <2>3, <2>4, <2>5, StaysMail
    <3> QED BY <1>1, <1>2, <2>3, <3>1, <3>2 DEF Inv, TypeCorrect, Settled
  <2>6. CASE Drops(app, x)
    <3>1. Mail(x, <<>>) /\ ~ HasSocket(x)
      BY <1>1, <2>3, <2>6, DropsMail DEF Drops
    <3> QED BY <1>1, <1>2, <2>3, <3>1 DEF Inv, TypeCorrect, Settled
  <2> QED BY <2>2, <2>5, <2>6 DEF Reads
<1> QED BY <1>3, <1>4

\* What is lost with a connection leaves the others as they are.
LEMMA UnreadIs ==
  ASSUME Inv, NEW conns
  PROVE  /\ Unread(conns) \in [Conns -> Seq(Request)]
         /\ \A c \in Conns : c > app.conn => Unread(conns)[c] = <<>>
<1>1. app.up \in [Conns -> Seq(Request)] /\ <<>> \in Seq(Request)
  BY DEF Inv, TypeCorrect, App
<1>2. \A c \in Conns : c > app.conn => app.up[c] = <<>>
  BY DEF Inv, Mail
<1> QED BY <1>1, <1>2 DEF Unread

LEMMA BreakKeeps == Inv /\ Break => Inv'
<1> SUFFICES ASSUME Inv, Break PROVE Inv'
  OBVIOUS
<1> DEFINE u == Unread({app.conn})
           z == [app EXCEPT !.up = u]
           y == WithStatus(z, "Offline")
<1>1. app \in App /\ Becomes(y) /\ "overlaps" \in DOMAIN log
      /\ log' = [log EXCEPT !.breaks = @ + 1, !.lost = @ \cup ItemsOn({app.conn})]
  BY DEF Inv, TypeCorrect, Break
<1>2. "overlaps" \in DOMAIN log' /\ log'.overlaps = log.overlaps
  BY <1>1
<1>3. u \in [Conns -> Seq(Request)] /\ \A c \in Conns : c > app.conn => u[c] = <<>>
  BY UnreadIs
<1> HIDE DEF u
<1>4. z \in App /\ SameJam(app, z) /\ z.conn = app.conn /\ z.up = u
  BY <1>1, <1>3 DEF App, SameJam
<1> HIDE DEF z
<1>5. y \in App /\ SameJam(z, y) /\ y.conn = app.conn /\ y.up = u /\ y.status = "Offline"
  BY <1>4, WithStatusIs DEF Status, SameMail
<1> HIDE DEF y
<1>6. app' = y /\ down' = <<>>
  BY <1>1, <1>5 DEF Becomes, HasSocket
<1>7. Mail(y, <<>>)
  BY <1>3, <1>5 DEF Mail, HasSocket
<1>8. SameJam(app, y)
  BY <1>4, <1>5 DEF SameJam
<1>9. log.overlaps \/ (Kept(y) /\ Apart(y))
  BY <1>8, SameLog
<1> QED BY <1>2, <1>5, <1>6, <1>7, <1>9 DEF Inv, TypeCorrect, Settled

LEMMA ReconnectKeeps == Inv /\ Reconnect => Inv'
<1> SUFFICES ASSUME Inv, Reconnect PROVE Inv'
  OBVIOUS
<1> DEFINE y == StartClient(app)
<1>1. app \in App /\ Becomes(y) /\ log' = log /\ "overlaps" \in DOMAIN log
  BY DEF Inv, TypeCorrect, Reconnect
<1>2. y \in App /\ SameJam(app, y) /\ AppStep(y)
  BY <1>1, StartClientIs DEF AppStep
<1> HIDE DEF y
<1> QED BY <1>1, <1>2, SameLog, AppStepKeeps

LEMMA TryAgainKeeps == Inv /\ TryAgain => Inv'
<1> SUFFICES ASSUME Inv, TryAgain PROVE Inv'
  OBVIOUS
<1> DEFINE z == [app EXCEPT !.later = FALSE]
           y == IF HasSession(app) THEN ConnectTo(app) ELSE z
<1>1. app \in App /\ Becomes(y) /\ log' = log /\ "overlaps" \in DOMAIN log
  BY DEF Inv, TypeCorrect, TryAgain
<1>2. z \in App /\ SameJam(app, z) /\ SameMail(app, z) /\ z.status = app.status
  BY <1>1 DEF App, SameJam, SameMail
<1>3. Stays(app, z)
  BY <1>2 DEF Stays, Writes, SameJam, SameMail
<1> HIDE DEF z
<1>4. y \in App /\ SameJam(app, y) /\ AppStep(y)
  BY <1>1, <1>2, <1>3, ConnectToIs DEF AppStep
<1> HIDE DEF y
<1> QED BY <1>1, <1>4, SameLog, AppStepKeeps

\* The next run has what the disk has.
LEMMA RestartKeeps == Inv /\ Restart => Inv'
<1> SUFFICES ASSUME Inv, Restart PROVE Inv'
  OBVIOUS
<1>1. app \in App /\ "overlaps" \in DOMAIN log /\ down' = <<>>
  BY DEF Inv, TypeCorrect, Restart
<1>2. PICK lost \in {{}, Conns} :
        /\ app' = NewRun(app.disk, app.conn, Unread(lost))
        /\ log' = [log EXCEPT !.runs = @ + 1, !.lost = @ \cup ItemsOn(lost)]
  BY DEF Restart
<1>3. "overlaps" \in DOMAIN log' /\ log'.overlaps = log.overlaps
  BY <1>1, <1>2
<1> DEFINE u == Unread(lost)
           y == NewRun(app.disk, app.conn, u)
<1>4. u \in [Conns -> Seq(Request)] /\ \A c \in Conns : c > app.conn => u[c] = <<>>
  BY UnreadIs
<1>5. NoSession \in Session /\ NoSession.room = 0 /\ app.disk \in Session /\ app.conn \in Nat
  BY <1>1 DEF NoSession, Session, App
<1>6. app' = y
  BY <1>2
<1> HIDE DEF u
<1>7. y.session = NoSession /\ y.stored = app.disk /\ y.disk = app.disk /\ y.outbox = {}
      /\ y.creating = FALSE /\ y.jam = FALSE /\ y.conn = app.conn /\ y.up = u
      /\ y.status = "Idle"
  BY DEF NewRun
<1>8. y \in App
  BY <1>4, <1>5 DEF NewRun, App, Status
<1> HIDE DEF y
<1>9. Mail(y, <<>>)
  BY <1>4, <1>7 DEF Mail, HasSocket
<1>10. Kept(app) /\ Apart(app) => (app.disk.room = 0 => app.disk = NoSession)
  BY DEF Kept, Apart, HasSession, HasStored
<1>11. Kept(app) /\ Apart(app) => Kept(y) /\ Apart(y)
  BY <1>5, <1>7, <1>10 DEF Kept, Apart, HasSession, HasStored
<1>12. log.overlaps \/ (Kept(y) /\ Apart(y))
  BY <1>11 DEF Inv, Settled
<1> QED BY <1>1, <1>3, <1>6, <1>8, <1>9, <1>12 DEF Inv, TypeCorrect, Settled

-----------------------------------------------------------------------------
(* The server *)

LEMMA GreetKeeps == Inv /\ Greet => Inv'
<1> SUFFICES ASSUME Inv, Greet PROVE Inv'
  OBVIOUS
<1>1. PICK m \in Reply : m.type \in {"welcome", "update-required"} /\ down' = <<m>>
  BY DEF Greet, Welcome, RefuseHello, Message, Reply
<1>2. app' = app /\ log' = log /\ app.status = "Connecting" /\ down = <<>>
  BY DEF Greet
<1>3. down' \in Seq(Reply) /\ \A i \in DOMAIN down' : i = 1 /\ down'[i] = m
  BY <1>1, <1>2
<1>4. Mail(app, down')
  BY <1>1, <1>2, <1>3 DEF Inv, Mail, HasSocket
<1> QED BY <1>2, <1>3, <1>4 DEF Inv, TypeCorrect, Settled

\* One more message that is no welcome; a created one answers a create that was
\* the first on the current connection.
LEMMA AppendMail ==
  ASSUME NEW x \in App, NEW d \in Seq(Reply), NEW m \in Reply, Mail(x, d), HasSocket(x),
         m.type # "welcome",
         m.type = "created" =>
           m.room # 0 /\ m.id = x.conn /\ (x.request = x.conn => x.creating)
           /\ x.status # "Connecting"
  PROVE  Append(d, m) \in Seq(Reply) /\ Mail(x, Append(d, m))
<1> DEFINE e == Append(d, m)
<1>1. /\ e \in Seq(Reply) /\ DOMAIN e = 1..(Len(d) + 1) /\ DOMAIN d = 1..Len(d)
      /\ \A i \in DOMAIN d : e[i] = d[i]
      /\ e[Len(d) + 1] = m
  BY AppendProperties
<1>2. \A i \in DOMAIN e : (i \in DOMAIN d /\ e[i] = d[i]) \/ e[i] = m
  BY <1>1
<1> HIDE DEF e
<1>3. \A i \in DOMAIN e : e[i].type = "welcome" => i = 1 /\ x.status = "Connecting"
  BY <1>2 DEF Mail
<1>4. \A i \in DOMAIN e : e[i].type = "created" =>
        e[i].room # 0 /\ e[i].id = x.conn /\ (x.request = x.conn => x.creating)
        /\ x.status # "Connecting"
  BY <1>2 DEF Mail
<1>5. Mail(x, e)
  BY <1>3, <1>4 DEF Mail
<1> QED BY <1>1, <1>5 DEF e

\* The server reads the oldest request of a connection.
LEMMA ServeKeeps == Inv /\ Serve => Inv'
<1> SUFFICES ASSUME Inv, Serve PROVE Inv'
  OBVIOUS
<1>1. PICK conn \in Conns :
        /\ app.up[conn] # <<>>
        /\ LET m == Head(app.up[conn]) IN
             \/ Refuse(conn, m) \/ OpenRoom(conn, m) \/ ResumeRoom(conn, m)
             \/ NoteStarted(conn, m) \/ EndRoom(conn, m)
        /\ app' = [app EXCEPT !.up[conn] = Tail(@)]
        /\ log' = log
  BY DEF Serve
<1> DEFINE m == Head(app.up[conn])
           u == [app.up EXCEPT ![conn] = Tail(@)]
<1>2. app \in App /\ down \in Seq(Reply) /\ Mail(app, down) /\ "overlaps" \in DOMAIN log
      /\ app.up \in [Conns -> Seq(Request)] /\ app.up[conn] \in Seq(Request)
  BY DEF Inv, TypeCorrect, App
<1>3. /\ m = app.up[conn][1] /\ 1 \in DOMAIN app.up[conn]
      /\ Tail(app.up[conn]) \in Seq(Request)
      /\ \A i \in DOMAIN Tail(app.up[conn]) :
           i + 1 \in DOMAIN app.up[conn] /\ Tail(app.up[conn])[i] = app.up[conn][i + 1]
  BY <1>1, <1>2, HeadTailProperties
<1>4. /\ u \in [Conns -> Seq(Request)] /\ u[conn] = Tail(app.up[conn])
      /\ \A c \in Conns : c # conn => u[c] = app.up[c]
  BY <1>2, <1>3
<1>5. app' = [app EXCEPT !.up = u]
  BY <1>1
<1>6. \/ down' = down
      \/ /\ conn = app.conn /\ HasSocket(app)
         /\ \E type \in {"refused", "created", "resumed", "gone", "ack"}, room \in Nat :
              /\ type = "created" => room # 0 /\ m.type = "create"
              /\ down' = Append(down, Message(type, conn, room))
  <2>1. CASE Refuse(conn, m)
    BY <2>1 DEF Refuse, Answer
  <2>2. CASE OpenRoom(conn, m)
    <3>1. PICK room \in Rooms : Answer(conn, "created", room)
      BY <2>2 DEF OpenRoom
    <3>2. room \in Nat /\ room # 0 /\ m.type = "create"
      BY <2>2, <3>1 DEF OpenRoom, Rooms
    <3> QED BY <3>1, <3>2 DEF Answer
  <2>3. CASE ResumeRoom(conn, m)
    BY <2>3 DEF ResumeRoom, Answer
  <2>4. CASE NoteStarted(conn, m)
    BY <2>4 DEF NoteStarted
  <2>5. CASE EndRoom(conn, m)
    BY <2>5 DEF EndRoom, Answer
  <2> QED BY <1>1, <2>1, <2>2, <2>3, <2>4, <2>5
<1> HIDE DEF u
<1>7. app' \in App /\ SameJam(app, app') /\ app'.conn = app.conn /\ app'.up = u
      /\ app'.request = app.request /\ app'.status = app.status
  BY <1>2, <1>4, <1>5 DEF App, SameJam
<1>8. log'.overlaps \/ (Kept(app') /\ Apart(app'))
  BY <1>1, <1>7, SameLog
<1>9. Mail(app', down)
  <2>1. \A c \in Conns : app.up[c] = <<>> => u[c] = <<>>
    BY <1>1, <1>4
  <2>2. HasSocket(app') <=> HasSocket(app)
    BY <1>7 DEF HasSocket
  <2>3. ASSUME HasSocket(app), app.conn \in Conns, app.request = app.conn,
               NEW i \in DOMAIN u[app.conn], u[app.conn][i].type = "create"
        PROVE  app.creating
    <3>1. CASE app.conn = conn
      <4>1. i + 1 \in DOMAIN app.up[app.conn] /\ app.up[app.conn][i + 1].type = "create"
        BY <1>3, <1>4, <2>3, <3>1
      <4> QED BY <1>2, <2>3, <4>1 DEF Mail
    <3>2. CASE app.conn # conn
      <4>1. u[app.conn] = app.up[app.conn]
        BY <1>4, <2>3, <3>2
      <4> QED BY <1>2, <2>3, <4>1 DEF Mail
    <3> QED BY <3>1, <3>2
  <2>4. app'.creating = app.creating
    BY <1>7 DEF SameJam
  <2> QED BY <1>2, <1>7, <2>1, <2>2, <2>3, <2>4 DEF Mail
<1>10. CASE down' = down
  BY <1>1, <1>2, <1>7, <1>8, <1>9, <1>10 DEF Inv, TypeCorrect, Settled
<1>11. CASE conn = app.conn /\ HasSocket(app) /\ down' # down
  <2>1. PICK type \in {"refused", "created", "resumed", "gone", "ack"}, room \in Nat :
          /\ type = "created" => room # 0 /\ m.type = "create"
          /\ down' = Append(down, Message(type, conn, room))
    BY <1>6, <1>11
  <2> DEFINE r == Message(type, conn, room)
  <2>2. r \in Reply /\ r.type = type /\ r.id = app.conn /\ r.room = room
    <3>1. conn \in Nat
      BY <1>2, <1>11 DEF App
    <3> QED BY <1>11, <3>1 DEF Message, Reply
  <2>3. down' = Append(down, r)
    BY <2>1
  <2> HIDE DEF r
  <2>4. HasSocket(app') /\ app'.creating = app.creating
    BY <1>7, <1>11 DEF HasSocket, SameJam
  <2>5. app.status # "Connecting"
    BY <1>1, <1>2, <1>11 DEF Mail
  <2>6. type = "created" /\ app.request = app.conn => app.creating
    BY <1>2, <1>3, <1>11, <2>1 DEF Mail
  <2>7. Append(down, r) \in Seq(Reply) /\ Mail(app', Append(down, r))
    BY <1>2, <1>7, <1>9, <2>1, <2>2, <2>4, <2>5, <2>6, AppendMail
  <2> QED BY <1>1, <1>2, <1>7, <1>8, <2>3, <2>7 DEF Inv, TypeCorrect, Settled
<1> QED BY <1>6, <1>10, <1>11

\* A message of the server's own is neither of the two that matter.
LEMMA UnaskedKeeps ==
  ASSUME Inv, NEW m \in Reply, m.type \notin {"welcome", "created"},
         HasSocket(app), down' = Append(down, m), app' = app, log' = log
  PROVE  Inv'
<1>1. app \in App /\ down \in Seq(Reply) /\ Mail(app, down)
  BY DEF Inv, TypeCorrect
<1>2. down' \in Seq(Reply) /\ Mail(app, down')
  BY <1>1, AppendMail
<1> QED BY <1>2 DEF Inv, TypeCorrect, Settled

LEMMA TellKeeps == Inv /\ Tell => Inv'
<1> SUFFICES ASSUME Inv, Tell PROVE Inv'
  OBVIOUS
<1>1. PICK type \in {"state", "snapshot"} : down' = <<Message(type, 0, 0)>>
  BY DEF Tell
<1>2. app' = app /\ log' = log /\ HasSocket(app) /\ down = <<>>
  BY DEF Tell, Accepted
<1>3. Message(type, 0, 0) \in Reply /\ Message(type, 0, 0).type = type
  BY DEF Message, Reply
<1>4. down' = Append(down, Message(type, 0, 0))
  BY <1>1, <1>2
<1> QED BY <1>2, <1>3, <1>4, UnaskedKeeps

LEMMA CloseRoomKeeps == Inv /\ CloseRoom => Inv'
<1> SUFFICES ASSUME Inv, CloseRoom PROVE Inv'
  OBVIOUS
<1> DEFINE m == Message("ended", 0, 0)
<1>1. m \in Reply /\ m.type = "ended"
  BY DEF Message, Reply
<1>2. app' = app /\ log' = log /\ (down' = down \/ (HasSocket(app) /\ down' = Append(down, m)))
  BY DEF CloseRoom
<1> HIDE DEF m
<1>3. CASE down' = down
  BY <1>2, <1>3 DEF Inv, TypeCorrect, Mail, Settled, Kept, Apart, HasSession, HasStored, HasSocket
<1>4. CASE HasSocket(app) /\ down' = Append(down, m)
  BY <1>1, <1>2, <1>4, UnaskedKeeps
<1> QED BY <1>2, <1>3, <1>4

-----------------------------------------------------------------------------

LEMMA StepInv == Inv /\ [Next]_vars => Inv'
<1> SUFFICES ASSUME Inv, [Next]_vars PROVE Inv'
  OBVIOUS
<1>1. CASE Create BY <1>1, CreateKeeps
<1>2. CASE CancelCreate BY <1>2, CancelCreateKeeps
<1>3. CASE ContinueStored BY <1>3, ContinueStoredKeeps
<1>4. CASE DiscardStored BY <1>4, DiscardStoredKeeps
<1>5. CASE End BY <1>5, EndKeeps
<1>6. CASE ItemStarted BY <1>6, ItemStartedKeeps
<1>7. CASE Read BY <1>7, ReadKeeps
<1>8. CASE Break BY <1>8, BreakKeeps
<1>9. CASE Reconnect BY <1>9, ReconnectKeeps
<1>10. CASE TryAgain BY <1>10, TryAgainKeeps
<1>11. CASE Restart BY <1>11, RestartKeeps
<1>12. CASE Greet BY <1>12, GreetKeeps
<1>13. CASE Serve BY <1>13, ServeKeeps
<1>14. CASE Tell BY <1>14, TellKeeps
<1>15. CASE CloseRoom BY <1>15, CloseRoomKeeps
<1>16. CASE UNCHANGED vars
  <2>1. app' = app /\ down' = down /\ log' = log
    BY <1>16 DEF vars
  <2> QED BY <2>1 DEF Inv, TypeCorrect, Mail, Settled, Kept, Apart, HasSession, HasStored, HasSocket
<1> QED BY <1>1, <1>2, <1>3, <1>4, <1>5, <1>6, <1>7, <1>8, <1>9, <1>10, <1>11, <1>12,
           <1>13, <1>14, <1>15, <1>16 DEF Next

\* At whatever moment the program ends, what the host keeps of its jam is on disk,
\* with the outbox as it is, and no session is left there once it ended; all this
\* as long as no jam was created before the question about the stored one was
\* answered (HostSession and SessionStore in src/jam).
THEOREM AlwaysOnDisk == Spec => []OnDisk
<1>1. Spec => []Inv
  BY InitInv, StepInv, PTL DEF Spec
<1>2. Inv => OnDisk
  BY DEF Inv, Settled, Kept, OnDisk
<1> QED BY <1>1, <1>2, PTL

-----------------------------------------------------------------------------
(* Items that began: what the server knows, the line carries or the outbox keeps *)

Place == Rooms \cup {0}
Asks == {"create", "resume"}
Answers == {"created", "resumed", "refused", "gone"}

RoomState == {"none", "open", "closed", "ended by the host"}
ServerType ==
  [rooms : [Rooms -> RoomState],
   started : [Rooms -> SUBSET Items], room : [Conns -> Place], outdated : Nat,
   refusals : Nat]
LogFields == {"begun", "late", "lost", "overlaps", "creates", "breaks", "runs"}
LogOk(lg) == LogFields \subseteq DOMAIN lg /\ lg.begun \in [Rooms -> SUBSET Items]

\* An item begins once, in one room, and none in a room that is not made yet.
Store(sv, lg) ==
  /\ sv \in ServerType /\ LogOk(lg)
  /\ \A r \in Rooms : sv.rooms[r] = "none" => lg.begun[r] = {}
  /\ \A r \in Rooms : \A s \in Rooms : r # s => lg.begun[r] \cap lg.begun[s] = {}

\* A session is one of a room that was made.
Made(room, sv) == room = 0 \/ (room \in Rooms /\ sv.rooms[room] # "none")

\* What is discarded has taken the place of what was stored, and no session is had.
Discards(x) ==
  /\ IsDiscarding(x) => ~ HasSession(x) /\ ~ x.creating /\ ~ HasStored(x)
  /\ x.ending # 0 => IsDiscarding(x)

Places(x, sv) ==
  /\ Made(x.session.room, sv) /\ Made(x.stored.room, sv) /\ x.discarding.room \in Place
  /\ Discards(x)

\* An item goes on a connection only when the server has put it in its room, which
\* stays; and what asks for the room is alone on it.
OnTheWay(up, c, sv, lg) == \A i \in DOMAIN up[c] :
  /\ up[c][i].type = "started" =>
       sv.room[c] \in Rooms /\ up[c][i].items \subseteq lg.begun[sv.room[c]]
  /\ up[c][i].type \in Asks => Len(up[c]) = 1 /\ up[c][i].room \in Place
UpOk(up, sv, lg) == \A c \in Conns : OnTheWay(up, c, sv, lg)

\* The current connection: nothing is asked, or a room is asked for, or the answer
\* is on its way, and then the items of the outbox came with it.
NoAsk(x) == x.conn \in Conns =>
  \A i \in DOMAIN x.up[x.conn] : x.up[x.conn][i].type \notin Asks
NoAnswer(d) == \A i \in DOMAIN d : d[i].type \notin Answers

Quietly(x, d, sv) ==
  /\ NoAsk(x) /\ NoAnswer(d)
  /\ x.connected => x.conn \in Conns /\ (HasSession(x) => sv.room[x.conn] = x.session.room)

Waiting(x) ==
  x.conn \in Conns /\ x.request = x.conn /\ x.status = "Online" /\ x.connected = FALSE

AskOk(x, m, lg) ==
  \/ m.type = "create" /\ ~ HasSession(x)
  \/ m.type = "resume" /\ (HasSession(x) =>
       m.room = x.session.room /\ x.outbox \subseteq m.items \cup lg.late)

Asked(x, d, lg) ==
  /\ Waiting(x) /\ NoAnswer(d)
  /\ Len(x.up[x.conn]) = 1 /\ AskOk(x, x.up[x.conn][1], lg)

AnswerOk(x, m, sv, lg) ==
  \/ m.type \in {"refused", "gone"}
  \/ /\ m.type = "created" /\ ~ HasSession(x) /\ m.room # 0 /\ Made(m.room, sv)
     /\ sv.room[x.conn] = m.room /\ lg.begun[m.room] = {}
  \/ /\ m.type = "resumed"
     /\ HasSession(x) => /\ sv.room[x.conn] = x.session.room
                         /\ x.outbox \subseteq sv.started[x.session.room] \cup lg.late

Answered(x, d, sv, lg) ==
  /\ Waiting(x) /\ NoAsk(x)
  /\ \E i \in DOMAIN d : /\ AnswerOk(x, d[i], sv, lg)
                         /\ \A j \in DOMAIN d : j # i => d[j].type \notin Answers

\* Answers and acknowledgements name their request.
Named(d) == \A i \in DOMAIN d : d[i].type \in Answers \cup {"ack"} => d[i].id # 0

Here(x, d, sv, lg) ==
  /\ Named(d)
  /\ HasSocket(x) => Quietly(x, d, sv) \/ Asked(x, d, lg) \/ Answered(x, d, sv, lg)

ItemsIn(up) == UNION {StartedIn(up[c]) : c \in Conns}

\* The promise of a room on disk
Remembered(x, sv, lg) ==
  x.disk.room # 0 /\ sv.rooms[x.disk.room] = "open" =>
    lg.begun[x.disk.room] \subseteq
      sv.started[x.disk.room] \cup x.disk.outbox \cup ItemsIn(x.up) \cup lg.lost \cup lg.late

Keeping(x, d, sv, lg) ==
  /\ Store(sv, lg) /\ Places(x, sv) /\ UpOk(x.up, sv, lg) /\ Here(x, d, sv, lg)
  /\ Remembered(x, sv, lg)

KeepInv == ~ log.overlaps => Keeping(app, down, server, log)

-----------------------------------------------------------------------------
(* What the operations do to the rest of the app *)

\* Neither a discard nor its End is touched.
Rests(x, y) == y.discarding = x.discarding /\ y.ending = x.ending

LEMMA WithStatusRests ==
  ASSUME NEW x \in App, NEW s \in Status
  PROVE  /\ Rests(x, WithStatus(x, s))
         /\ WithStatus(x, s).connected <=> (x.connected /\ s = "Online")
<1> DEFINE b == x.connected /\ s = "Online"
<1>1. b \in BOOLEAN
  BY DEF App
<1>2. WithStatus(x, s) = [x EXCEPT !.status = s, !.connected = b]
  BY DEF WithStatus
<1> HIDE DEF b
<1>3. Rests(x, WithStatus(x, s)) /\ WithStatus(x, s).connected = b
  BY <1>1, <1>2 DEF App, Rests
<1> QED BY <1>3 DEF b

\* A connection that begins is not accepted yet.
LEMMA ConnectRests ==
  ASSUME NEW x \in App
  PROVE  /\ Rests(x, StartClient(x)) /\ StartClient(x).connected = FALSE
         /\ Rests(x, ConnectTo(x)) /\ ConnectTo(x).connected = FALSE
<1>1. ASSUME NEW w \in App
      PROVE  Rests(w, StartClient(w)) /\ StartClient(w).connected = FALSE
  <2> DEFINE z == [w EXCEPT !.conn = @ + 1]
  <2>1. w.conn + 1 \in Nat
    BY DEF App
  <2>2. z \in App /\ Rests(w, z)
    BY <2>1 DEF App, Rests
  <2>3. StartClient(w) = WithStatus(z, "Connecting") /\ "Connecting" \in Status
    BY DEF StartClient, Status
  <2> HIDE DEF z
  <2>4. Rests(z, StartClient(w)) /\ (StartClient(w).connected <=> FALSE)
    BY <2>2, <2>3, WithStatusRests
  <2>5. StartClient(w).connected \in BOOLEAN
    BY StartClientIs DEF App
  <2> QED BY <2>2, <2>4, <2>5 DEF Rests
<1> DEFINE z == [x EXCEPT !.later = FALSE]
<1>2. z \in App /\ Rests(x, z)
  BY DEF App, Rests
<1>3. ConnectTo(x) = StartClient(z)
  BY DEF ConnectTo
<1> HIDE DEF z
<1> QED BY <1>1, <1>2, <1>3 DEF Rests

LEMMA LeaveRests ==
  ASSUME NEW x \in App
  PROVE  Rests(x, StopClient(x)) /\ Rests(x, DropConnection(x)) /\ Rests(x, RetryLater(x))
<1>1. \A w \in App : Rests(w, StopClient(w))
  BY WithStatusRests DEF StopClient, Status
<1> DEFINE z == [x EXCEPT !.later = FALSE, !.connected = FALSE]
           d == DropConnection(x)
<1>2. z \in App /\ Rests(x, z)
  BY DEF App, Rests
<1>3. d = StopClient(z)
  BY DEF DropConnection
<1> HIDE DEF z
<1>4. Rests(x, d) /\ d \in App
  BY <1>1, <1>2, <1>3, StopClientLeaves DEF Rests, Leaves
<1>5. RetryLater(x) = [d EXCEPT !.later = TRUE]
  BY DEF RetryLater
<1> HIDE DEF d
<1>6. Rests(x, RetryLater(x))
  BY <1>4, <1>5 DEF App, Rests
<1> QED BY <1>1, <1>4, <1>6 DEF d

LEMMA SaveRests ==
  ASSUME NEW x \in App, NEW s \in Session
  PROVE  Rests(x, Save(x, s)) /\ Save(x, s).connected = x.connected
BY DEF Save, App, Rests

LEMMA WithOutboxRests ==
  ASSUME NEW x \in App, NEW items \in SUBSET Items
  PROVE  Rests(x, WithOutbox(x, items)) /\ WithOutbox(x, items).connected = x.connected
<1> DEFINE z == [x EXCEPT !.outbox = items]
           s == [z.session EXCEPT !.outbox = items]
           y == WithOutbox(x, items)
<1>1. z \in App /\ Rests(x, z) /\ z.connected = x.connected
  BY DEF App, Rests
<1>2. s \in Session
  <2>1. z.session \in Session
    BY <1>1 DEF App
  <2> QED BY <2>1 DEF Session
<1>3. y \in {z, Save(z, s)}
  BY DEF WithOutbox
<1> HIDE DEF z, s, y
<1>4. Rests(x, y) /\ y.connected = x.connected
  BY <1>1, <1>2, <1>3, SaveRests DEF Rests
<1> QED BY <1>4 DEF y

LEMMA EndLocallyRests ==
  ASSUME NEW x \in App PROVE Rests(x, EndLocally(x))
<1> DEFINE z == [x EXCEPT !.session = NoSession, !.request = 0]
           d == DropConnection(z)
           w == WithOutbox(d, {})
<1>1. NoSession \in Session /\ {} \in SUBSET Items
  BY DEF NoSession, Session
<1>2. z \in App /\ Rests(x, z)
  BY <1>1 DEF App, Rests
<1>3. EndLocally(x) = [w EXCEPT !.disk = NoSession, !.jam = FALSE]
  BY DEF EndLocally
<1> HIDE DEF z
<1>4. d \in App /\ Rests(z, d)
  BY <1>2, DropConnectionLeaves, LeaveRests DEF Leaves
<1> HIDE DEF d
<1>5. w \in App /\ Rests(d, w)
  BY <1>1, <1>4, WithOutboxIs, WithOutboxRests
<1> HIDE DEF w
<1>6. Rests(w, EndLocally(x))
  BY <1>3, <1>5 DEF App, Rests
<1> QED BY <1>2, <1>4, <1>5, <1>6 DEF Rests

LEMMA StartJamRests ==
  ASSUME NEW x \in App
  PROVE  Rests(x, StartJam(x)) /\ StartJam(x).connected = x.connected
<1> DEFINE b == x.fed /\ x.jam
<1>1. StartJam(x) = [x EXCEPT !.jam = TRUE, !.fed = b]
  BY DEF StartJam
<1> HIDE DEF b
<1> QED BY <1>1 DEF App, Rests

\* A discard that is finished leaves the connection unless something else needs it.
LEMMA FinishDiscardRests ==
  ASSUME NEW x \in App
  PROVE  LET y == FinishDiscard(x) IN
         /\ y.discarding = NoSession /\ y.ending = 0
         /\ ~ HasSession(x) /\ ~ x.creating => y.status = "Stopped"
<1> DEFINE z == [x EXCEPT !.discarding = NoSession, !.ending = 0, !.request = 0]
           y == FinishDiscard(x)
<1>1. NoSession \in Session
  BY DEF NoSession, Session
<1>2. z \in App /\ z.discarding = NoSession /\ z.ending = 0
  BY <1>1 DEF App
<1>3. y = IF HasSession(x) \/ x.creating THEN z ELSE DropConnection(z)
  BY DEF FinishDiscard
<1> HIDE DEF z, y
<1>4. Leaves(z, DropConnection(z)) /\ Rests(z, DropConnection(z))
  BY <1>2, DropConnectionLeaves, LeaveRests
<1>5. y.discarding = NoSession /\ y.ending = 0
      /\ (~ HasSession(x) /\ ~ x.creating => y.status = "Stopped")
  BY <1>2, <1>3, <1>4 DEF Leaves, Rests
<1> QED BY <1>5 DEF y

\* send() writes the message at the end of the current connection.
Carries(x, y, m) ==
  y.up = IF x.conn \in Conns THEN [x.up EXCEPT ![x.conn] = Append(@, m)] ELSE x.up

LEMMA SentCarries ==
  ASSUME NEW x \in App, NEW m \in Request, x.status = "Online"
  PROVE  LET y == Sent(x, m.type, m.room, m.items) IN
         Carries(x, y, m) /\ Rests(x, y) /\ y.connected = x.connected
<1> DEFINE u == [x.up EXCEPT ![x.conn] = Append(@, m)]
           y == Sent(x, m.type, m.room, m.items)
<1>1. m = [type |-> m.type, room |-> m.room, items |-> m.items]
  BY DEF Request
<1>2. y = [x EXCEPT !.up = u]
  BY <1>1 DEF Sent
<1>3. x.up \in [Conns -> Seq(Request)]
  BY DEF App
<1>4. x.conn \notin Conns => u = x.up
  BY <1>3
<1>5. x.conn \in Conns => u = [x.up EXCEPT ![x.conn] = Append(@, m)]
  OBVIOUS
<1> HIDE DEF u, y
<1>6. y.up = u /\ Rests(x, y) /\ y.connected = x.connected
  BY <1>2 DEF App, Rests
<1> QED BY <1>4, <1>5, <1>6 DEF Carries, y

-----------------------------------------------------------------------------
(* The lines *)

LEMMA InItems ==
  ASSUME NEW up, NEW item
  PROVE  item \in ItemsIn(up) <=>
           \E c \in Conns : \E i \in DOMAIN up[c] :
             up[c][i].type = "started" /\ item \in up[c][i].items
BY DEF ItemsIn, StartedIn

\* A line with one message more
Longer(s, t, m) ==
  /\ t = Append(s, m)
  /\ DOMAIN s = 1..Len(s) /\ Len(s) \in Nat /\ DOMAIN t = 1..(Len(s) + 1)
  /\ \A i \in DOMAIN s : i \in DOMAIN t /\ t[i] = s[i]
  /\ t[Len(s) + 1] = m

LEMMA CarriesIs ==
  ASSUME NEW x \in App, NEW m \in Request, NEW y, Carries(x, y, m)
  PROVE  /\ \A c \in Conns : c # x.conn => y.up[c] = x.up[c]
         /\ x.conn \in Conns => Longer(x.up[x.conn], y.up[x.conn], m)
<1>1. x.up \in [Conns -> Seq(Request)]
  BY DEF App
<1>2. \A c \in Conns : c # x.conn => y.up[c] = x.up[c]
  BY <1>1 DEF Carries
<1>3. ASSUME x.conn \in Conns
      PROVE  y.up[x.conn] = Append(x.up[x.conn], m) /\ x.up[x.conn] \in Seq(Request)
  BY <1>1, <1>3 DEF Carries
<1>4. \A s \in Seq(Request) :
        /\ DOMAIN s = 1..Len(s) /\ Len(s) \in Nat /\ DOMAIN Append(s, m) = 1..(Len(s) + 1)
        /\ \A i \in DOMAIN s : i \in DOMAIN Append(s, m) /\ Append(s, m)[i] = s[i]
        /\ Append(s, m)[Len(s) + 1] = m
  BY AppendProperties
<1>5. \A s \in Seq(Request) : Longer(s, Append(s, m), m)
  BY <1>4 DEF Longer
<1> QED BY <1>2, <1>3, <1>5

\* What is written adds to the items on the way.
LEMMA CarriesItems ==
  ASSUME NEW x \in App, NEW m \in Request, NEW y, Carries(x, y, m)
  PROVE  /\ ItemsIn(x.up) \subseteq ItemsIn(y.up)
         /\ x.conn \in Conns /\ m.type = "started" => m.items \subseteq ItemsIn(y.up)
<1>1. ASSUME NEW item \in ItemsIn(x.up) PROVE item \in ItemsIn(y.up)
  <2>1. PICK c \in Conns : \E i \in DOMAIN x.up[c] :
          x.up[c][i].type = "started" /\ item \in x.up[c][i].items
    BY <1>1, InItems
  <2>2. PICK i \in DOMAIN x.up[c] : x.up[c][i].type = "started" /\ item \in x.up[c][i].items
    BY <2>1
  <2>3. CASE c # x.conn
    <3>1. y.up[c] = x.up[c]
      BY <2>3, CarriesIs
    <3> QED BY <2>2, <3>1, InItems
  <2>4. CASE c = x.conn
    <3>1. i \in DOMAIN y.up[c] /\ y.up[c][i] = x.up[c][i]
      <4>1. Longer(x.up[c], y.up[c], m)
        BY <2>4, CarriesIs
      <4> QED BY <2>2, <4>1 DEF Longer
    <3> QED BY <2>2, <3>1, InItems
  <2> QED BY <2>3, <2>4
<1>2. ASSUME x.conn \in Conns, m.type = "started", NEW item \in m.items
      PROVE  item \in ItemsIn(y.up)
  <2> DEFINE n == Len(x.up[x.conn]) + 1
  <2>1. n \in DOMAIN y.up[x.conn] /\ y.up[x.conn][n] = m
    <3>1. Longer(x.up[x.conn], y.up[x.conn], m)
      BY <1>2, CarriesIs
    <3> QED BY <3>1 DEF Longer
  <2> QED BY <1>2, <2>1, InItems
<1> QED BY <1>1, <1>2

\* A message may be written when it keeps to its place on the line.
LEMMA CarriesUp ==
  ASSUME NEW x \in App, NEW m \in Request, NEW y, Carries(x, y, m), NEW sv, NEW lg,
         UpOk(x.up, sv, lg),
         x.conn \in Conns =>
           /\ m.type = "started" => sv.room[x.conn] \in Rooms
                                    /\ m.items \subseteq lg.begun[sv.room[x.conn]]
           /\ m.type \in Asks => x.up[x.conn] = <<>> /\ m.room \in Place
           /\ NoAsk(x)
  PROVE  UpOk(y.up, sv, lg)
<1> SUFFICES ASSUME NEW c \in Conns PROVE OnTheWay(y.up, c, sv, lg)
  BY DEF UpOk
<1>1. OnTheWay(x.up, c, sv, lg)
  BY DEF UpOk
<1>2. CASE c # x.conn
  <2>1. y.up[c] = x.up[c]
    BY <1>2, CarriesIs
  <2> QED BY <1>1, <2>1 DEF OnTheWay
<1>3. CASE c = x.conn
  <2> DEFINE s == x.up[c]
             t == y.up[c]
  <2>1. /\ Len(s) \in Nat /\ DOMAIN s = 1..Len(s) /\ DOMAIN t = 1..(Len(s) + 1)
        /\ \A i \in DOMAIN s : t[i] = s[i]
        /\ t[Len(s) + 1] = m
    <3>1. Longer(s, t, m)
      BY <1>3, CarriesIs
    <3> HIDE DEF s, t
    <3> QED BY <3>1 DEF Longer
  <2>2. \A i \in DOMAIN t : i \in DOMAIN s \/ (i = Len(s) + 1 /\ t[i] = m)
    BY <2>1
  <2>3. \A i \in DOMAIN s : s[i].type \notin Asks
    BY <1>3 DEF NoAsk
  <2>4. m.type \in Asks => Len(t) = 1
    <3>1. x.up \in [Conns -> Seq(Request)]
      BY DEF App
    <3>2. t = Append(s, m)
      BY <1>3, CarriesIs DEF Longer
    <3> HIDE DEF s, t
    <3>3. m.type \in Asks => s = <<>>
      BY <1>3 DEF s
    <3>4. s = <<>> => Len(t) = 1
      BY <3>2
    <3> QED BY <3>3, <3>4
  <2>5. /\ m.type = "started" => sv.room[c] \in Rooms /\ m.items \subseteq lg.begun[sv.room[c]]
        /\ m.type \in Asks => m.room \in Place
    BY <1>3
  <2>6. ASSUME NEW i \in DOMAIN t
        PROVE  /\ t[i].type = "started" =>
                    sv.room[c] \in Rooms /\ t[i].items \subseteq lg.begun[sv.room[c]]
               /\ t[i].type \in Asks => Len(t) = 1 /\ t[i].room \in Place
    <3>1. CASE i \in DOMAIN s
      <4>1. t[i] = s[i] /\ t[i].type \notin Asks
        BY <2>1, <2>3, <3>1
      <4> QED BY <1>1, <3>1, <4>1 DEF OnTheWay
    <3>2. CASE t[i] = m
      BY <2>4, <2>5, <3>2
    <3> QED BY <2>2, <3>1, <3>2
  <2> QED BY <2>6 DEF OnTheWay
<1> QED BY <1>2, <1>3

-----------------------------------------------------------------------------
(* Steps of the app that leave the connection, or begin one *)

\* The items' part of the log is as it was, but for what was lost.
SameItems(lg, later) ==
  /\ LogOk(later) /\ later.begun = lg.begun /\ later.late = lg.late
  /\ lg.lost \subseteq later.lost

LEMMA SameStore ==
  ASSUME NEW sv, NEW lg, NEW later, SameItems(lg, later)
  PROVE  /\ Store(sv, lg) => Store(sv, later)
         /\ \A up : UpOk(up, sv, lg) => UpOk(up, sv, later)
BY DEF SameItems, Store, UpOk, OnTheWay

\* What the disk has of a room goes on, or the disk has none any more.
LEMMA StillRemembered ==
  ASSUME NEW x, NEW y, NEW sv, NEW lg, NEW later, SameItems(lg, later),
         Remembered(x, sv, lg), y.disk = x.disk \/ y.disk.room = 0,
         ItemsIn(x.up) \subseteq ItemsIn(y.up) \cup later.lost
  PROVE  Remembered(y, sv, later)
BY DEF Remembered, SameItems

LEMMA LeavingKeeps ==
  ASSUME NEW x, NEW y, NEW d, NEW sv, NEW lg, NEW later,
         Keeping(x, d, sv, lg), SameItems(lg, later), ~ HasSocket(y),
         UpOk(y.up, sv, lg), Places(y, sv), y.disk = x.disk \/ y.disk.room = 0,
         ItemsIn(x.up) \subseteq ItemsIn(y.up) \cup later.lost
  PROVE  Keeping(y, <<>>, sv, later)
<1>1. Store(sv, later) /\ UpOk(y.up, sv, later)
  BY SameStore DEF Keeping
<1>2. Remembered(y, sv, later)
  BY StillRemembered DEF Keeping
<1>3. Here(y, <<>>, sv, later)
  BY DEF Here, Named
<1> QED BY <1>1, <1>2, <1>3 DEF Keeping

LEMMA BeginningKeeps ==
  ASSUME NEW x \in App, NEW y, NEW d, NEW sv, NEW lg, NEW later, Mail(x, d),
         Keeping(x, d, sv, lg), SameItems(lg, later),
         y.conn = x.conn + 1, y.up = x.up, y.connected = FALSE,
         Places(y, sv), y.disk = x.disk \/ y.disk.room = 0
  PROVE  Keeping(y, <<>>, sv, later)
<1>1. Store(sv, later) /\ UpOk(y.up, sv, later)
  BY SameStore DEF Keeping
<1>2. Remembered(y, sv, later)
  BY StillRemembered DEF Keeping
<1>3. NoAsk(y)
  <2>1. x.conn \in Nat
    BY DEF App
  <2>2. y.conn \in Conns => y.conn > x.conn
    BY <2>1
  <2>3. y.conn \in Conns => y.up[y.conn] = <<>>
    BY <2>2 DEF Mail
  <2> QED BY <2>3 DEF NoAsk
<1>4. NoAnswer(<<>>) /\ Named(<<>>)
  BY DEF NoAnswer, Named
<1>5. Here(y, <<>>, sv, later)
  BY <1>3, <1>4 DEF Here, Quietly
<1> QED BY <1>1, <1>2, <1>5 DEF Keeping

\* A connection that is lost takes what was on it away.
LEMMA UnreadUp ==
  ASSUME NEW conns, NEW sv, NEW lg, UpOk(app.up, sv, lg)
  PROVE  /\ UpOk(Unread(conns), sv, lg)
         /\ ItemsIn(app.up) \subseteq ItemsIn(Unread(conns)) \cup ItemsOn(conns \cap Conns)
<1>1. \A c \in Conns : Unread(conns)[c] = IF c \in conns THEN <<>> ELSE app.up[c]
  BY DEF Unread
<1>2. UpOk(Unread(conns), sv, lg)
  BY <1>1 DEF UpOk, OnTheWay
<1>3. ASSUME NEW item \in ItemsIn(app.up)
      PROVE  item \in ItemsIn(Unread(conns)) \cup ItemsOn(conns \cap Conns)
  <2>1. PICK c \in Conns : item \in StartedIn(app.up[c])
    BY <1>3 DEF ItemsIn
  <2>2. CASE c \in conns
    BY <2>1, <2>2 DEF ItemsOn
  <2>3. CASE c \notin conns
    <3>1. Unread(conns)[c] = app.up[c]
      BY <1>1, <2>3
    <3> QED BY <2>1, <3>1 DEF ItemsIn
  <2> QED BY <2>2, <2>3
<1> QED BY <1>2, <1>3

-----------------------------------------------------------------------------
(* The user and the timers *)

LEMMA Presently ==
  ASSUME Inv, KeepInv, ~ log.overlaps
  PROVE  /\ app \in App /\ down \in Seq(Reply) /\ Mail(app, down) /\ Kept(app) /\ Apart(app)
         /\ Keeping(app, down, server, log) /\ SameItems(log, log)
         /\ Store(server, log) /\ Places(app, server) /\ UpOk(app.up, server, log)
         /\ Here(app, down, server, log) /\ Remembered(app, server, log)
         /\ server \in ServerType /\ LogOk(log)
BY DEF Inv, TypeCorrect, Settled, KeepInv, Keeping, SameItems, Store

LEMMA BeginsNow ==
  ASSUME Inv, KeepInv, ~ log.overlaps, NEW y \in App, Becomes(y), server' = server,
         SameItems(log, log'), y.conn = app.conn + 1, y.up = app.up, y.connected = FALSE,
         Places(y, server), y.disk = app.disk \/ y.disk.room = 0
  PROVE  Keeping(app', down', server', log')
<1>1. app.conn \in Nat
  BY Presently DEF App
<1>2. app' = y /\ down' = <<>>
  BY <1>1 DEF Becomes
<1>3. Keeping(y, <<>>, server, log')
  BY Presently, BeginningKeeps
<1> QED BY <1>2, <1>3

LEMMA LeavesNow ==
  ASSUME Inv, KeepInv, ~ log.overlaps, NEW y \in App, Becomes(y), server' = server,
         SameItems(log, log'), ~ HasSocket(y), UpOk(y.up, server, log),
         Places(y, server), y.disk = app.disk \/ y.disk.room = 0,
         ItemsIn(app.up) \subseteq ItemsIn(y.up) \cup log'.lost
  PROVE  Keeping(app', down', server', log')
<1>1. app' = y /\ down' = <<>>
  BY DEF Becomes
<1>2. Keeping(y, <<>>, server, log')
  BY Presently, LeavingKeeps
<1> QED BY <1>1, <1>2

\* The sessions' rooms are among those of before, or none.
LEMMA PlacesKept ==
  ASSUME NEW x, NEW y, NEW sv, Places(x, sv), Discards(y),
         y.session.room \in {0, x.session.room, x.stored.room},
         y.stored.room \in {0, x.stored.room},
         y.discarding.room \in {0, x.discarding.room}
  PROVE  Places(y, sv)
BY DEF Places, Made, Place

LEMMA CreateStep ==
  ASSUME Inv, KeepInv, Create, ~ log.overlaps PROVE Keeping(app', down', server', log')
<1> DEFINE x == IF IsDiscarding(app) THEN FinishDiscard(app) ELSE app
           z == [x EXCEPT !.creating = TRUE]
           y == ConnectTo(z)
<1>1. app \in App /\ ~ HasSession(app) /\ Becomes(y) /\ server' = server
  BY DEF Inv, TypeCorrect, Create
<1>2. SameItems(log, log')
  <2>1. log' = [log EXCEPT !.creates = @ + 1, !.overlaps = @ \/ HasStored(app)]
    BY DEF Create
  <2>2. LogOk(log)
    BY Presently
  <2> DEFINE b == log.overlaps \/ HasStored(app)
  <2>3. log' = [log EXCEPT !.creates = @ + 1, !.overlaps = b] 
    BY <2>1
  <2> HIDE DEF b
  <2>4. LogOk(log') /\ log'.begun = log.begun /\ log'.late = log.late /\ log'.lost = log.lost
    BY <2>2, <2>3 DEF LogOk, LogFields
  <2> QED BY <2>4 DEF SameItems
<1>3. Discards(app) /\ Places(app, server)
  BY Presently DEF Places
<1>4. /\ x \in App /\ SameJam(app, x) /\ x.conn = app.conn /\ x.up = app.up
      /\ x.discarding.room = 0 /\ x.ending = 0
  <2>1. CASE IsDiscarding(app)
    BY <1>1, <2>1, FinishDiscardIs, FinishDiscardRests DEF NoSession
  <2>2. CASE ~ IsDiscarding(app)
    BY <1>1, <1>3, <2>2 DEF SameJam, Discards, IsDiscarding
  <2> QED BY <2>1, <2>2
<1> HIDE DEF x
<1>5. /\ z \in App /\ z.conn = app.conn /\ z.up = app.up /\ z.session = app.session
      /\ z.stored = app.stored /\ z.disk = app.disk /\ Rests(x, z)
  BY <1>4 DEF App, SameJam, Rests
<1> HIDE DEF z
<1>6. /\ y \in App /\ SameJam(z, y) /\ y.conn = z.conn + 1 /\ y.up = z.up
      /\ Rests(z, y) /\ y.connected = FALSE
  BY <1>5, ConnectToIs, ConnectRests
<1> HIDE DEF y
<1>7. /\ y.session = app.session /\ y.stored = app.stored /\ y.disk = app.disk
      /\ y.discarding.room = 0 /\ y.ending = 0
  BY <1>4, <1>5, <1>6 DEF Rests, SameJam
<1>8. Discards(y)
  BY <1>7 DEF Discards, IsDiscarding
<1>9. Places(y, server)
  BY <1>3, <1>7, <1>8, PlacesKept
<1> QED BY <1>1, <1>2, <1>5, <1>6, <1>7, <1>9, BeginsNow

LEMMA CancelCreateStep ==
  ASSUME Inv, KeepInv, CancelCreate, ~ log.overlaps PROVE Keeping(app', down', server', log')
<1> DEFINE z == [app EXCEPT !.creating = FALSE]
           y == DropConnection(z)
<1>1. app \in App /\ Becomes(y) /\ server' = server /\ log' = log
  BY DEF Inv, TypeCorrect, CancelCreate
<1>2. /\ z \in App /\ z.up = app.up /\ z.session = app.session /\ z.stored = app.stored
      /\ z.disk = app.disk /\ z.creating = FALSE /\ Rests(app, z)
  BY <1>1 DEF App, Rests
<1> HIDE DEF z
<1>3. Leaves(z, y) /\ Rests(z, y)
  BY <1>2, DropConnectionLeaves, LeaveRests
<1> HIDE DEF y
<1>4. /\ y \in App /\ ~ HasSocket(y) /\ y.up = app.up /\ y.session = app.session
      /\ y.stored = app.stored /\ y.disk = app.disk /\ y.creating = FALSE
      /\ y.discarding = app.discarding /\ y.ending = app.ending
  BY <1>2, <1>3 DEF Leaves, SameJam, SameMail, Rests, HasSocket
<1>5. Places(app, server) /\ Discards(app) /\ SameItems(log, log') /\ UpOk(y.up, server, log)
  BY <1>1, <1>4, Presently DEF Places
<1>6. Discards(y)
  BY <1>4, <1>5 DEF Discards, IsDiscarding, HasSession, HasStored
<1>7. Places(y, server)
  BY <1>4, <1>5, <1>6, PlacesKept
<1> QED BY <1>1, <1>4, <1>5, <1>7, LeavesNow

LEMMA ContinueStoredStep ==
  ASSUME Inv, KeepInv, ContinueStored, ~ log.overlaps
  PROVE  Keeping(app', down', server', log')
<1> DEFINE x == [app EXCEPT !.session = app.stored, !.stored = NoSession]
           w == WithOutbox(x, x.session.outbox)
           v == StartJam(w)
           y == ConnectTo(v)
<1>1. app \in App /\ HasStored(app) /\ Becomes(y) /\ log' = log /\ server' = server
  BY DEF Inv, TypeCorrect, ContinueStored
<1>2. NoSession \in Session /\ NoSession.room = 0
  BY DEF NoSession, Session
<1>3. x \in App /\ x.session = app.stored /\ x.stored = NoSession /\ x.disk = app.disk
      /\ x.conn = app.conn /\ x.up = app.up /\ Rests(app, x)
  BY <1>1, <1>2 DEF App, Rests
<1> HIDE DEF x
<1>4. app.stored.outbox \in SUBSET Items
      /\ app.stored = [room |-> app.stored.room, outbox |-> app.stored.outbox]
  <2>1. app.stored \in Session
    BY <1>1 DEF App
  <2> QED BY <2>1 DEF Session
<1>5. w \in App /\ SameLine(x, w) /\ w.session = app.stored /\ Rests(x, w)
      /\ (w.disk = x.disk \/ w.disk = app.stored)
  BY <1>3, <1>4, WithOutboxIs, WithOutboxRests
<1> HIDE DEF w
<1>6. v \in App /\ SameLine(w, v) /\ v.session = w.session /\ v.disk = w.disk /\ Rests(w, v)
  BY <1>5, StartJamIs, StartJamRests
<1> HIDE DEF v
<1>7. y \in App /\ SameJam(v, y) /\ y.conn = v.conn + 1 /\ y.up = v.up
      /\ Rests(v, y) /\ y.connected = FALSE
  BY <1>6, ConnectToIs, ConnectRests
<1> HIDE DEF y
<1>8. app.disk = app.stored
  BY <1>1, Presently DEF Kept, Apart
<1>9. /\ y.conn = app.conn + 1 /\ y.up = app.up /\ y.disk = app.disk
      /\ y.session = app.stored /\ y.stored.room = 0 /\ Rests(app, y)
  BY <1>2, <1>3, <1>5, <1>6, <1>7, <1>8 DEF SameLine, SameJam, Rests
<1>10. Places(app, server) /\ Discards(app) /\ SameItems(log, log')
  BY <1>1, Presently DEF Places
<1>11. Discards(y)
  BY <1>1, <1>9, <1>10 DEF Discards, IsDiscarding, Rests
<1>12. Places(y, server)
  BY <1>9, <1>10, <1>11, PlacesKept DEF Rests
<1> QED BY <1>1, <1>7, <1>9, <1>10, <1>12, BeginsNow

LEMMA DiscardStoredStep ==
  ASSUME Inv, KeepInv, DiscardStored, ~ log.overlaps
  PROVE  Keeping(app', down', server', log')
<1> DEFINE x == [app EXCEPT !.discarding = app.stored, !.stored = NoSession, !.disk = NoSession]
           y == ConnectTo(x)
<1>1. app \in App /\ HasStored(app) /\ Becomes(y) /\ log' = log /\ server' = server
  BY DEF Inv, TypeCorrect, DiscardStored
<1>2. NoSession \in Session /\ NoSession.room = 0
  BY DEF NoSession, Session
<1>3. x \in App /\ x.session = app.session /\ x.stored = NoSession /\ x.disk = NoSession
      /\ x.discarding = app.stored /\ x.creating = app.creating /\ x.conn = app.conn
      /\ x.up = app.up
  BY <1>1, <1>2 DEF App
<1> HIDE DEF x
<1>4. y \in App /\ SameJam(x, y) /\ y.conn = x.conn + 1 /\ y.up = x.up
      /\ Rests(x, y) /\ y.connected = FALSE
  BY <1>3, ConnectToIs, ConnectRests
<1> HIDE DEF y
<1>5. ~ HasSession(app) /\ ~ app.creating
  BY <1>1, Presently DEF Apart
<1>6. /\ y.conn = app.conn + 1 /\ y.up = app.up /\ y.disk.room = 0
      /\ y.session = app.session /\ y.stored.room = 0 /\ y.discarding = app.stored
      /\ y.creating = app.creating
  BY <1>2, <1>3, <1>4 DEF SameJam, Rests
<1>7. Places(app, server) /\ SameItems(log, log')
  BY <1>1, Presently
<1>8. Discards(y)
  BY <1>1, <1>5, <1>6 DEF Discards, IsDiscarding, HasSession, HasStored
<1>9. Places(y, server)
  BY <1>6, <1>7, <1>8 DEF Places, Made, Place
<1> QED BY <1>1, <1>4, <1>6, <1>7, <1>9, BeginsNow

\* The End that is written comes after nothing that asks.
LEMMA EndStep ==
  ASSUME Inv, KeepInv, End, ~ log.overlaps PROVE Keeping(app', down', server', log')
<1> DEFINE q == IF app.connected THEN Sent(app, "end", 0, {}) ELSE app
           y == EndLocally(q)
<1>1. app \in App /\ HasSession(app) /\ Becomes(y) /\ log' = log /\ server' = server
  BY DEF Inv, TypeCorrect, End
<1>2. /\ q \in App /\ SameJam(app, q) /\ Rests(app, q)
      /\ UpOk(q.up, server, log) /\ ItemsIn(app.up) \subseteq ItemsIn(q.up)
  <2>1. CASE q = app
    BY <1>1, <2>1, Presently DEF SameJam, Rests
  <2>2. CASE q # app
    <3> DEFINE m == [type |-> "end", room |-> 0, items |-> {}]
    <3>1. m \in Request /\ m.type = "end" /\ m.room = 0 /\ m.items = {}
      BY DEF Request
    <3>2. q = Sent(app, "end", 0, {}) /\ app.connected /\ app.status = "Online"
      BY <2>2 DEF Sent
    <3> HIDE DEF m, q
    <3>3. Carries(app, q, m) /\ Rests(app, q)
      BY <1>1, <3>1, <3>2, SentCarries
    <3>4. Quietly(app, down, server)
      BY <3>2, Presently DEF Here, Asked, Answered, Waiting, HasSocket
    <3>5. UpOk(q.up, server, log)
      BY <1>1, <3>1, <3>3, <3>4, Presently, CarriesUp DEF Quietly, Asks
    <3>6. q \in App /\ SameJam(app, q)
      BY <1>1, <3>2, SentIs
    <3> QED BY <1>1, <3>1, <3>3, <3>5, <3>6, CarriesItems
  <2> QED BY <2>1, <2>2
<1> HIDE DEF q
<1>3. /\ y \in App /\ ~ HasSocket(y) /\ y.up = q.up /\ y.session.room = 0 /\ y.disk.room = 0
      /\ y.stored = q.stored /\ Rests(q, y)
  <2>1. /\ y \in App /\ y.up = q.up /\ y.session = NoSession /\ y.disk = NoSession
        /\ y.stored = q.stored /\ y.status = "Stopped"
    BY <1>2, EndLocallyIs
  <2>2. Rests(q, y)
    BY <1>2, EndLocallyRests
  <2> HIDE DEF y
  <2> QED BY <2>1, <2>2 DEF HasSocket, NoSession
<1> HIDE DEF y
<1>4. y.stored = app.stored /\ y.discarding = app.discarding /\ y.ending = app.ending
  BY <1>2, <1>3 DEF SameJam, Rests
<1>5. Places(app, server) /\ Discards(app) /\ SameItems(log, log')
  BY <1>1, Presently DEF Places
<1>6. Discards(y)
  BY <1>1, <1>4, <1>5 DEF Discards, IsDiscarding
<1>7. Places(y, server)
  BY <1>3, <1>4, <1>5, <1>6, PlacesKept
<1> QED BY <1>1, <1>2, <1>3, <1>5, <1>7, LeavesNow

-----------------------------------------------------------------------------
(* Steps that go on with the connection *)

\* The parts of the app that tell where its question is.
Alike(x, y) ==
  /\ y.conn = x.conn /\ y.request = x.request /\ y.status = x.status
  /\ x.conn \in Conns => y.up[x.conn] = x.up[x.conn]
  /\ y.connected = x.connected /\ y.session.room = x.session.room /\ y.outbox = x.outbox

LEMMA AlikeHere ==
  ASSUME NEW x, NEW y, NEW d, NEW sv, NEW lg, Alike(x, y), Here(x, d, sv, lg)
  PROVE  Here(y, d, sv, lg)
<1>1. (HasSocket(y) <=> HasSocket(x)) /\ (HasSession(y) <=> HasSession(x))
  BY DEF Alike, HasSocket, HasSession
<1>2. Quietly(x, d, sv) => Quietly(y, d, sv)
  BY <1>1 DEF Alike, Quietly, NoAsk
<1>3. Waiting(x) => Waiting(y)
  BY DEF Alike, Waiting
<1>4. Asked(x, d, lg) => Asked(y, d, lg)
  <2>1. \A m : AskOk(x, m, lg) => AskOk(y, m, lg)
    BY <1>1 DEF Alike, AskOk
  <2>2. Waiting(x) => y.up[y.conn] = x.up[x.conn]
    BY DEF Alike, Waiting
  <2> QED BY <1>3, <2>1, <2>2 DEF Asked
<1>5. \A m : AnswerOk(x, m, sv, lg) => AnswerOk(y, m, sv, lg)
  BY <1>1 DEF Alike, AnswerOk
<1>6. NoAsk(x) => NoAsk(y)
  BY DEF Alike, NoAsk
<1>7. Answered(x, d, sv, lg) => Answered(y, d, sv, lg)
  BY <1>3, <1>5, <1>6 DEF Answered
<1> QED BY <1>1, <1>2, <1>4, <1>7 DEF Here

\* And the others
LEMMA AlikeKeeps ==
  ASSUME NEW x, NEW y, NEW d, NEW sv, NEW lg, Alike(x, y), Keeping(x, d, sv, lg),
         y.stored = x.stored, y.discarding = x.discarding, y.creating = x.creating,
         y.ending = x.ending, y.disk = x.disk, y.up = x.up
  PROVE  Keeping(y, d, sv, lg)
<1>1. Here(y, d, sv, lg)
  BY AlikeHere DEF Keeping
<1>2. Places(y, sv)
  BY DEF Keeping, Places, Discards, Alike, HasSession, HasStored, IsDiscarding
<1>3. UpOk(y.up, sv, lg) /\ Remembered(y, sv, lg)
  BY DEF Keeping, Alike, Remembered
<1> QED BY <1>1, <1>2, <1>3 DEF Keeping

LEMMA CarriesQuiet ==
  ASSUME NEW x \in App, NEW m \in Request, NEW y, Carries(x, y, m), y.conn = x.conn,
         m.type \notin Asks, NoAsk(x)
  PROVE  NoAsk(y)
<1> SUFFICES ASSUME x.conn \in Conns, NEW i \in DOMAIN y.up[x.conn]
             PROVE  y.up[x.conn][i].type \notin Asks
  BY DEF NoAsk
<1>1. Longer(x.up[x.conn], y.up[x.conn], m)
  BY CarriesIs
<1>2. i \in DOMAIN x.up[x.conn] \/ i = Len(x.up[x.conn]) + 1
  BY <1>1 DEF Longer
<1>3. CASE i \in DOMAIN x.up[x.conn]
  <2>1. y.up[x.conn][i] = x.up[x.conn][i]
    BY <1>1, <1>3 DEF Longer
  <2> QED BY <1>3, <2>1 DEF NoAsk
<1>4. CASE i = Len(x.up[x.conn]) + 1
  BY <1>1, <1>4 DEF Longer
<1> QED BY <1>2, <1>3, <1>4

LEMMA BreakStep ==
  ASSUME Inv, KeepInv, Break, ~ log.overlaps PROVE Keeping(app', down', server', log')
<1> DEFINE u == Unread({app.conn})
           z == [app EXCEPT !.up = u]
           y == WithStatus(z, "Offline")
           l == log.lost \cup ItemsOn({app.conn})
<1>1. app \in App /\ Becomes(y) /\ server' = server /\ LogOk(log)
      /\ log' = [log EXCEPT !.breaks = @ + 1, !.lost = l]
  BY Presently DEF Break
<1>2. u \in [Conns -> Seq(Request)]
  BY UnreadIs
<1>3. UpOk(u, server, log) /\ ItemsIn(app.up) \subseteq ItemsIn(u) \cup ItemsOn({app.conn})
  <2>1. ItemsOn({app.conn} \cap Conns) \subseteq ItemsOn({app.conn})
    BY DEF ItemsOn
  <2> QED BY <2>1, Presently, UnreadUp
<1> HIDE DEF u
<1>4. z \in App /\ SameJam(app, z) /\ z.up = u /\ Rests(app, z)
  BY <1>1, <1>2 DEF App, SameJam, Rests
<1> HIDE DEF z
<1>5. y \in App /\ SameJam(z, y) /\ y.up = u /\ ~ HasSocket(y) /\ Rests(z, y)
  BY <1>4, WithStatusIs, WithStatusRests DEF Status, SameMail, HasSocket
<1> HIDE DEF y
<1>6. SameJam(app, y) /\ Rests(app, y)
  BY <1>4, <1>5 DEF SameJam, Rests
<1>7. LogOk(log') /\ log'.begun = log.begun /\ log'.late = log.late /\ log'.lost = l
  BY <1>1 DEF LogOk, LogFields
<1>8. SameItems(log, log')
  BY <1>7 DEF SameItems
<1>9. ItemsIn(app.up) \subseteq ItemsIn(y.up) \cup log'.lost
  BY <1>3, <1>5, <1>7
<1>10. Places(y, server)
  <2>1. Places(app, server) /\ Discards(app)
    BY Presently DEF Places
  <2>2. Discards(y)
    BY <1>6, <2>1 DEF Discards, SameJam, Rests, HasSession, HasStored, IsDiscarding
  <2> QED BY <1>6, <2>1, <2>2, PlacesKept DEF SameJam, Rests
<1>11. y.disk = app.disk /\ UpOk(y.up, server, log)
  BY <1>3, <1>5, <1>6 DEF SameJam
<1> QED BY <1>1, <1>5, <1>8, <1>9, <1>10, <1>11, LeavesNow

LEMMA ReconnectStep ==
  ASSUME Inv, KeepInv, Reconnect, ~ log.overlaps PROVE Keeping(app', down', server', log')
<1> DEFINE y == StartClient(app)
<1>1. app \in App /\ Becomes(y) /\ log' = log /\ server' = server
  BY Presently DEF Reconnect
<1>2. /\ y \in App /\ SameJam(app, y) /\ y.conn = app.conn + 1 /\ y.up = app.up
      /\ Rests(app, y) /\ y.connected = FALSE
  BY <1>1, StartClientIs, ConnectRests
<1> HIDE DEF y
<1>3. Places(app, server) /\ Discards(app) /\ SameItems(log, log')
  BY <1>1, Presently DEF Places
<1>4. Discards(y)
  BY <1>2, <1>3 DEF Discards, SameJam, Rests, HasSession, HasStored, IsDiscarding
<1>5. Places(y, server) /\ y.disk = app.disk
  BY <1>2, <1>3, <1>4, PlacesKept DEF SameJam, Rests
<1> QED BY <1>1, <1>2, <1>3, <1>5, BeginsNow

LEMMA TryAgainStep ==
  ASSUME Inv, KeepInv, TryAgain, ~ log.overlaps PROVE Keeping(app', down', server', log')
<1>1. app \in App /\ log' = log /\ server' = server
  BY Presently DEF TryAgain
<1>2. CASE HasSession(app)
  <2> DEFINE y == ConnectTo(app)
  <2>1. Becomes(y)
    BY <1>2 DEF TryAgain
  <2>2. /\ y \in App /\ SameJam(app, y) /\ y.conn = app.conn + 1 /\ y.up = app.up
        /\ Rests(app, y) /\ y.connected = FALSE
    BY <1>1, ConnectToIs, ConnectRests
  <2> HIDE DEF y
  <2>3. Places(app, server) /\ Discards(app) /\ SameItems(log, log')
    BY <1>1, Presently DEF Places
  <2>4. Discards(y)
    BY <2>2, <2>3 DEF Discards, SameJam, Rests, HasSession, HasStored, IsDiscarding
  <2>5. Places(y, server) /\ y.disk = app.disk
    BY <2>2, <2>3, <2>4, PlacesKept DEF SameJam, Rests
  <2> QED BY <1>1, <2>1, <2>2, <2>3, <2>5, BeginsNow
<1>3. CASE ~ HasSession(app)
  <2> DEFINE y == [app EXCEPT !.later = FALSE]
  <2>1. Becomes(y)
    BY <1>3 DEF TryAgain
  <2>2. /\ Alike(app, y) /\ y.stored = app.stored /\ y.discarding = app.discarding
        /\ y.creating = app.creating /\ y.ending = app.ending /\ y.disk = app.disk
        /\ y.up = app.up
    BY <1>1 DEF App, Alike
  <2> HIDE DEF y
  <2>3. app' = y /\ down' = down
    BY <2>1, <2>2, Presently DEF Becomes, Mail, Alike, HasSocket
  <2>4. Keeping(y, down, server, log)
    BY <2>2, Presently, AlikeKeeps
  <2> QED BY <1>1, <2>3, <2>4
<1> QED BY <1>2, <1>3

\* The next run keeps what the disk has.
LEMMA RestartStep ==
  ASSUME Inv, KeepInv, Restart, ~ log.overlaps PROVE Keeping(app', down', server', log')
<1>1. app \in App /\ LogOk(log) /\ down' = <<>> /\ server' = server
  BY Presently DEF Restart
<1>2. PICK lost \in {{}, Conns} :
        /\ app' = NewRun(app.disk, app.conn, Unread(lost))
        /\ log' = [log EXCEPT !.runs = @ + 1, !.lost = @ \cup ItemsOn(lost)]
  BY DEF Restart
<1> DEFINE u == Unread(lost)
           y == NewRun(app.disk, app.conn, u)
           l == log.lost \cup ItemsOn(lost)
<1>3. UpOk(u, server, log) /\ ItemsIn(app.up) \subseteq ItemsIn(u) \cup ItemsOn(lost)
  <2>1. lost \cap Conns = lost
    OBVIOUS
  <2> QED BY <2>1, Presently, UnreadUp
<1>4. LogOk(log') /\ log'.begun = log.begun /\ log'.late = log.late /\ log'.lost = l
  <2>1. log' = [log EXCEPT !.runs = @ + 1, !.lost = l]
    BY <1>2
  <2> HIDE DEF l
  <2> QED BY <1>1, <2>1 DEF LogOk, LogFields
<1>5. SameItems(log, log')
  BY <1>4 DEF SameItems
<1>6. app' = y
  BY <1>2
<1> HIDE DEF u
<1>7. y.session.room = 0 /\ y.stored = app.disk /\ y.disk = app.disk /\ y.ending = 0
      /\ y.discarding.room = 0 /\ y.up = u /\ y.status = "Idle"
  BY DEF NewRun, NoSession
<1> HIDE DEF y
<1>8. Places(y, server)
  <2>1. Places(app, server)
    BY Presently
  <2>2. app.disk.room \in {app.session.room, app.stored.room}
    BY Presently DEF Kept
  <2>3. Discards(y)
    BY <1>7 DEF Discards, IsDiscarding
  <2> QED BY <1>7, <2>1, <2>2, <2>3 DEF Places, Made, Place
<1>9. ItemsIn(app.up) \subseteq ItemsIn(y.up) \cup log'.lost
  BY <1>3, <1>4, <1>7
<1>10. ~ HasSocket(y) /\ UpOk(y.up, server, log)
  BY <1>3, <1>7 DEF HasSocket
<1>11. Keeping(y, <<>>, server, log')
  BY <1>5, <1>7, <1>8, <1>9, <1>10, Presently, LeavingKeeps
<1> QED BY <1>1, <1>6, <1>11

-----------------------------------------------------------------------------
(* An item begins *)

\* It is new, and of the room that is had.
Begins(lg, later, room, item) ==
  /\ LogOk(later) /\ room \in Rooms /\ \A r \in Rooms : item \notin lg.begun[r]
  /\ later.begun = [lg.begun EXCEPT ![room] = @ \cup {item}]
  /\ lg.late \subseteq later.late /\ later.lost = lg.lost

LEMMA BeginsStore ==
  ASSUME NEW sv, NEW lg, NEW later, NEW room, NEW item, Begins(lg, later, room, item),
         Store(sv, lg), sv.rooms[room] # "none"
  PROVE  Store(sv, later) /\ \A up : UpOk(up, sv, lg) => UpOk(up, sv, later)
<1>1. lg.begun \in [Rooms -> SUBSET Items]
  BY DEF Store, LogOk
<1>2. \A r \in Rooms : later.begun[r] = IF r = room THEN lg.begun[r] \cup {item} ELSE lg.begun[r]
  BY <1>1 DEF Begins
<1>3. Store(sv, later)
  <2>1. \A r \in Rooms : sv.rooms[r] = "none" => later.begun[r] = {}
    BY <1>2 DEF Store
  <2>2. \A r \in Rooms : \A s \in Rooms : r # s => later.begun[r] \cap later.begun[s] = {}
    BY <1>2 DEF Store, Begins
  <2> QED BY <2>1, <2>2 DEF Store, Begins
<1>4. \A up : UpOk(up, sv, lg) => UpOk(up, sv, later)
  <2>1. \A r \in Rooms : lg.begun[r] \subseteq later.begun[r]
    BY <1>2
  <2> QED BY <2>1 DEF UpOk, OnTheWay
<1> QED BY <1>3, <1>4

\* One that is put in the outbox while the answer is out is late.
LEMMA BeginsHere ==
  ASSUME NEW x, NEW y, NEW d, NEW sv, NEW lg, NEW later, NEW room, NEW item,
         Begins(lg, later, room, item), HasSession(x), Here(x, d, sv, lg),
         y.conn = x.conn, y.up = x.up, y.request = x.request, y.status = x.status,
         y.connected = x.connected, y.session.room = x.session.room,
         y.outbox \subseteq x.outbox \cup {item}, Waiting(x) => item \in later.late
  PROVE  Here(y, d, sv, later)
<1>1. (HasSocket(y) <=> HasSocket(x)) /\ HasSession(y)
  BY DEF HasSocket, HasSession
<1>2. Quietly(x, d, sv) => Quietly(y, d, sv)
  BY <1>1 DEF Quietly, NoAsk
<1>3. (Waiting(x) => Waiting(y)) /\ (NoAsk(x) => NoAsk(y))
  BY DEF Waiting, NoAsk
<1>4. Waiting(x) => \A s : x.outbox \subseteq s \cup lg.late => y.outbox \subseteq s \cup later.late
  BY DEF Begins
<1>5. Asked(x, d, lg) => Asked(y, d, later)
  <2>1. \A m : Waiting(x) /\ AskOk(x, m, lg) => AskOk(y, m, later)
    BY <1>1, <1>4 DEF AskOk
  <2> QED BY <1>3, <2>1 DEF Asked
<1>6. Answered(x, d, sv, lg) => Answered(y, d, sv, later)
  <2>1. \A m : Waiting(x) /\ AnswerOk(x, m, sv, lg) => AnswerOk(y, m, sv, later)
    BY <1>1, <1>4 DEF AnswerOk
  <2> QED BY <1>3, <2>1 DEF Answered
<1> QED BY <1>1, <1>2, <1>5, <1>6 DEF Here

LEMMA ItemStartedStep ==
  ASSUME Inv, KeepInv, ItemStarted, ~ log.overlaps PROVE Keeping(app', down', server', log')
<1>1. /\ app \in App /\ down \in Seq(Reply) /\ Mail(app, down) /\ Kept(app) /\ Apart(app)
      /\ Store(server, log) /\ Places(app, server) /\ UpOk(app.up, server, log)
      /\ Here(app, down, server, log) /\ Remembered(app, server, log) /\ LogOk(log)
  BY Presently
<1>2. PICK item \in Items \ Begun :
        /\ Becomes(StartedItem(app, item))
        /\ log' = [log EXCEPT !.begun[app.session.room] = @ \cup {item},
                              !.late = IF app.request # 0 /\ app.status = "Online"
                                         THEN @ \cup {item} ELSE @]
  BY DEF ItemStarted
<1> DEFINE b == [log.begun EXCEPT ![app.session.room] = @ \cup {item}]
           l == IF app.request # 0 /\ app.status = "Online" THEN log.late \cup {item} ELSE log.late
           y == StartedItem(app, item)
           items == app.outbox \cup {item}
<1>3. log' = [log EXCEPT !.begun = b, !.late = l]
  BY <1>2
<1>4. app.session.room \in Rooms /\ server.rooms[app.session.room] # "none" /\ HasSession(app)
  BY <1>1 DEF ItemStarted, Places, Made, HasSession
<1>5. b \in [Rooms -> SUBSET Items]
  BY <1>1, <1>4 DEF LogOk
<1> HIDE DEF b, l
<1>6. /\ LogOk(log') /\ log'.begun = b /\ log'.late = l /\ log'.lost = log.lost
  BY <1>1, <1>3, <1>5 DEF LogOk, LogFields
<1>7. Begins(log, log', app.session.room, item)
  <2>1. log.late \subseteq l
    BY DEF l
  <2>2. \A r \in Rooms : item \notin log.begun[r]
    BY <1>2 DEF Begun
  <2> QED BY <1>4, <1>6, <2>1, <2>2 DEF Begins, b
<1>8. Store(server, log') /\ UpOk(app.up, server, log')
  BY <1>1, <1>4, <1>7, BeginsStore
<1>9. Waiting(app) => item \in log'.late
  <2>1. Waiting(app) => app.request # 0 /\ app.status = "Online"
    BY <1>1 DEF Waiting, Mail, HasSocket
  <2> QED BY <1>6, <2>1 DEF l
<1>10. log'.begun[app.session.room] = log.begun[app.session.room] \cup {item}
  BY <1>1, <1>4, <1>6 DEF b, LogOk
<1>11. app.disk = [room |-> app.session.room, outbox |-> app.outbox]
  BY <1>1, <1>4 DEF Kept
<1>12. server' = server /\ Becomes(y) /\ items \in SUBSET Items
  BY <1>1, <1>2 DEF ItemStarted, App
<1>13. CASE app.connected /\ app.status = "Online"
  <2> DEFINE m == [type |-> "started", room |-> 0, items |-> {item}]
  <2>1. m \in Request /\ m.type = "started" /\ m.room = 0 /\ m.items = {item}
    BY DEF Request
  <2>2. y = Sent(app, m.type, m.room, m.items)
    BY <1>13, <2>1 DEF StartedItem
  <2> HIDE DEF m, y
  <2>3. Carries(app, y, m) /\ Rests(app, y) /\ y.connected = app.connected
    BY <1>1, <1>13, <2>1, <2>2, SentCarries
  <2>4. /\ y \in App /\ SameJam(app, y) /\ y.status = app.status /\ y.conn = app.conn
        /\ y.request = app.request
    BY <1>1, <2>1, <2>2, SentIs DEF Request
  <2>5. Quietly(app, down, server) /\ Named(down) /\ HasSocket(app)
    BY <1>1, <1>13 DEF Here, Asked, Answered, Waiting, HasSocket
  <2>6. app.conn \in Conns /\ server.room[app.conn] = app.session.room /\ NoAsk(app)
    BY <1>4, <1>13, <2>5 DEF Quietly
  <2>7. app' = y /\ down' = down
    BY <1>12, <2>4, <2>5 DEF Becomes, HasSocket
  <2>8. UpOk(y.up, server, log')
    BY <1>1, <1>4, <1>8, <1>10, <2>1, <2>3, <2>6, CarriesUp DEF Asks
  <2>9. Here(y, down, server, log')
    <3>1. NoAsk(y)
      BY <1>1, <2>1, <2>3, <2>4, <2>6, CarriesQuiet DEF Asks
    <3>2. Quietly(y, down, server)
      BY <2>4, <2>5, <2>6, <3>1 DEF Quietly, SameJam
    <3> QED BY <2>5, <3>2 DEF Here
  <2>10. Remembered(y, server, log')
    <3>1. ItemsIn(app.up) \subseteq ItemsIn(y.up) /\ item \in ItemsIn(y.up)
      BY <1>1, <2>1, <2>3, <2>6, CarriesItems
    <3> QED BY <1>1, <1>6, <1>7, <1>10, <1>11, <2>4, <3>1 DEF Remembered, SameJam, Begins
  <2>11. Places(y, server)
    <3>1. Discards(y)
      BY <1>1, <2>3, <2>4 DEF Places, Discards, SameJam, Rests, HasSession, HasStored, IsDiscarding
    <3> QED BY <1>1, <2>3, <2>4, <3>1, PlacesKept DEF SameJam, Rests
  <2> QED BY <1>8, <1>12, <2>7, <2>8, <2>9, <2>10, <2>11 DEF Keeping
<1>14. CASE ~ (app.connected /\ app.status = "Online")
  <2>1. y = WithOutbox(app, items)
    BY <1>14 DEF StartedItem
  <2> HIDE DEF y, items
  <2>2. /\ y \in App /\ SameLine(app, y) /\ y.outbox = items /\ Rests(app, y)
        /\ y.connected = app.connected
    BY <1>1, <1>12, <2>1, WithOutboxIs, WithOutboxRests
  <2>3. y.session.room = app.session.room
    <3>1. \/ y.session = app.session
          \/ y.session = [room |-> app.session.room, outbox |-> items]
      BY <1>1, <1>12, <2>1, WithOutboxIs
    <3> QED BY <3>1
  <2>4. y.disk = [room |-> app.session.room, outbox |-> items]
    <3>1. Kept(y)
      BY <1>1, <1>4, <1>12, <2>1, WithOutboxKeeps
    <3> QED BY <1>4, <2>2, <2>3, <3>1 DEF Kept, HasSession
  <2>5. app' = y /\ down' = down
    BY <1>1, <1>12, <2>2 DEF Becomes, HasSocket, SameLine, Mail
  <2>6. Here(y, down, server, log')
    <3>1. y.outbox \subseteq app.outbox \cup {item}
      BY <2>2 DEF items
    <3> QED BY <1>1, <1>4, <1>7, <1>9, <2>2, <2>3, <3>1, BeginsHere DEF SameLine
  <2>7. Remembered(y, server, log')
    <3>1. item \in items /\ app.outbox \subseteq items
      BY DEF items
    <3>2. y.up = app.up
      BY <2>2 DEF SameLine
    <3>3. y.disk.room = app.disk.room /\ y.disk.outbox = items /\ app.disk.outbox = app.outbox
          /\ app.disk.room = app.session.room
      BY <1>11, <2>4
    <3> QED BY <1>1, <1>6, <1>7, <1>10, <3>1, <3>2, <3>3 DEF Remembered, Begins
  <2>8. Places(y, server)
    <3>1. Discards(y)
      BY <1>1, <2>2, <2>3 DEF Places, Discards, SameLine, Rests, HasSession, HasStored, IsDiscarding
    <3> QED BY <1>1, <2>2, <2>3, <3>1, PlacesKept DEF SameLine
  <2>9. UpOk(y.up, server, log')
    BY <1>8, <2>2 DEF SameLine
  <2> QED BY <1>8, <1>12, <2>5, <2>6, <2>7, <2>8, <2>9 DEF Keeping
<1> QED BY <1>13, <1>14

-----------------------------------------------------------------------------
(* A message is read *)

\* An answer that is read is the one that was awaited, and then none is.
LEMMA TailHere ==
  ASSUME NEW x, NEW d \in Seq(Reply), d # <<>>, HasSocket(x), NEW sv, NEW lg, Here(x, d, sv, lg)
  PROVE  /\ Here(x, Tail(d), sv, lg) /\ Named(Tail(d))
         /\ Head(d).type \in Answers =>
              Waiting(x) /\ NoAsk(x) /\ NoAnswer(Tail(d)) /\ AnswerOk(x, Head(d), sv, lg)
<1>1. /\ Head(d) = d[1] /\ 1 \in DOMAIN d
      /\ \A i \in DOMAIN Tail(d) : i + 1 \in DOMAIN d /\ Tail(d)[i] = d[i + 1] /\ i + 1 # 1
      /\ \A j \in DOMAIN d : j # 1 => j - 1 \in DOMAIN Tail(d) /\ (j - 1) + 1 = j
      /\ Tail(d) \in Seq(Reply)
  BY HeadTailProperties
<1>2. Named(Tail(d))
  BY <1>1 DEF Here, Named
<1>3. NoAnswer(d) => NoAnswer(Tail(d))
  BY <1>1 DEF NoAnswer
<1>4. CASE Quietly(x, d, sv)
  <2>1. Head(d).type \notin Answers /\ Quietly(x, Tail(d), sv)
    BY <1>1, <1>3, <1>4 DEF Quietly, NoAnswer
  <2> QED BY <1>2, <2>1 DEF Here
<1>5. CASE Asked(x, d, lg)
  <2>1. Head(d).type \notin Answers /\ Asked(x, Tail(d), lg)
    BY <1>1, <1>3, <1>5 DEF Asked, NoAnswer
  <2> QED BY <1>2, <2>1 DEF Here
<1>6. CASE Answered(x, d, sv, lg)
  <2>1. Waiting(x) /\ NoAsk(x)
    BY <1>6 DEF Answered
  <2>2. PICK n \in DOMAIN d : /\ AnswerOk(x, d[n], sv, lg)
                              /\ \A j \in DOMAIN d : j # n => d[j].type \notin Answers
    BY <1>6 DEF Answered
  <2>3. CASE n = 1
    <3>1. NoAnswer(Tail(d)) /\ AnswerOk(x, Head(d), sv, lg)
      BY <1>1, <2>2, <2>3 DEF NoAnswer
    <3>2. Quietly(x, Tail(d), sv)
      BY <2>1, <3>1 DEF Quietly, Waiting
    <3> QED BY <1>2, <2>1, <3>1, <3>2 DEF Here
  <2>4. CASE n # 1
    <3>1. Head(d).type \notin Answers
      BY <1>1, <2>2, <2>4
    <3> DEFINE k == n - 1
    <3>2. k \in DOMAIN Tail(d) /\ Tail(d)[k] = d[n]
      BY <1>1, <2>4
    <3>3. \A j \in DOMAIN Tail(d) : j # k => Tail(d)[j].type \notin Answers
      <4>1. \A j \in DOMAIN Tail(d) : j \in Int
        BY <1>1
      <4>2. n \in Int
        BY <1>1
      <4> QED BY <1>1, <2>2, <4>1, <4>2
    <3>4. Answered(x, Tail(d), sv, lg)
      BY <2>1, <2>2, <3>2, <3>3 DEF Answered
    <3> QED BY <1>2, <3>1, <3>4 DEF Here
  <2> QED BY <2>3, <2>4
<1> QED BY <1>4, <1>5, <1>6 DEF Here

\* What is left of a message that ends the connection
Quits(x, y) ==
  /\ y \in App /\ ~ HasSocket(y) /\ y.up = x.up
  /\ y.disk = x.disk \/ y.disk.room = 0
  /\ y.session.room \in {0, x.session.room} /\ y.stored.room \in {0, x.stored.room}
  /\ y.discarding.room \in {0, x.discarding.room}
  /\ Discards(y)

LEMMA QuitsKeeps ==
  ASSUME NEW x, NEW y, NEW d, NEW sv, NEW lg, Keeping(x, d, sv, lg), Quits(x, y)
  PROVE  Keeping(y, <<>>, sv, lg)
<1>1. Places(y, sv)
  BY PlacesKept DEF Keeping, Quits
<1>2. SameItems(lg, lg) /\ UpOk(y.up, sv, lg)
  BY DEF SameItems, Keeping, Store, Quits
<1> QED BY <1>1, <1>2, LeavingKeeps DEF Quits

\* Dropping the connection, at any moment
LEMMA LeavesQuits ==
  ASSUME NEW x, NEW z \in App, NEW y, Leaves(z, y), Rests(z, y), Discards(x),
         z.up = x.up, z.disk = x.disk, z.session = x.session, z.stored = x.stored,
         Rests(x, z), z.creating => x.creating
  PROVE  Quits(x, y)
<1>1. /\ y \in App /\ ~ HasSocket(y) /\ y.up = x.up /\ y.disk = x.disk
      /\ y.session = x.session /\ y.stored = x.stored /\ y.creating = z.creating
      /\ y.discarding = x.discarding /\ y.ending = x.ending
  BY DEF Leaves, SameJam, SameMail, Rests, HasSocket
<1>2. Discards(y)
  BY <1>1 DEF Discards, HasSession, HasStored, IsDiscarding
<1> QED BY <1>1, <1>2 DEF Quits

\* A discard is finished without a session, and nothing keeps the connection then.
LEMMA FinishDiscardQuits ==
  ASSUME NEW x \in App, IsDiscarding(x), Discards(x)
  PROVE  Quits(x, FinishDiscard(x))
<1> DEFINE y == FinishDiscard(x)
<1>1. ~ HasSession(x) /\ ~ x.creating
  BY DEF Discards
<1>2. y \in App /\ SameJam(x, y) /\ y.up = x.up
  BY FinishDiscardIs
<1>3. y.discarding = NoSession /\ y.ending = 0 /\ y.status = "Stopped"
  BY <1>1, FinishDiscardRests
<1> HIDE DEF y
<1>4. Discards(y) /\ ~ HasSocket(y)
  BY <1>3 DEF Discards, IsDiscarding, NoSession, HasSocket
<1> QED BY <1>2, <1>3, <1>4 DEF Quits, SameJam, NoSession, y

LEMMA EndLocallyQuits ==
  ASSUME NEW x, NEW z \in App, Discards(x), HasSession(x), z.up = x.up,
         z.stored = x.stored, Rests(x, z)
  PROVE  Quits(x, EndLocally(z))
<1> DEFINE y == EndLocally(z)
<1>1. /\ y \in App /\ y.session = NoSession /\ y.disk = NoSession /\ y.stored = z.stored
      /\ y.up = z.up /\ y.status = "Stopped"
  BY EndLocallyIs
<1>2. Rests(z, y)
  BY EndLocallyRests
<1> HIDE DEF y
<1>3. ~ IsDiscarding(x) /\ x.ending = 0
  BY DEF Discards
<1>4. y.discarding = x.discarding /\ y.ending = 0 /\ ~ IsDiscarding(y)
  BY <1>2, <1>3 DEF Rests, IsDiscarding
<1>5. Discards(y) /\ ~ HasSocket(y)
  BY <1>1, <1>4 DEF Discards, HasSocket
<1> QED BY <1>1, <1>4, <1>5 DEF Quits, NoSession, y

LEMMA RejectedQuits ==
  ASSUME NEW x \in App, Discards(x), NEW id, id # 0, NEW gone \in BOOLEAN
  PROVE  Rejected(x, id, gone) = x \/ Quits(x, Rejected(x, id, gone))
<1> DEFINE q == [x EXCEPT !.request = 0]
           n == [q EXCEPT !.creating = FALSE]
           y == Rejected(x, id, gone)
<1>1. /\ q \in App /\ q.up = x.up /\ q.disk = x.disk /\ q.session = x.session
      /\ q.stored = x.stored /\ q.creating = x.creating /\ Rests(x, q)
  BY DEF App, Rests
<1>2. /\ n \in App /\ n.up = x.up /\ n.disk = x.disk /\ n.session = x.session
      /\ n.stored = x.stored /\ n.creating = FALSE /\ Rests(x, n)
  BY DEF App, Rests
<1>3. \/ y = FinishDiscard(x) /\ (id = x.ending \/ IsDiscarding(x))
      \/ y = DropConnection(n)
      \/ HasSession(x) /\ y \in {EndLocally(q), RetryLater(q)}
      \/ y = x
  BY DEF Rejected
<1> HIDE DEF q, n, y
<1>4. CASE y = FinishDiscard(x) /\ (id = x.ending \/ IsDiscarding(x))
  <2>1. IsDiscarding(x)
    BY <1>4 DEF Discards
  <2> QED BY <1>4, <2>1, FinishDiscardQuits DEF y
<1>5. CASE y = DropConnection(n)
  <2>1. Leaves(n, y) /\ Rests(n, y)
    BY <1>2, <1>5, DropConnectionLeaves, LeaveRests
  <2> QED BY <1>2, <2>1, LeavesQuits DEF y
<1>6. CASE HasSession(x) /\ y = EndLocally(q)
  BY <1>1, <1>6, EndLocallyQuits DEF y
<1>7. CASE y = RetryLater(q)
  <2>1. Leaves(q, y) /\ Rests(q, y)
    BY <1>1, <1>7, RetryLaterLeaves, LeaveRests
  <2> QED BY <1>1, <2>1, LeavesQuits DEF y
<1>8. CASE y = x
  BY <1>8 DEF y
<1> QED BY <1>3, <1>4, <1>5, <1>6, <1>7, <1>8

LEMMA ServerEndedQuits ==
  ASSUME NEW x \in App, Discards(x) PROVE Quits(x, ServerEnded(x))
<1> DEFINE v == IF IsDiscarding(x) THEN FinishDiscard(x)
                ELSE IF HasSession(x) THEN EndLocally(x) ELSE x
           y == ServerEnded(x)
<1>1. y = StopClient(v)
  BY DEF ServerEnded
<1>2. v = x \/ Quits(x, v)
  <2>1. Rests(x, x)
    BY DEF Rests
  <2> QED BY <2>1, FinishDiscardQuits, EndLocallyQuits
<1>3. v \in App
  BY <1>2 DEF Quits
<1> HIDE DEF v, y
<1>4. Leaves(v, y) /\ Rests(v, y)
  BY <1>1, <1>3, StopClientLeaves, LeaveRests
<1>5. CASE v = x
  <2>1. Rests(x, x)
    BY DEF Rests
  <2> QED BY <1>4, <1>5, <2>1, LeavesQuits DEF y
<1>6. CASE Quits(x, v)
  <2>1. /\ y \in App /\ ~ HasSocket(y) /\ y.up = v.up /\ y.disk = v.disk
        /\ y.session = v.session /\ y.stored = v.stored /\ y.creating = v.creating
        /\ y.discarding = v.discarding /\ y.ending = v.ending
    BY <1>4 DEF Leaves, SameJam, SameMail, Rests, HasSocket
  <2>2. Discards(y)
    BY <1>6, <2>1 DEF Quits, Discards, HasSession, HasStored, IsDiscarding
  <2> QED BY <1>6, <2>1, <2>2 DEF Quits, y
<1> QED BY <1>2, <1>5, <1>6

\* The room is asked for on a connection that has nothing on it, with the outbox.
LEMMA WelcomedGoesOn ==
  ASSUME NEW x \in App, NEW d \in Seq(Reply), Mail(x, d), HasSocket(x), d # <<>>,
         Head(d).type = "welcome", NEW sv, NEW lg, Keeping(x, d, sv, lg), Apart(x)
  PROVE  Keeping(Welcomed(x), Tail(d), sv, lg)
<1> DEFINE w == WithStatus(x, "Online")
           z == [w EXCEPT !.connected = FALSE]
           a == [z EXCEPT !.request = x.conn]
           y == Welcomed(x)
<1>1. w \in App /\ w.status = "Online" /\ SameJam(x, w) /\ SameMail(x, w) /\ Rests(x, w)
  BY WithStatusIs, WithStatusRests DEF Status
<1>2. y = IF HasSession(x) \/ IsDiscarding(x) \/ x.creating THEN AskRoom(x, a) ELSE z
  BY DEF Welcomed
<1> HIDE DEF w
<1>3. /\ z \in App /\ z.status = "Online" /\ SameJam(x, z) /\ SameMail(x, z) /\ Rests(x, z)
      /\ z.connected = FALSE
  BY <1>1 DEF App, SameJam, SameMail, Rests
<1> HIDE DEF z
<1>4. /\ a \in App /\ a.status = "Online" /\ SameJam(x, a) /\ Rests(x, a) /\ a.conn = x.conn
      /\ a.up = x.up /\ a.request = x.conn /\ a.connected = FALSE
  <2>1. x.conn \in Nat
    BY DEF App
  <2> QED BY <1>3, <2>1 DEF App, SameJam, SameMail, Rests
<1> HIDE DEF a, y
<1>5. /\ Here(x, d, sv, lg) /\ Store(sv, lg) /\ Places(x, sv) /\ UpOk(x.up, sv, lg)
      /\ Remembered(x, sv, lg)
  BY DEF Keeping
<1>6. d[1].type = "welcome" /\ 1 \in DOMAIN d
  OBVIOUS
<1>7. x.status = "Connecting" /\ (x.conn \in Conns => x.up[x.conn] = <<>>)
  BY <1>6 DEF Mail
<1>8. NoAnswer(Tail(d)) /\ Named(Tail(d)) /\ NoAsk(x)
  <2>1. Quietly(x, d, sv)
    BY <1>5, <1>7 DEF Here, Asked, Answered, Waiting
  <2>2. \A i \in DOMAIN Tail(d) : i + 1 \in DOMAIN d /\ Tail(d)[i] = d[i + 1]
    BY HeadTailProperties
  <2> QED BY <1>5, <2>1, <2>2, TailHere DEF Quietly, NoAnswer
<1>9. ASSUME SameJam(x, y), Rests(x, y), UpOk(y.up, sv, lg),
             ItemsIn(x.up) \subseteq ItemsIn(y.up),
             Quietly(y, Tail(d), sv) \/ Asked(y, Tail(d), lg)
      PROVE  Keeping(y, Tail(d), sv, lg)
  <2>1. Discards(y)
    BY <1>5, <1>9 DEF Places, Discards, SameJam, Rests, HasSession, HasStored, IsDiscarding
  <2>2. Places(y, sv)
    BY <1>5, <1>9, <2>1, PlacesKept DEF SameJam, Rests
  <2>3. Remembered(y, sv, lg)
    BY <1>5, <1>9 DEF SameJam, Remembered
  <2> QED BY <1>5, <1>8, <1>9, <2>2, <2>3 DEF Keeping, Here
<1>10. CASE y = z
  <2>1. NoAsk(y) /\ y.connected = FALSE
    BY <1>3, <1>8, <1>10 DEF NoAsk, SameMail
  <2>2. Quietly(y, Tail(d), sv)
    BY <1>8, <2>1 DEF Quietly
  <2> QED BY <1>3, <1>5, <1>9, <1>10, <2>2 DEF SameMail, y
<1>11. CASE y = AskRoom(x, a)
  <2>1. /\ x.session \in Session /\ x.discarding \in Session /\ x.outbox \in SUBSET Items
        /\ x.session.room \in Nat /\ x.discarding.room \in Nat
        /\ x.discarding.outbox \in SUBSET Items
    BY DEF App, Session
  <2>2. x.session.room \in Place /\ x.discarding.room \in Place /\ 0 \in Place
    BY <1>5 DEF Places, Made, Place
  <2>3. PICK m \in Request :
          /\ y = Sent(a, m.type, m.room, m.items) /\ m.type \in Asks /\ m.room \in Place
          /\ AskOk(x, m, lg)
    <3>1. CASE HasSession(x)
      <4> DEFINE m == [type |-> "resume", room |-> x.session.room, items |-> x.outbox]
      <4>1. y = Sent(a, "resume", x.session.room, x.outbox)
        BY <1>11, <3>1 DEF AskRoom
      <4>2. m \in Request /\ y = Sent(a, m.type, m.room, m.items) /\ m.type = "resume"
            /\ m.room = x.session.room /\ m.items = x.outbox
        BY <2>1, <4>1 DEF Request
      <4> HIDE DEF m
      <4> QED BY <2>2, <4>2 DEF AskOk, Asks
    <3>2. CASE ~ HasSession(x) /\ IsDiscarding(x)
      <4> DEFINE m == [type |-> "resume", room |-> x.discarding.room,
                       items |-> x.discarding.outbox]
      <4>1. y = Sent(a, "resume", x.discarding.room, x.discarding.outbox)
        BY <1>11, <3>2 DEF AskRoom
      <4>2. m \in Request /\ y = Sent(a, m.type, m.room, m.items) /\ m.type = "resume"
            /\ m.room = x.discarding.room
        BY <2>1, <4>1 DEF Request
      <4> HIDE DEF m
      <4> QED BY <2>2, <3>2, <4>2 DEF AskOk, Asks
    <3>3. CASE ~ HasSession(x) /\ ~ IsDiscarding(x)
      <4> DEFINE m == [type |-> "create", room |-> 0, items |-> {}]
      <4>1. y = Sent(a, "create", 0, {})
        BY <1>11, <3>3 DEF AskRoom
      <4>2. m \in Request /\ y = Sent(a, m.type, m.room, m.items) /\ m.type = "create"
            /\ m.room = 0
        BY <4>1 DEF Request
      <4> HIDE DEF m
      <4> QED BY <2>2, <3>3, <4>2 DEF AskOk, Asks
    <3> QED BY <3>1, <3>2, <3>3
  <2>4. Carries(a, y, m) /\ Rests(a, y) /\ y.connected = FALSE
    BY <1>4, <2>3, SentCarries
  <2>5. SameJam(a, y) /\ y.status = "Online" /\ y.conn = x.conn /\ y.request = x.conn
    BY <1>4, <2>3, SentIs DEF Request
  <2>6. SameJam(x, y) /\ Rests(x, y)
    BY <1>4, <2>4, <2>5 DEF SameJam, Rests
  <2>7. UpOk(y.up, sv, lg)
    <3>1. NoAsk(a) /\ m.type # "started"
      BY <1>4, <1>8, <2>3 DEF NoAsk, Asks
    <3> QED BY <1>4, <1>5, <1>7, <2>3, <2>4, <3>1, CarriesUp
  <2>8. ItemsIn(x.up) \subseteq ItemsIn(y.up)
    BY <1>4, <2>4, CarriesItems
  <2>9. CASE x.conn \notin Conns
    <3>1. Quietly(y, Tail(d), sv)
      BY <1>8, <2>4, <2>5, <2>9 DEF Quietly, NoAsk
    <3> QED BY <1>9, <2>6, <2>7, <2>8, <3>1 DEF y
  <2>10. CASE x.conn \in Conns
    <3>1. y.up[y.conn] = Append(<<>>, m)
      <4>1. y.up[a.conn] = Append(a.up[a.conn], m)
        <5>1. a \in App /\ Carries(a, y, m) /\ a.conn \in Conns
          BY <1>4, <2>4, <2>10
        <5>2. Longer(a.up[a.conn], y.up[a.conn], m)
          BY <5>1, CarriesIs
        <5> QED BY <5>2 DEF Longer
      <4>2. a.up[a.conn] = <<>> /\ y.conn = a.conn
        BY <1>4, <1>7, <2>5, <2>10
      <4> QED BY <4>1, <4>2
    <3>2. Len(y.up[y.conn]) = 1 /\ y.up[y.conn][1] = m
      BY <3>1
    <3>3. AskOk(y, m, lg)
      BY <2>3, <2>6 DEF AskOk, SameJam, HasSession
    <3>4. Waiting(y)
      BY <2>4, <2>5, <2>10 DEF Waiting
    <3>5. Asked(y, Tail(d), lg)
      BY <1>8, <3>2, <3>3, <3>4 DEF Asked
    <3> QED BY <1>9, <2>6, <2>7, <2>8, <3>5 DEF y
  <2> QED BY <2>9, <2>10
<1> QED BY <1>2, <1>10, <1>11

\* The room that is created has no items yet.
LEMMA CreatedGoesOn ==
  ASSUME NEW x \in App, NEW d \in Seq(Reply), Mail(x, d), HasSocket(x), d # <<>>,
         Head(d).type = "created", Head(d).id = x.request,
         NEW sv, NEW lg, Keeping(x, d, sv, lg), Apart(x)
  PROVE  Keeping(Created(x, Head(d).room), Tail(d), sv, lg)
<1> DEFINE room == Head(d).room
           z == [x EXCEPT !.creating = FALSE, !.request = 0, !.connected = TRUE]
           s == [room |-> room, outbox |-> {}]
           v == Save(z, s)
           y == Created(x, room)
<1>1. /\ Waiting(x) /\ NoAsk(x) /\ NoAnswer(Tail(d)) /\ AnswerOk(x, Head(d), sv, lg)
      /\ Named(Tail(d))
  BY TailHere DEF Keeping, Answers
<1>2. /\ ~ HasSession(x) /\ room # 0 /\ Made(room, sv) /\ sv.room[x.conn] = room
      /\ lg.begun[room] = {}
  BY <1>1 DEF AnswerOk
<1>3. room \in Nat /\ s \in Session /\ s.room = room
  <2>1. Head(d) \in Reply
    BY HeadTailProperties
  <2> QED BY <2>1 DEF Reply, Session
<1>4. x.creating /\ ~ IsDiscarding(x) /\ ~ HasStored(x) /\ x.ending = 0
  <2>1. 1 \in DOMAIN d /\ d[1].type = "created"
    BY HeadTailProperties
  <2>2. x.request = x.conn
    BY <1>1 DEF Waiting
  <2>3. x.creating
    BY <2>1, <2>2 DEF Mail
  <2>4. Discards(x)
    BY DEF Keeping, Places
  <2> QED BY <2>3, <2>4 DEF Discards, Apart
<1>5. /\ z \in App /\ z.conn = x.conn /\ z.up = x.up /\ z.status = x.status
      /\ z.outbox = x.outbox /\ z.stored = x.stored /\ Rests(x, z)
  BY DEF App, Rests
<1>6. y = StartJam(v)
  BY DEF Created
<1> HIDE DEF z, s
<1>7. v \in App /\ SameLine(z, v) /\ v.session = s /\ v.disk = s /\ Rests(z, v)
  BY <1>3, <1>5, SaveIs, SaveRests
<1> HIDE DEF v, y
<1>8. SameLine(v, y) /\ y.session = s /\ y.disk = s /\ Rests(v, y)
  BY <1>6, <1>7, StartJamIs, StartJamRests
<1>9. /\ y.conn = x.conn /\ y.up = x.up /\ y.stored = x.stored /\ Rests(x, y)
      /\ y.session.room = room /\ y.disk.room = room
  BY <1>3, <1>5, <1>7, <1>8 DEF SameLine, Rests
<1>10. Discards(y)
  BY <1>4, <1>9 DEF Discards, Rests, IsDiscarding
<1>11. Places(y, sv)
  BY <1>2, <1>9, <1>10 DEF Keeping, Places, Rests
<1>12. Quietly(y, Tail(d), sv)
  <2>1. NoAsk(y)
    BY <1>1, <1>9 DEF NoAsk
  <2>2. y.conn \in Conns /\ sv.room[y.conn] = y.session.room
    BY <1>1, <1>2, <1>9 DEF Waiting
  <2> QED BY <1>1, <2>1, <2>2 DEF Quietly
<1>13. Remembered(y, sv, lg)
  BY <1>2, <1>9 DEF Remembered
<1> QED BY <1>1, <1>9, <1>11, <1>12, <1>13 DEF Keeping, Here, y

\* The server has the outbox when it has resumed the room.
LEMMA ResumedGoesOn ==
  ASSUME NEW x \in App, NEW d \in Seq(Reply), HasSocket(x), d # <<>>,
         Head(d).type = "resumed",
         NEW sv, NEW lg, Keeping(x, d, sv, lg), Kept(x), Apart(x)
  PROVE  Keeping(Resumed(x), Tail(d), sv, lg) /\ HasSocket(Resumed(x))
<1> DEFINE q == [x EXCEPT !.request = 0]
           e == [q EXCEPT !.ending = x.conn]
           c == [q EXCEPT !.connected = TRUE]
           y == Resumed(x)
<1>1. /\ Waiting(x) /\ NoAsk(x) /\ NoAnswer(Tail(d)) /\ AnswerOk(x, Head(d), sv, lg)
      /\ Named(Tail(d))
  BY TailHere DEF Keeping, Answers
<1>2. HasSession(x) => /\ sv.room[x.conn] = x.session.room
                       /\ x.outbox \subseteq sv.started[x.session.room] \cup lg.late
  BY <1>1 DEF AnswerOk
<1>3. x.conn \in Conns /\ x.status = "Online" /\ x.connected = FALSE
  BY <1>1 DEF Waiting
<1>4. q \in App /\ SameJam(x, q) /\ q.conn = x.conn /\ q.up = x.up /\ q.status = x.status
      /\ Rests(x, q) /\ q.connected = x.connected
  BY DEF App, SameJam, Rests
<1>5. /\ Store(sv, lg) /\ Places(x, sv) /\ UpOk(x.up, sv, lg) /\ Remembered(x, sv, lg)
  BY DEF Keeping
<1>6. CASE IsDiscarding(x)
  <2>1. y = Sent(e, "end", 0, {})
    BY <1>6 DEF Resumed
  <2> HIDE DEF q
  <2>2. e \in App /\ SameJam(x, e) /\ e.conn = x.conn /\ e.up = x.up /\ e.status = "Online"
        /\ e.discarding = x.discarding /\ e.connected = FALSE
    <3>1. x.conn \in Nat
      BY DEF App
    <3> QED BY <1>3, <1>4, <3>1 DEF App, SameJam, Rests
  <2> DEFINE m == [type |-> "end", room |-> 0, items |-> {}]
  <2>3. m \in Request /\ m.type = "end" /\ m.room = 0 /\ m.items = {}
    BY DEF Request
  <2> HIDE DEF e, y, m
  <2>4. Carries(e, y, m) /\ Rests(e, y) /\ y.connected = FALSE
    BY <2>1, <2>2, <2>3, SentCarries
  <2>5. SameJam(e, y) /\ y.conn = x.conn /\ y.status = "Online"
    BY <2>1, <2>2, <2>3, SentIs
  <2>6. SameJam(x, y) /\ y.discarding = x.discarding
    BY <2>2, <2>4, <2>5 DEF SameJam, Rests
  <2>7. Discards(y)
    BY <1>5, <1>6, <2>6 DEF Places, Discards, SameJam, HasSession, HasStored, IsDiscarding
  <2>8. Places(y, sv)
    BY <1>5, <2>6, <2>7, PlacesKept DEF SameJam
  <2>9. NoAsk(e)
    BY <1>1, <2>2 DEF NoAsk
  <2>10. UpOk(y.up, sv, lg)
    BY <1>5, <2>2, <2>3, <2>4, <2>9, CarriesUp DEF Asks
  <2>11. NoAsk(y)
    BY <2>2, <2>3, <2>4, <2>5, <2>9, CarriesQuiet DEF Asks
  <2>12. Quietly(y, Tail(d), sv)
    BY <1>1, <2>4, <2>11 DEF Quietly
  <2>13. Remembered(y, sv, lg)
    <3>1. ItemsIn(x.up) \subseteq ItemsIn(y.up)
      BY <2>2, <2>3, <2>4, CarriesItems
    <3>2. y.disk = x.disk /\ Remembered(x, sv, lg)
      BY <1>5, <2>6 DEF SameJam
    <3> QED BY <3>1, <3>2 DEF Remembered
  <2> QED BY <1>1, <1>5, <2>5, <2>8, <2>10, <2>12, <2>13 DEF Keeping, Here, HasSocket, y
<1>7. CASE ~ IsDiscarding(x)
  <2>1. y = WithOutbox(c, {})
    BY <1>7 DEF Resumed
  <2> HIDE DEF q
  <2>2. c \in App /\ SameJam(x, c) /\ c.conn = x.conn /\ c.up = x.up /\ Rests(x, c)
        /\ c.status = "Online"
    BY <1>3, <1>4 DEF App, SameJam, Rests
  <2> HIDE DEF c, y
  <2>3. {} \in SUBSET Items
    OBVIOUS
  <2>4. SameLine(c, y) /\ y.outbox = {} /\ Rests(c, y)
    BY <2>1, <2>2, <2>3, WithOutboxIs, WithOutboxRests
  <2>5. \/ y.session = c.session /\ y.disk = c.disk /\ (~ HasSession(c) \/ c.outbox = {})
        \/ /\ HasSession(c)
           /\ y.session = [room |-> c.session.room, outbox |-> {}] /\ y.disk = y.session
    BY <2>1, <2>2, <2>3, WithOutboxIs
  <2>6. /\ y.conn = x.conn /\ y.up = x.up /\ y.stored = x.stored /\ Rests(x, y)
        /\ y.session.room = x.session.room /\ y.creating = x.creating /\ y.status = "Online"
    BY <2>2, <2>4, <2>5 DEF SameJam, SameLine, Rests
  <2>7. Discards(y)
    BY <1>5, <2>6 DEF Places, Discards, Rests, HasSession, HasStored, IsDiscarding
  <2>8. Places(y, sv)
    BY <1>5, <2>6, <2>7, PlacesKept DEF Rests
  <2>9. Quietly(y, Tail(d), sv)
    <3>1. NoAsk(y)
      BY <1>1, <2>6 DEF NoAsk
    <3>2. y.conn \in Conns /\ (HasSession(y) => sv.room[y.conn] = y.session.room)
      BY <1>2, <1>3, <2>6 DEF HasSession
    <3> QED BY <1>1, <3>1, <3>2 DEF Quietly
  <2>10. Remembered(y, sv, lg)
    <3>1. CASE y.disk = x.disk
      BY <1>5, <2>6, <3>1 DEF Remembered
    <3>2. CASE HasSession(x) /\ y.disk = [room |-> x.session.room, outbox |-> {}]
      <4>1. x.disk.room = x.session.room /\ x.disk.outbox = x.outbox
            /\ y.disk.room = x.session.room
        BY <3>2 DEF Kept
      <4>2. x.disk.outbox \subseteq sv.started[x.session.room] \cup lg.late
        BY <1>2, <3>2, <4>1
      <4> QED BY <1>5, <2>6, <4>1, <4>2 DEF Remembered
    <3> QED BY <2>2, <2>5, <3>1, <3>2 DEF SameJam, HasSession
  <2> QED BY <1>1, <1>5, <2>6, <2>8, <2>9, <2>10 DEF Keeping, Here, HasSocket, y
<1> QED BY <1>6, <1>7

LEMMA ReadStep ==
  ASSUME Inv, KeepInv, Read, ~ log.overlaps PROVE Keeping(app', down', server', log')
<1> DEFINE m == Head(down)
           y == Receive(app, m)
           e == Tail(down)
<1>1. /\ app \in App /\ down \in Seq(Reply) /\ Mail(app, down) /\ Kept(app) /\ Apart(app)
      /\ Keeping(app, down, server, log) /\ Here(app, down, server, log)
  BY Presently
<1>2. /\ HasSocket(app) /\ down # <<>> /\ app' = y /\ log' = log /\ server' = server
      /\ down' = IF HasSocket(y) THEN e ELSE <<>>
  BY DEF Read
<1>3. m \in Reply /\ 1 \in DOMAIN down /\ down[1] = m
  BY <1>1, <1>2, HeadTailProperties
<1>4. Here(app, e, server, log) /\ Discards(app)
  BY <1>1, <1>2, TailHere DEF Keeping, Places
<1>5. Keeping(app, e, server, log)
  BY <1>1, <1>4 DEF Keeping
<1> SUFFICES Quits(app, y) \/ (HasSocket(y) /\ Keeping(y, e, server, log))
  <2>1. CASE Quits(app, y)
    <3>1. Keeping(y, <<>>, server, log)
      BY <1>1, <2>1, QuitsKeeps
    <3> QED BY <1>2, <2>1, <3>1 DEF Quits
  <2> QED BY <1>2, <2>1
<1>6. CASE y = app
  BY <1>2, <1>5, <1>6
<1>7. CASE m.type = "welcome"
  <2>1. y = Welcomed(app)
    BY <1>7 DEF Receive
  <2> HIDE DEF y
  <2>2. HasSocket(y) /\ Keeping(y, e, server, log)
    BY <1>1, <1>2, <1>7, <2>1, WelcomedKeeps, WelcomedGoesOn
  <2> QED BY <2>2 DEF y
<1>8. CASE m.type = "created" /\ m.id = app.request
  <2>1. y = Created(app, m.room)
    BY <1>8 DEF Receive
  <2>2. m.room \in Nat
    BY <1>3 DEF Reply
  <2> HIDE DEF y
  <2>3. Keeping(y, e, server, log)
    BY <1>1, <1>2, <1>8, <2>1, CreatedGoesOn
  <2>4. HasSocket(y)
    <3>1. Stays(app, y)
      BY <1>1, <2>1, <2>2, CreatedKeeps
    <3> QED BY <1>2, <3>1 DEF Stays, HasSocket
  <2> QED BY <2>3, <2>4 DEF y
<1>9. CASE m.type = "resumed" /\ m.id = app.request
  <2>1. y = Resumed(app)
    BY <1>9 DEF Receive
  <2> HIDE DEF y
  <2>2. Keeping(y, e, server, log) /\ HasSocket(y)
    BY <1>1, <1>2, <1>9, <2>1, ResumedGoesOn
  <2> QED BY <2>2 DEF y
<1>10. CASE m.type \in {"refused", "gone"}
  <2>1. y = Rejected(app, m.id, m.type = "gone")
    BY <1>10 DEF Receive
  <2>2. m.id # 0
    BY <1>1, <1>3, <1>10 DEF Here, Named, Answers
  <2> QED BY <1>1, <1>4, <1>6, <2>1, <2>2, RejectedQuits
<1>11. CASE m.type = "ack" /\ m.id = app.ending
  <2>1. y = FinishDiscard(app)
    BY <1>11 DEF Receive
  <2>2. m.id # 0
    BY <1>1, <1>3, <1>11 DEF Here, Named
  <2>3. IsDiscarding(app)
    BY <1>4, <1>11, <2>2 DEF Discards
  <2> QED BY <1>1, <1>4, <2>1, <2>3, FinishDiscardQuits
<1>12. CASE m.type = "state"
  <2> DEFINE b == app.fed \/ (HasSession(app) /\ app.connected)
  <2>1. y = [app EXCEPT !.fed = b]
    BY <1>12 DEF Receive
  <2> HIDE DEF b, y
  <2>2. /\ Alike(app, y) /\ y.stored = app.stored /\ y.discarding = app.discarding
        /\ y.creating = app.creating /\ y.ending = app.ending /\ y.disk = app.disk
        /\ y.up = app.up
    BY <1>1, <2>1 DEF App, Alike
  <2>3. Keeping(y, e, server, log) /\ HasSocket(y)
    BY <1>2, <1>5, <2>2, AlikeKeeps DEF Alike, HasSocket
  <2> QED BY <2>3 DEF y
<1>13. CASE m.type = "snapshot" /\ HasSession(app)
  <2>1. y = Save(app, app.session)
    BY <1>13 DEF Receive
  <2>2. app.session \in Session
    BY <1>1 DEF App
  <2> HIDE DEF y
  <2>3. /\ SameLine(app, y) /\ y.session = app.session /\ y.disk = app.session
        /\ y.outbox = app.outbox /\ Rests(app, y) /\ y.connected = app.connected
    BY <1>1, <2>1, <2>2, SaveIs, SaveRests
  <2>4. app.session = app.disk
    <3>1. app.session = [room |-> app.session.room, outbox |-> app.session.outbox]
      BY <2>2 DEF Session
    <3> QED BY <1>1, <1>13, <3>1 DEF Kept, Apart
  <2>5. /\ Alike(app, y) /\ y.stored = app.stored /\ y.discarding = app.discarding
        /\ y.creating = app.creating /\ y.ending = app.ending /\ y.disk = app.disk
        /\ y.up = app.up
    BY <2>3, <2>4 DEF SameLine, Rests, Alike
  <2>6. Keeping(y, e, server, log) /\ HasSocket(y)
    BY <1>2, <1>5, <2>5, AlikeKeeps DEF Alike, HasSocket
  <2> QED BY <2>6 DEF y
<1>14. CASE m.type = "ended"
  <2>1. y = ServerEnded(app)
    BY <1>14 DEF Receive
  <2> QED BY <1>1, <1>4, <2>1, ServerEndedQuits
<1>15. CASE m.type = "update-required"
  <2>1. y = StopClient(app)
    BY <1>15 DEF Receive, ToldToUpdate
  <2> HIDE DEF y
  <2>2. Leaves(app, y) /\ Rests(app, y)
    BY <1>1, <2>1, StopClientLeaves, LeaveRests
  <2>3. Rests(app, app)
    BY DEF Rests
  <2> QED BY <1>1, <1>4, <2>2, <2>3, LeavesQuits DEF y
<1>16. \/ y = app
       \/ m.type \in {"welcome", "refused", "gone", "state", "ended", "update-required"}
       \/ m.type \in {"created", "resumed"} /\ m.id = app.request
       \/ m.type = "ack" /\ m.id = app.ending
       \/ m.type = "snapshot" /\ HasSession(app)
  <2>1. y = Receive(app, m) /\ m.type \in
          {"welcome", "created", "resumed", "refused", "gone", "ack", "state", "snapshot", "ended",
           "update-required"}
    BY <1>3 DEF Reply
  <2> HIDE DEF m, y
  <2>2. /\ m.type = "created" /\ m.id # app.request => y = app
        /\ m.type = "resumed" /\ m.id # app.request => y = app
        /\ m.type = "ack" /\ m.id # app.ending => y = app
        /\ m.type = "snapshot" /\ ~ HasSession(app) => y = app
    BY <2>1 DEF Receive
  <2> QED BY <2>1, <2>2
<1> QED BY <1>6, <1>7, <1>8, <1>9, <1>10, <1>11, <1>12, <1>13, <1>14, <1>15, <1>16

-----------------------------------------------------------------------------
(* The server reads a message *)

\* It forgets no item and no room.
Grows(sv, next) ==
  /\ next \in ServerType
  /\ \A r \in Rooms : /\ sv.started[r] \subseteq next.started[r]
                      /\ sv.rooms[r] # "none" => next.rooms[r] # "none"
                      /\ next.rooms[r] = "open" => sv.rooms[r] \in {"open", "none"}

LEMMA GrowsPlaces ==
  ASSUME NEW x, NEW sv, NEW next, NEW lg, Grows(sv, next)
  PROVE  /\ Places(x, sv) => Places(x, next)
         /\ Store(sv, lg) => Store(next, lg)
BY DEF Grows, Places, Made, Store

\* On the lines whose room is as before, all goes on.
LEMMA GrowsHere ==
  ASSUME NEW x, NEW d, NEW sv, NEW next, NEW lg, Grows(sv, next), Here(x, d, sv, lg),
         x.conn \in Conns => next.room[x.conn] = sv.room[x.conn], Made(x.session.room, sv)
  PROVE  Here(x, d, next, lg)
<1>1. Quietly(x, d, sv) => Quietly(x, d, next)
  BY DEF Quietly
<1>2. HasSession(x) => sv.started[x.session.room] \subseteq next.started[x.session.room]
  BY DEF Made, HasSession, Grows
<1>3. \A m : Waiting(x) /\ AnswerOk(x, m, sv, lg) => AnswerOk(x, m, next, lg)
  BY <1>2 DEF AnswerOk, Waiting, Made, Grows
<1>4. Answered(x, d, sv, lg) => Answered(x, d, next, lg)
  BY <1>3 DEF Answered
<1> QED BY <1>1, <1>4 DEF Here

\* A message of the server that is no answer
LEMMA AppendHere ==
  ASSUME NEW x, NEW d \in Seq(Reply), NEW m \in Reply, NEW sv, NEW lg, Here(x, d, sv, lg),
         m.type \notin Answers, m.type = "ack" => m.id # 0
  PROVE  Here(x, Append(d, m), sv, lg)
<1> DEFINE e == Append(d, m)
<1>1. /\ DOMAIN e = 1..(Len(d) + 1) /\ DOMAIN d = 1..Len(d) /\ Len(d) \in Nat
      /\ \A i \in DOMAIN d : e[i] = d[i]
      /\ e[Len(d) + 1] = m
  BY AppendProperties
<1>2. /\ \A i \in DOMAIN e : (i \in DOMAIN d /\ e[i] = d[i]) \/ e[i] = m
      /\ \A i \in DOMAIN d : i \in DOMAIN e /\ e[i] = d[i]
  BY <1>1
<1> HIDE DEF e
<1>3. Named(e)
  BY <1>2 DEF Here, Named
<1>4. NoAnswer(d) => NoAnswer(e)
  BY <1>2 DEF NoAnswer
<1>5. Quietly(x, d, sv) => Quietly(x, e, sv)
  BY <1>4 DEF Quietly
<1>6. Asked(x, d, lg) => Asked(x, e, lg)
  BY <1>4 DEF Asked
<1>7. Answered(x, d, sv, lg) => Answered(x, e, sv, lg)
  <2> SUFFICES ASSUME Answered(x, d, sv, lg) PROVE Answered(x, e, sv, lg)
    OBVIOUS
  <2>1. PICK n \in DOMAIN d : /\ AnswerOk(x, d[n], sv, lg)
                              /\ \A j \in DOMAIN d : j # n => d[j].type \notin Answers
    BY DEF Answered
  <2>2. n \in DOMAIN e /\ e[n] = d[n]
    BY <1>2
  <2>3. \A j \in DOMAIN e : j # n => e[j].type \notin Answers
    BY <1>2, <2>1
  <2> QED BY <2>1, <2>2, <2>3 DEF Answered
<1> QED BY <1>3, <1>5, <1>6, <1>7 DEF Here, e

\* The answer to what was asked
LEMMA AppendAnswers ==
  ASSUME NEW x, NEW y, NEW d \in Seq(Reply), NEW m \in Reply, NEW sv, NEW lg, NEW old,
         Asked(x, d, old), Named(d), m.id # 0, AnswerOk(y, m, sv, lg), Waiting(y), NoAsk(y)
  PROVE  Here(y, Append(d, m), sv, lg)
<1> DEFINE e == Append(d, m)
           n == Len(d) + 1
<1>1. /\ DOMAIN e = 1..n /\ DOMAIN d = 1..Len(d) /\ Len(d) \in Nat
      /\ \A i \in DOMAIN d : e[i] = d[i]
      /\ e[n] = m
  BY AppendProperties
<1>2. \A i \in DOMAIN e : (i \in DOMAIN d /\ e[i] = d[i]) \/ (i = n /\ e[i] = m)
  BY <1>1
<1>3. n \in DOMAIN e /\ e[n] = m
  BY <1>1
<1> HIDE DEF e, n
<1>4. Named(e)
  BY <1>2 DEF Named
<1>5. \A j \in DOMAIN e : j # n => e[j].type \notin Answers
  BY <1>2 DEF Asked, NoAnswer
<1>6. Answered(y, e, sv, lg)
  BY <1>3, <1>5 DEF Answered
<1> QED BY <1>4, <1>6 DEF Here, e

\* What remains of the line after the oldest message
LEMMA TailUp ==
  ASSUME NEW up \in [Conns -> Seq(Request)], NEW conn \in Conns, up[conn] # <<>>
  PROVE  LET m == Head(up[conn])
             u == [up EXCEPT ![conn] = Tail(@)] IN
         /\ m \in Request /\ 1 \in DOMAIN up[conn] /\ m = up[conn][1]
         /\ u \in [Conns -> Seq(Request)] /\ u[conn] = Tail(up[conn])
         /\ \A c \in Conns : c # conn => u[c] = up[c]
         /\ \A i \in DOMAIN u[conn] : i + 1 \in DOMAIN up[conn] /\ u[conn][i] = up[conn][i + 1]
         /\ Len(up[conn]) = 1 => u[conn] = <<>>
         /\ Len(up[conn]) # 1 => \A i \in DOMAIN up[conn] : i # 1 =>
              i - 1 \in DOMAIN u[conn] /\ u[conn][i - 1] = up[conn][i]
<1> DEFINE u == [up EXCEPT ![conn] = Tail(@)]
<1>1. up[conn] \in Seq(Request)
  OBVIOUS
<1>2. /\ Head(up[conn]) = up[conn][1] /\ 1 \in DOMAIN up[conn]
      /\ Tail(up[conn]) \in Seq(Request) /\ Len(Tail(up[conn])) = Len(up[conn]) - 1
      /\ \A i \in DOMAIN Tail(up[conn]) :
           i + 1 \in DOMAIN up[conn] /\ Tail(up[conn])[i] = up[conn][i + 1]
      /\ \A i \in DOMAIN up[conn] : i # 1 =>
           i - 1 \in DOMAIN Tail(up[conn]) /\ Tail(up[conn])[i - 1] = up[conn][i]
  BY <1>1, HeadTailProperties
<1>3. u[conn] = Tail(up[conn]) /\ \A c \in Conns : c # conn => u[c] = up[c]
  OBVIOUS
<1>4. u \in [Conns -> Seq(Request)]
  BY <1>2
<1>5. Len(up[conn]) = 1 => Tail(up[conn]) = <<>>
  BY <1>2, <1>1
<1>6. Head(up[conn]) \in Request
  BY <1>1, <1>2
<1> HIDE DEF u
<1> QED BY <1>2, <1>3, <1>4, <1>5, <1>6 DEF u

\* Only the items of the message are on the way no more.
LEMMA TailItems ==
  ASSUME NEW up \in [Conns -> Seq(Request)], NEW conn \in Conns, up[conn] # <<>>,
         NEW item \in ItemsIn(up)
  PROVE  LET m == Head(up[conn]) IN
         \/ item \in ItemsIn([up EXCEPT ![conn] = Tail(@)])
         \/ m.type = "started" /\ item \in m.items
<1> DEFINE m == Head(up[conn])
           u == [up EXCEPT ![conn] = Tail(@)]
<1>1. PICK c \in Conns : \E i \in DOMAIN up[c] : up[c][i].type = "started" /\ item \in up[c][i].items
  BY InItems
<1>2. PICK i \in DOMAIN up[c] : up[c][i].type = "started" /\ item \in up[c][i].items
  BY <1>1
<1>3. /\ 1 \in DOMAIN up[conn] /\ m = up[conn][1] /\ \A k \in Conns : k # conn => u[k] = up[k]
      /\ Len(up[conn]) = 1 => DOMAIN up[conn] = {1}
      /\ Len(up[conn]) # 1 => \A j \in DOMAIN up[conn] : j # 1 =>
              j - 1 \in DOMAIN u[conn] /\ u[conn][j - 1] = up[conn][j]
  <2>1. Len(up[conn]) = 1 => DOMAIN up[conn] = {1}
    <3>1. up[conn] \in Seq(Request)
      OBVIOUS
    <3>2. DOMAIN up[conn] = 1..Len(up[conn])
      BY <3>1
    <3> QED BY <3>2
  <2> QED BY <2>1, TailUp
<1> HIDE DEF m, u
<1>4. CASE c # conn
  <2>1. u[c] = up[c]
    BY <1>3, <1>4
  <2>2. item \in ItemsIn(u)
    BY <1>2, <2>1, InItems
  <2> QED BY <2>2 DEF u
<1>5. CASE c = conn /\ i = 1
  BY <1>2, <1>3, <1>5 DEF m
<1>6. CASE c = conn /\ i # 1
  <2>1. i - 1 \in DOMAIN u[c] /\ u[c][i - 1] = up[c][i]
    BY <1>3, <1>6
  <2>2. item \in ItemsIn(u)
    BY <1>2, <2>1, InItems
  <2> QED BY <2>2 DEF u
<1> QED BY <1>4, <1>5, <1>6

\* What a handler of the server does with what asks for a room.
AnswersIt(conn, m) ==
  /\ Grows(server, server') /\ \A c \in Conns : c # conn => server'.room[c] = server.room[c]
  /\ \E r \in Reply :
       /\ r.id = conn
       /\ down' = IF conn = app.conn /\ HasSocket(app) THEN Append(down, r) ELSE down
       /\ \A x : Waiting(x) /\ x.conn = conn /\ AskOk(x, m, log) => AnswerOk(x, r, server', log)

\* And with what does not
TakesIt(conn, m) ==
  /\ Grows(server, server') /\ server'.room = server.room
  /\ \/ down' = down
     \/ /\ conn = app.conn /\ HasSocket(app)
        /\ \E r \in Reply : r.type = "ack" /\ r.id = conn /\ down' = Append(down, r)
  /\ m.type = "started" /\ server.room[conn] \in Rooms
       /\ server'.rooms[server.room[conn]] = "open" =>
     m.items \subseteq server'.started[server.room[conn]]

LEMMA AnswerIs ==
  ASSUME NEW conn \in Conns, NEW type \in Answers \cup {"ack"}, NEW room \in Nat,
         Answer(conn, type, room)
  PROVE  /\ Message(type, conn, room) \in Reply
         /\ down' = IF conn = app.conn /\ HasSocket(app)
                      THEN Append(down, Message(type, conn, room)) ELSE down
         /\ Message(type, conn, room).type = type /\ Message(type, conn, room).id = conn
         /\ Message(type, conn, room).room = room
<1>1. conn \in Nat
  BY JamAssumption DEF Conns
<1>2. Message(type, conn, room) \in Reply
  BY <1>1 DEF Message, Reply, Answers
<1> QED BY <1>2 DEF Answer, Message

LEMMA RefuseAnswers ==
  ASSUME server \in ServerType, NEW conn \in Conns, NEW m \in Request, Refuse(conn, m)
  PROVE  AnswersIt(conn, m)
<1>1. server' = [server EXCEPT !.refusals = @ + 1] /\ Answer(conn, "refused", 0)
  BY DEF Refuse
<1>2. Grows(server, server') /\ server'.room = server.room
  <2>1. server.refusals + 1 \in Nat
    <3>1. server.refusals \in Nat
      BY DEF ServerType
    <3> QED BY <3>1
  <2>2. server' \in ServerType /\ server'.room = server.room /\ server'.rooms = server.rooms
        /\ server'.started = server.started
    BY <1>1, <2>1 DEF ServerType
  <2>3. \A r \in Rooms : server.rooms[r] \in RoomState
    BY DEF ServerType
  <2> QED BY <2>2, <2>3 DEF Grows
<1> DEFINE r == Message("refused", conn, 0)
<1>3. /\ r \in Reply /\ r.type = "refused" /\ r.id = conn
      /\ down' = IF conn = app.conn /\ HasSocket(app) THEN Append(down, r) ELSE down
  BY <1>1, AnswerIs DEF Answers
<1> HIDE DEF r
<1>4. \A x : AnswerOk(x, r, server', log)
  BY <1>3 DEF AnswerOk
<1> QED BY <1>2, <1>3, <1>4 DEF AnswersIt

\* A room that is opened was not there, so that nothing began in it.
LEMMA OpenRoomAnswers ==
  ASSUME server \in ServerType, Store(server, log), NEW conn \in Conns, NEW m \in Request,
         OpenRoom(conn, m)
  PROVE  AnswersIt(conn, m)
<1>1. PICK room \in Rooms :
        /\ server.rooms[room] = "none"
        /\ server' = [server EXCEPT !.rooms[room] = "open", !.room[conn] = room]
        /\ Answer(conn, "created", room)
  BY DEF OpenRoom
<1> DEFINE rs == [server.rooms EXCEPT ![room] = "open"]
           rc == [server.room EXCEPT ![conn] = room]
           r == Message("created", conn, room)
<1>2. server' = [server EXCEPT !.rooms = rs, !.room = rc]
  BY <1>1
<1>3. /\ server.rooms \in [Rooms -> RoomState]
      /\ server.room \in [Conns -> Place] /\ "open" \in RoomState
  BY DEF ServerType, RoomState
<1>4. /\ rs \in [Rooms -> RoomState]
      /\ rc \in [Conns -> Place] /\ rs[room] = "open" /\ rc[conn] = room
      /\ \A k \in Rooms : k # room => rs[k] = server.rooms[k]
      /\ \A c \in Conns : c # conn => rc[c] = server.room[c]
  BY <1>3 DEF Place
<1> HIDE DEF rs, rc
<1>5. server' \in ServerType /\ server'.rooms = rs /\ server'.room = rc
      /\ server'.started = server.started
  BY <1>2, <1>4 DEF ServerType
<1>6. Grows(server, server')
  <2>1. \A k \in Rooms : rs[k] = "open" => server.rooms[k] \in {"open", "none"}
    BY <1>1, <1>4
  <2>2. \A k \in Rooms : server.rooms[k] # "none" => rs[k] # "none"
    BY <1>1, <1>4
  <2> QED BY <1>5, <2>1, <2>2 DEF Grows
<1>7. room \in Nat /\ room # 0
  BY <1>1 DEF Rooms
<1>8. /\ r \in Reply /\ r.type = "created" /\ r.id = conn /\ r.room = room
      /\ down' = IF conn = app.conn /\ HasSocket(app) THEN Append(down, r) ELSE down
  BY <1>1, <1>7, AnswerIs DEF Answers
<1> HIDE DEF r
<1>9. log.begun[room] = {}
  BY <1>1 DEF Store
<1>10. m.type = "create"
  BY DEF OpenRoom
<1>11. Made(room, server')
  BY <1>1, <1>4, <1>5 DEF Made
<1>12. ASSUME NEW x, x.conn = conn, AskOk(x, m, log) PROVE AnswerOk(x, r, server', log)
  <2>1. ~ HasSession(x)
    BY <1>10, <1>12 DEF AskOk
  <2> QED BY <1>4, <1>5, <1>7, <1>8, <1>9, <1>11, <1>12, <2>1 DEF AnswerOk
<1> QED BY <1>4, <1>5, <1>6, <1>8, <1>12 DEF AnswersIt

\* A room that is resumed has the outbox that came with the request.
LEMMA ResumeRoomAnswers ==
  ASSUME server \in ServerType, NEW conn \in Conns, NEW m \in Request, m.room \in Place,
         ResumeRoom(conn, m)
  PROVE  AnswersIt(conn, m)
<1>1. CASE IsOpen(m.room)
  <2>1. m.room \in Rooms /\ server.rooms[m.room] = "open"
    BY <1>1 DEF IsOpen, Place
  <2> DEFINE rc == [server.room EXCEPT ![conn] = m.room]
             st == [server.started EXCEPT ![m.room] = @ \cup m.items]
             r == Message("resumed", conn, 0)
  <2>2. server' = [server EXCEPT !.room = rc, !.started = st] /\ Answer(conn, "resumed", 0)
    BY <1>1 DEF ResumeRoom
  <2>3. server.started \in [Rooms -> SUBSET Items] /\ server.room \in [Conns -> Place]
        /\ m.items \in SUBSET Items
    BY DEF ServerType, Request
  <2>4. /\ rc \in [Conns -> Place] /\ rc[conn] = m.room
        /\ \A c \in Conns : c # conn => rc[c] = server.room[c]
    BY <2>3
  <2>5. /\ st \in [Rooms -> SUBSET Items] /\ m.items \subseteq st[m.room]
        /\ \A k \in Rooms : server.started[k] \subseteq st[k]
    BY <2>1, <2>3
  <2> HIDE DEF rc, st
  <2>6. server' \in ServerType /\ server'.rooms = server.rooms /\ server'.room = rc
        /\ server'.started = st
    BY <2>2, <2>4, <2>5 DEF ServerType
  <2>7. Grows(server, server')
    <3>1. \A k \in Rooms : server.rooms[k] \in RoomState
      BY DEF ServerType
    <3> QED BY <2>5, <2>6, <3>1 DEF Grows
  <2>8. /\ r \in Reply /\ r.type = "resumed" /\ r.id = conn
        /\ down' = IF conn = app.conn /\ HasSocket(app) THEN Append(down, r) ELSE down
    BY <2>2, AnswerIs DEF Answers
  <2> HIDE DEF r
  <2>9. ASSUME NEW x, x.conn = conn, AskOk(x, m, log) PROVE AnswerOk(x, r, server', log)
    <3>1. m.type = "resume"
      BY DEF ResumeRoom
    <3>2. HasSession(x) => m.room = x.session.room /\ x.outbox \subseteq m.items \cup log.late
      BY <2>9, <3>1 DEF AskOk
    <3>3. HasSession(x) => server'.room[x.conn] = x.session.room
                           /\ x.outbox \subseteq server'.started[x.session.room] \cup log.late
      BY <2>4, <2>5, <2>6, <2>9, <3>2
    <3> QED BY <2>8, <3>3 DEF AnswerOk
  <2> QED BY <2>4, <2>6, <2>7, <2>8, <2>9 DEF AnswersIt
<1>2. CASE ~ IsOpen(m.room)
  <2> DEFINE r == Message("gone", conn, 0)
  <2>1. server' = server /\ Answer(conn, "gone", 0)
    BY <1>2 DEF ResumeRoom
  <2>2. Grows(server, server')
    <3>1. \A k \in Rooms : server.rooms[k] \in RoomState
      BY DEF ServerType
    <3> QED BY <2>1, <3>1 DEF Grows
  <2>3. /\ r \in Reply /\ r.type = "gone" /\ r.id = conn
        /\ down' = IF conn = app.conn /\ HasSocket(app) THEN Append(down, r) ELSE down
    BY <2>1, AnswerIs DEF Answers
  <2> HIDE DEF r
  <2>4. \A x : AnswerOk(x, r, server', log)
    BY <2>3 DEF AnswerOk
  <2> QED BY <2>1, <2>2, <2>3, <2>4 DEF AnswersIt
<1> QED BY <1>1, <1>2

LEMMA NoteStartedTakes ==
  ASSUME server \in ServerType, NEW conn \in Conns, NEW m \in Request, NoteStarted(conn, m)
  PROVE  TakesIt(conn, m)
<1> DEFINE room == server.room[conn]
<1>1. room \in Place /\ down' = down
      /\ \A k \in Rooms : server.rooms[k] \in RoomState
  BY DEF ServerType, NoteStarted
<1>2. CASE IsOpen(room)
  <2>1. room \in Rooms
    BY <1>1, <1>2 DEF IsOpen, Place
  <2> DEFINE st == [server.started EXCEPT ![room] = @ \cup m.items]
  <2>2. server' = [server EXCEPT !.started = st]
    BY <1>2 DEF NoteStarted
  <2>3. server.started \in [Rooms -> SUBSET Items] /\ m.items \in SUBSET Items
    BY DEF ServerType, Request
  <2>4. /\ st \in [Rooms -> SUBSET Items] /\ m.items \subseteq st[room]
        /\ \A k \in Rooms : server.started[k] \subseteq st[k]
    BY <2>1, <2>3
  <2> HIDE DEF st
  <2>5. server' \in ServerType /\ server'.rooms = server.rooms /\ server'.room = server.room
        /\ server'.started = st
    BY <2>2, <2>4 DEF ServerType
  <2>6. Grows(server, server')
    BY <1>1, <2>4, <2>5 DEF Grows
  <2> QED BY <1>1, <2>4, <2>5, <2>6 DEF TakesIt
<1>3. CASE ~ IsOpen(room)
  <2>1. server' = server
    BY <1>3 DEF NoteStarted
  <2>2. Grows(server, server')
    BY <1>1, <2>1 DEF Grows
  <2>3. 0 \notin Rooms
    BY DEF Rooms
  <2> QED BY <1>1, <1>3, <2>1, <2>2, <2>3 DEF TakesIt, IsOpen
<1> QED BY <1>2, <1>3

LEMMA EndRoomTakes ==
  ASSUME server \in ServerType, NEW conn \in Conns, NEW m \in Request, EndRoom(conn, m)
  PROVE  TakesIt(conn, m)
<1> DEFINE room == server.room[conn]
           r == Message("ack", conn, 0)
<1>1. room \in Place /\ m.type = "end" /\ Answer(conn, "ack", 0)
      /\ \A k \in Rooms : server.rooms[k] \in RoomState
  BY DEF ServerType, EndRoom
<1>2. Grows(server, server') /\ server'.room = server.room
  <2>1. CASE IsOpen(room)
    <3>1. room \in Rooms /\ server.rooms[room] = "open"
      BY <1>1, <2>1 DEF IsOpen, Place
    <3>2. PICK over \in RoomState : over = "ended by the host"
      BY DEF RoomState
    <3>3. over # "open" /\ over # "none"
      BY <3>2
    <3> DEFINE rs == [server.rooms EXCEPT ![room] = over]
    <3>4. server' = [server EXCEPT !.rooms = rs]
      BY <2>1, <3>2 DEF EndRoom
    <3>5. server.rooms \in [Rooms -> RoomState]
      BY DEF ServerType
    <3>6. /\ rs \in [Rooms -> RoomState]
          /\ rs[room] = over
          /\ \A k \in Rooms : k # room => rs[k] = server.rooms[k]
      BY <3>1, <3>5
    <3> HIDE DEF rs
    <3>7. server' \in ServerType /\ server'.rooms = rs /\ server'.room = server.room
          /\ server'.started = server.started
      BY <3>4, <3>6 DEF ServerType
    <3>8. \A k \in Rooms : (rs[k] = "open" => server.rooms[k] = "open")
                           /\ (server.rooms[k] # "none" => rs[k] # "none")
      BY <3>1, <3>3, <3>6
    <3> QED BY <3>7, <3>8 DEF Grows
  <2>2. CASE ~ IsOpen(room)
    <3>1. server' = server
      BY <2>2 DEF EndRoom
    <3> QED BY <1>1, <3>1 DEF Grows
  <2> QED BY <2>1, <2>2
<1>3. /\ r \in Reply /\ r.type = "ack" /\ r.id = conn
      /\ down' = IF conn = app.conn /\ HasSocket(app) THEN Append(down, r) ELSE down
  <2>1. Answer(conn, "ack", 0) /\ 0 \in Nat /\ "ack" \in Answers \cup {"ack"}
    BY <1>1
  <2> HIDE DEF room
  <2> QED BY <2>1, AnswerIs
<1> HIDE DEF r
<1> QED BY <1>1, <1>2, <1>3 DEF TakesIt

\* The line of the connection that is served
LEMMA ServedLine ==
  ASSUME Inv, KeepInv, ~ log.overlaps, NEW conn \in Conns, app.up[conn] # <<>>
  PROVE  LET m == Head(app.up[conn])
             u == [app.up EXCEPT ![conn] = Tail(@)] IN
         /\ m.type \in Asks => u[conn] = <<>> /\ m.room \in Place
         /\ m.type \notin Asks => \A i \in DOMAIN u[conn] : u[conn][i].type \notin Asks
         /\ m.type = "started" =>
              server.room[conn] \in Rooms /\ m.items \subseteq log.begun[server.room[conn]]
         /\ \A i \in DOMAIN u[conn] : u[conn][i].type = "started" =>
              server.room[conn] \in Rooms /\ u[conn][i].items \subseteq log.begun[server.room[conn]]
         /\ \A i \in DOMAIN u[conn] : u[conn][i].type \notin Asks
<1> DEFINE s == app.up[conn]
           m == Head(s)
           u == [app.up EXCEPT ![conn] = Tail(@)]
<1>1. app.up \in [Conns -> Seq(Request)] /\ UpOk(app.up, server, log)
  BY Presently DEF App
<1>2. /\ 1 \in DOMAIN s /\ m = s[1] /\ (Len(s) = 1 => u[conn] = <<>>)
      /\ \A i \in DOMAIN u[conn] : i + 1 \in DOMAIN s /\ u[conn][i] = s[i + 1]
  BY <1>1, TailUp
<1>3. OnTheWay(app.up, conn, server, log)
  BY <1>1 DEF UpOk
<1> HIDE DEF m, u
<1>4. \A i \in DOMAIN s :
        /\ s[i].type = "started" =>
             server.room[conn] \in Rooms /\ s[i].items \subseteq log.begun[server.room[conn]]
        /\ s[i].type \in Asks => Len(s) = 1 /\ s[i].room \in Place
  BY <1>3 DEF OnTheWay
<1> HIDE DEF s
<1>5. m.type \in Asks => u[conn] = <<>> /\ m.room \in Place
  BY <1>2, <1>4
<1>6. \A i \in DOMAIN u[conn] : u[conn][i].type \notin Asks
  <2>1. ASSUME NEW i \in DOMAIN u[conn], u[conn][i].type \in Asks PROVE FALSE
    <3>1. u[conn] = <<>>
      BY <1>2, <1>4, <2>1
    <3> QED BY <2>1, <3>1
  <2> QED BY <2>1
<1>7. \A i \in DOMAIN u[conn] : u[conn][i].type = "started" =>
        server.room[conn] \in Rooms /\ u[conn][i].items \subseteq log.begun[server.room[conn]]
  BY <1>2, <1>4
<1>8. m.type = "started" =>
        server.room[conn] \in Rooms /\ m.items \subseteq log.begun[server.room[conn]]
  BY <1>2, <1>4
<1> QED BY <1>5, <1>6, <1>7, <1>8 DEF s, m, u

\* The state of the question when the oldest message of the line is gone and asked
\* for nothing
LEMMA ServedHere ==
  ASSUME Inv, KeepInv, ~ log.overlaps, NEW conn \in Conns, app.up[conn] # <<>>,
         Head(app.up[conn]).type \notin Asks, NEW y \in App,
         y = [app EXCEPT !.up = [app.up EXCEPT ![conn] = Tail(@)]]
  PROVE  Here(y, down, server, log)
<1> DEFINE u == [app.up EXCEPT ![conn] = Tail(@)]
<1>1. app \in App /\ Here(app, down, server, log) /\ app.up \in [Conns -> Seq(Request)]
  BY Presently DEF App
<1>2. /\ \A c \in Conns : c # conn => u[c] = app.up[c]
      /\ 1 \in DOMAIN app.up[conn] /\ Head(app.up[conn]) = app.up[conn][1]
  BY <1>1, TailUp
<1>3. \A i \in DOMAIN u[conn] : u[conn][i].type \notin Asks
  BY ServedLine
<1> HIDE DEF u
<1>4. /\ y.conn = app.conn /\ y.request = app.request /\ y.status = app.status /\ y.up = u
      /\ y.connected = app.connected /\ y.session.room = app.session.room
      /\ y.outbox = app.outbox
  BY <1>1 DEF App, u
<1>5. CASE app.conn # conn
  <2>1. Alike(app, y)
    BY <1>2, <1>4, <1>5 DEF Alike
  <2> QED BY <1>1, <2>1, AlikeHere
<1>6. CASE app.conn = conn
  <2>1. NoAsk(y)
    BY <1>3, <1>4, <1>6 DEF NoAsk
  <2>2. ~ Asked(app, down, log)
    BY <1>2, <1>6 DEF Asked, AskOk, Asks
  <2>3. HasSession(y) <=> HasSession(app)
    BY <1>4 DEF HasSession
  <2>4. Quietly(app, down, server) => Quietly(y, down, server)
    BY <1>4, <2>1, <2>3 DEF Quietly
  <2>5. \A m : AnswerOk(app, m, server, log) => AnswerOk(y, m, server, log)
    BY <1>4, <2>3 DEF AnswerOk
  <2>6. Waiting(app) => Waiting(y)
    BY <1>4 DEF Waiting
  <2>7. Answered(app, down, server, log) => Answered(y, down, server, log)
    BY <2>1, <2>5, <2>6 DEF Answered
  <2> QED BY <1>1, <1>4, <2>2, <2>4, <2>7 DEF Here, HasSocket
<1> QED BY <1>5, <1>6

LEMMA ServeStep ==
  ASSUME Inv, KeepInv, Serve, ~ log.overlaps PROVE Keeping(app', down', server', log')
<1>1. /\ app \in App /\ down \in Seq(Reply) /\ Mail(app, down) /\ Kept(app)
      /\ Store(server, log) /\ Places(app, server) /\ UpOk(app.up, server, log)
      /\ Here(app, down, server, log) /\ Remembered(app, server, log)
      /\ server \in ServerType /\ app.up \in [Conns -> Seq(Request)]
  BY Presently DEF App
<1>2. PICK conn \in Conns :
        /\ app.up[conn] # <<>>
        /\ LET m == Head(app.up[conn]) IN
             \/ Refuse(conn, m) \/ OpenRoom(conn, m) \/ ResumeRoom(conn, m)
             \/ NoteStarted(conn, m) \/ EndRoom(conn, m)
        /\ app' = [app EXCEPT !.up[conn] = Tail(@)]
        /\ log' = log
  BY DEF Serve
<1> DEFINE m == Head(app.up[conn])
           u == [app.up EXCEPT ![conn] = Tail(@)]
<1>3. /\ m \in Request /\ 1 \in DOMAIN app.up[conn] /\ m = app.up[conn][1]
      /\ u \in [Conns -> Seq(Request)] /\ \A c \in Conns : c # conn => u[c] = app.up[c]
  BY <1>1, <1>2, TailUp
<1>4. /\ m.type \in Asks => u[conn] = <<>> /\ m.room \in Place
      /\ m.type = "started" =>
           server.room[conn] \in Rooms /\ m.items \subseteq log.begun[server.room[conn]]
      /\ \A i \in DOMAIN u[conn] : u[conn][i].type = "started" =>
           server.room[conn] \in Rooms /\ u[conn][i].items \subseteq log.begun[server.room[conn]]
      /\ \A i \in DOMAIN u[conn] : u[conn][i].type \notin Asks
  BY <1>2, ServedLine
<1>5. app' = [app EXCEPT !.up = u]
  BY <1>2
<1>6. (m.type \in Asks /\ AnswersIt(conn, m)) \/ (m.type \notin Asks /\ TakesIt(conn, m))
  <2>1. CASE Refuse(conn, m)
    BY <1>1, <1>3, <2>1, RefuseAnswers DEF Refuse, Asks
  <2>2. CASE OpenRoom(conn, m)
    BY <1>1, <1>3, <2>2, OpenRoomAnswers DEF OpenRoom, Asks
  <2>3. CASE ResumeRoom(conn, m)
    <3>1. m.type \in Asks
      BY <2>3 DEF ResumeRoom, Asks
    <3> QED BY <1>1, <1>3, <1>4, <2>3, <3>1, ResumeRoomAnswers
  <2>4. CASE NoteStarted(conn, m)
    <3>1. m.type \notin Asks
      BY <2>4 DEF NoteStarted, Asks
    <3> QED BY <1>1, <1>3, <2>4, <3>1, NoteStartedTakes
  <2>5. CASE EndRoom(conn, m)
    <3>1. m.type \notin Asks
      BY <2>5 DEF EndRoom, Asks
    <3> QED BY <1>1, <1>3, <2>5, <3>1, EndRoomTakes
  <2> QED BY <1>2, <2>1, <2>2, <2>3, <2>4, <2>5
<1>7. \A item \in ItemsIn(app.up) : item \in ItemsIn(u) \/ (m.type = "started" /\ item \in m.items)
  BY <1>1, <1>2, TailItems
<1>8. app' \in App
  BY <1>1, <1>3, <1>5 DEF App
<1> HIDE DEF u
<1>9. /\ app'.conn = app.conn /\ app'.request = app.request /\ app'.status = app.status
      /\ app'.up = u /\ app'.connected = app.connected /\ app'.session = app.session
      /\ app'.stored = app.stored /\ app'.discarding = app.discarding
      /\ app'.creating = app.creating /\ app'.ending = app.ending
      /\ app'.outbox = app.outbox /\ app'.disk = app.disk
  BY <1>1, <1>5 DEF App
<1> HIDE DEF m
<1>10. Grows(server, server') /\ \A c \in Conns : c # conn => server'.room[c] = server.room[c]
  BY <1>6 DEF AnswersIt, TakesIt
<1>11. Store(server', log') /\ Places(app', server')
  <2>1. Store(server', log) /\ Places(app, server')
    BY <1>1, <1>10, GrowsPlaces
  <2>2. Discards(app')
    BY <1>9, <2>1 DEF Places, Discards, HasSession, HasStored, IsDiscarding
  <2> QED BY <1>2, <1>9, <2>1, <2>2, PlacesKept
<1>12. UpOk(app'.up, server', log')
  <2> SUFFICES ASSUME NEW c \in Conns PROVE OnTheWay(u, c, server', log)
    BY <1>2, <1>9 DEF UpOk
  <2>1. CASE c # conn
    <3>1. u[c] = app.up[c] /\ server'.room[c] = server.room[c] /\ OnTheWay(app.up, c, server, log)
      BY <1>1, <1>3, <1>10, <2>1 DEF UpOk
    <3> QED BY <3>1 DEF OnTheWay
  <2>2. CASE c = conn /\ m.type \in Asks
    BY <1>4, <2>2 DEF OnTheWay
  <2>3. CASE c = conn /\ m.type \notin Asks
    <3>1. server'.room = server.room
      BY <1>6, <2>3 DEF TakesIt
    <3> QED BY <1>4, <2>3, <3>1 DEF OnTheWay
  <2> QED BY <2>1, <2>2, <2>3
<1>13. Remembered(app', server', log')
  <2> DEFINE room == app.disk.room
  <2> SUFFICES ASSUME room # 0, server'.rooms[room] = "open", NEW item \in log.begun[room]
               PROVE  item \in server'.started[room] \cup app.disk.outbox \cup ItemsIn(u)
                                 \cup log.lost \cup log.late
    BY <1>2, <1>9 DEF Remembered
  <2>1. room \in Rooms
    BY <1>1 DEF Kept, Places, Made, HasSession
  <2>2. server.rooms[room] # "none"
    BY <1>1, <2>1 DEF Store
  <2>3. server.rooms[room] = "open" /\ server.started[room] \subseteq server'.started[room]
    BY <1>10, <2>1, <2>2 DEF Grows
  <2>4. item \in server.started[room] \cup app.disk.outbox \cup ItemsIn(app.up)
                   \cup log.lost \cup log.late
    BY <1>1, <2>3 DEF Remembered
  <2>5. CASE item \in ItemsIn(app.up) /\ item \notin ItemsIn(u)
    <3>1. m.type = "started" /\ item \in m.items
      BY <1>7, <2>5
    <3>2. server.room[conn] \in Rooms /\ item \in log.begun[server.room[conn]]
      BY <1>4, <3>1
    <3>3. server.room[conn] = room
      BY <1>1, <2>1, <3>2 DEF Store
    <3>4. item \in server'.started[room]
      BY <1>6, <2>1, <3>1, <3>3 DEF TakesIt, Asks
    <3> QED BY <3>4
  <2> QED BY <2>3, <2>4, <2>5
<1>14. Here(app', down', server', log')
  <2>1. Made(app.session.room, server) /\ app'.session.room = app.session.room
    BY <1>1, <1>9 DEF Places
  <2>2. CASE m.type \in Asks
    <3>1. PICK r \in Reply :
            /\ r.id = conn
            /\ down' = IF conn = app.conn /\ HasSocket(app) THEN Append(down, r) ELSE down
            /\ \A x : Waiting(x) /\ x.conn = conn /\ AskOk(x, m, log) => AnswerOk(x, r, server', log)
      BY <1>6, <2>2 DEF AnswersIt
    <3>2. CASE conn = app.conn /\ HasSocket(app)
      <4>1. Asked(app, down, log) /\ Named(down)
        <5>1. ~ NoAsk(app)
          BY <1>3, <2>2, <3>2 DEF NoAsk
        <5> QED BY <1>1, <3>2, <5>1 DEF Here, Quietly, Answered
      <4>2. AskOk(app, m, log) /\ Waiting(app)
        BY <1>3, <3>2, <4>1 DEF Asked
      <4>3. AskOk(app', m, log) /\ Waiting(app')
        BY <1>9, <4>2 DEF AskOk, Waiting, HasSession
      <4>4. AnswerOk(app', r, server', log)
        BY <1>9, <3>1, <3>2, <4>3
      <4>5. NoAsk(app')
        BY <1>4, <1>9, <2>2, <3>2 DEF NoAsk
      <4>6. r.id # 0
        BY <1>1, <3>1, <3>2 DEF Mail
      <4>7. Here(app', Append(down, r), server', log)
        BY <1>1, <4>1, <4>3, <4>4, <4>5, <4>6, AppendAnswers
      <4> QED BY <1>2, <3>1, <3>2, <4>7
    <3>3. CASE conn # app.conn
      <4>1. Alike(app, app')
        BY <1>3, <1>9, <3>3 DEF Alike
      <4>2. Here(app', down, server, log)
        BY <1>1, <4>1, AlikeHere
      <4>3. Here(app', down, server', log)
        BY <1>9, <1>10, <2>1, <3>3, <4>2, GrowsHere
      <4> QED BY <1>2, <3>1, <3>3, <4>3
    <3>4. CASE ~ HasSocket(app)
      BY <1>1, <1>9, <3>1, <3>4 DEF Here, HasSocket
    <3> QED BY <3>2, <3>3, <3>4
  <2>3. CASE m.type \notin Asks
    <3>1. server'.room = server.room
      BY <1>6, <2>3 DEF TakesIt
    <3>2. Here(app', down, server, log)
      BY <1>2, <1>5, <1>8, <2>3, ServedHere DEF m, u
    <3>3. Here(app', down, server', log)
      BY <1>9, <1>10, <2>1, <3>1, <3>2, GrowsHere
    <3>4. CASE down' = down
      BY <1>2, <3>3, <3>4
    <3>5. CASE down' # down
      <4>1. PICK r \in Reply : r.type = "ack" /\ r.id = conn /\ down' = Append(down, r)
        BY <1>6, <2>3, <3>5 DEF TakesIt
      <4>2. r.id # 0
        BY <1>1, <1>6, <2>3, <3>5, <4>1 DEF TakesIt, Mail
      <4>3. Here(app', Append(down, r), server', log)
        BY <1>1, <3>3, <4>1, <4>2, AppendHere DEF Answers
      <4> QED BY <1>2, <4>1, <4>3
    <3> QED BY <3>4, <3>5
  <2> QED BY <2>2, <2>3
<1> QED BY <1>11, <1>12, <1>13, <1>14 DEF Keeping

-----------------------------------------------------------------------------
(* What the server does without being asked *)

LEMMA GreetStep ==
  ASSUME Inv, KeepInv, Greet, ~ log.overlaps PROVE Keeping(app', down', server', log')
<1>1. PICK m \in Reply : m.type \in {"welcome", "update-required"} /\ down' = <<m>>
  BY DEF Greet, Welcome, RefuseHello, Message, Reply
<1>2. app' = app /\ log' = log /\ app.status = "Connecting"
  BY DEF Greet
<1>3. /\ app \in App /\ server \in ServerType /\ Keeping(app, down, server, log)
      /\ Here(app, down, server, log)
  BY Presently
<1>4. Quietly(app, down, server)
  BY <1>2, <1>3 DEF Here, HasSocket, Asked, Answered, Waiting
<1>5. \A i \in DOMAIN <<m>> : <<m>>[i] = m
  OBVIOUS
<1>6. Named(<<m>>) /\ NoAnswer(<<m>>)
  BY <1>1, <1>5 DEF Named, NoAnswer, Answers
<1>7. Here(app, <<m>>, server, log)
  BY <1>4, <1>6 DEF Here, Quietly
<1>8. server' = server \/ server' = [server EXCEPT !.outdated = app.conn]
  BY DEF Greet, Welcome, RefuseHello
<1>9. /\ server' \in ServerType /\ server'.rooms = server.rooms
      /\ server'.started = server.started /\ server'.room = server.room
  <2>1. app.conn \in Nat
    BY <1>3 DEF App
  <2> QED BY <1>3, <1>8, <2>1 DEF ServerType
<1>10. Keeping(app, <<m>>, server', log)
  <2>1. Keeping(app, <<m>>, server, log)
    BY <1>3, <1>7 DEF Keeping
  <2>2. \A r \in Rooms : server.rooms[r] \in RoomState
    BY <1>3 DEF ServerType
  <2>3. Grows(server, server')
    BY <1>9, <2>2 DEF Grows
  <2>4. Store(server', log) /\ Places(app, server')
    BY <2>1, <2>3, GrowsPlaces DEF Keeping
  <2>5. Here(app, <<m>>, server', log)
    BY <1>9, <2>1, <2>3, GrowsHere DEF Keeping, Places
  <2>6. UpOk(app.up, server', log) /\ Remembered(app, server', log)
    BY <1>9, <2>1 DEF Keeping, UpOk, OnTheWay, Remembered
  <2> QED BY <2>4, <2>5, <2>6 DEF Keeping
<1> QED BY <1>1, <1>2, <1>10

LEMMA TellStep ==
  ASSUME Inv, KeepInv, Tell, ~ log.overlaps PROVE Keeping(app', down', server', log')
<1>1. PICK type \in {"state", "snapshot"} : down' = <<Message(type, 0, 0)>>
  BY DEF Tell
<1> DEFINE m == Message(type, 0, 0)
<1>2. m \in Reply /\ m.type \in {"state", "snapshot"}
  BY DEF Message, Reply
<1>3. app' = app /\ log' = log /\ server' = server /\ down = <<>> /\ down' = <<m>>
  BY <1>1 DEF Tell
<1> HIDE DEF m
<1>4. down' = Append(down, m)
  BY <1>3
<1>5. Keeping(app, down, server, log) /\ Here(app, down, server, log) /\ down \in Seq(Reply)
  BY Presently
<1>6. Here(app, Append(down, m), server, log)
  BY <1>2, <1>5, AppendHere DEF Answers
<1> QED BY <1>3, <1>4, <1>5, <1>6 DEF Keeping

\* No item can begin any more in a room that is closed.
LEMMA CloseRoomStep ==
  ASSUME Inv, KeepInv, CloseRoom, ~ log.overlaps PROVE Keeping(app', down', server', log')
<1>1. /\ app \in App /\ down \in Seq(Reply) /\ server \in ServerType
      /\ Store(server, log) /\ Places(app, server) /\ UpOk(app.up, server, log)
      /\ Here(app, down, server, log) /\ Remembered(app, server, log) /\ Kept(app)
  BY Presently
<1> DEFINE m == Message("ended", 0, 0)
<1>2. m \in Reply /\ m.type = "ended"
  BY DEF Message, Reply
<1>3. PICK room \in Rooms :
        /\ IsOpen(room)
        /\ server' = [server EXCEPT !.rooms[room] = "closed"]
        /\ down' = down \/ down' = Append(down, m)
  BY DEF CloseRoom
<1>4. app' = app /\ log' = log
  BY DEF CloseRoom
<1> HIDE DEF m
<1>5. PICK over \in RoomState : over = "closed"
  BY DEF RoomState
<1>6. over # "open" /\ over # "none"
  BY <1>5
<1> DEFINE rs == [server.rooms EXCEPT ![room] = over]
<1>7. server' = [server EXCEPT !.rooms = rs]
  BY <1>3, <1>5
<1>8. server.rooms \in [Rooms -> RoomState]
  BY <1>1 DEF ServerType
<1>9. /\ rs \in [Rooms -> RoomState] /\ rs[room] = over
      /\ \A k \in Rooms : k # room => rs[k] = server.rooms[k]
  BY <1>8
<1> HIDE DEF rs
<1>10. server' \in ServerType /\ server'.rooms = rs /\ server'.room = server.room
       /\ server'.started = server.started
  BY <1>1, <1>7, <1>9 DEF ServerType
<1>11. \A k \in Rooms : (rs[k] = "open" => server.rooms[k] = "open")
                        /\ (server.rooms[k] # "none" => rs[k] # "none")
  BY <1>6, <1>9
<1>12. Grows(server, server')
  BY <1>10, <1>11 DEF Grows
<1>13. Store(server', log) /\ Places(app, server')
  BY <1>1, <1>12, GrowsPlaces
<1>14. UpOk(app.up, server', log)
  BY <1>1, <1>10 DEF UpOk, OnTheWay
<1>15. Remembered(app, server', log)
  <2>1. app.disk.room # 0 => app.disk.room \in Rooms
    BY <1>1 DEF Kept, Places, Made, HasSession
  <2> QED BY <1>1, <1>10, <1>11, <2>1 DEF Remembered
<1>16. Here(app, down, server', log)
  BY <1>1, <1>10, <1>12, GrowsHere DEF Places
<1>17. Here(app, Append(down, m), server', log)
  BY <1>1, <1>2, <1>16, AppendHere DEF Answers
<1> QED BY <1>3, <1>4, <1>13, <1>14, <1>15, <1>16, <1>17 DEF Keeping

-----------------------------------------------------------------------------

LEMMA InitKeeping == Init => KeepInv
<1> SUFFICES ASSUME Init PROVE Keeping(app, down, server, log)
  BY DEF KeepInv
<1> DEFINE u == [c \in Conns |-> <<>>]
           st == [r \in Rooms |-> {}]
           rs == [r \in Rooms |-> "none"]
           rc == [c \in Conns |-> 0]
<1>1. /\ app = NewRun(NoSession, 0, u) /\ down = <<>>
      /\ server = [rooms |-> rs, started |-> st, room |-> rc, outdated |-> 0, refusals |-> 0]
      /\ log = [begun |-> st, late |-> {}, lost |-> {}, overlaps |-> FALSE,
                creates |-> 0, breaks |-> 0, runs |-> 1]
  BY DEF Init
<1>2. /\ rs \in [Rooms -> RoomState] /\ st \in [Rooms -> SUBSET Items] /\ rc \in [Conns -> Place]
      /\ \A r \in Rooms : st[r] = {}
      /\ \A c \in Conns : u[c] = <<>>
  BY DEF RoomState, Place
<1> HIDE DEF u, st, rs, rc
<1>3. /\ app.session.room = 0 /\ app.stored.room = 0 /\ app.discarding.room = 0
      /\ app.ending = 0 /\ app.status = "Idle" /\ app.up = u /\ app.disk.room = 0
  BY <1>1 DEF NewRun, NoSession
<1>4. server \in ServerType
  BY <1>1, <1>2 DEF ServerType
<1>5. LogOk(log) /\ log.begun = st
  BY <1>1, <1>2 DEF LogOk, LogFields
<1>6. Store(server, log)
  BY <1>2, <1>4, <1>5 DEF Store
<1>7. Places(app, server)
  BY <1>3 DEF Places, Made, Place, Discards, IsDiscarding
<1>8. UpOk(app.up, server, log)
  BY <1>2, <1>3 DEF UpOk, OnTheWay
<1>9. Here(app, down, server, log)
  BY <1>1, <1>3 DEF Here, Named, HasSocket
<1>10. Remembered(app, server, log)
  BY <1>3 DEF Remembered
<1> QED BY <1>6, <1>7, <1>8, <1>9, <1>10 DEF Keeping

\* A jam that was created while the stored one was asked about stays so.
LEMMA OverlapsStay == Inv /\ [Next]_vars /\ log.overlaps => log'.overlaps
<1> SUFFICES ASSUME Inv, [Next]_vars, log.overlaps PROVE log'.overlaps
  OBVIOUS
<1>1. "overlaps" \in DOMAIN log
  BY DEF Inv, TypeCorrect
<1>2. CASE log' = log
  BY <1>2
<1>3. CASE Create \/ ItemStarted \/ Break
  BY <1>3 DEF Create, ItemStarted, Break, MoreMayHappen
<1>4. CASE Restart
  <2>1. PICK lost \in {{}, Conns} :
          log' = [log EXCEPT !.runs = @ + 1, !.lost = @ \cup ItemsOn(lost)]
    BY <1>4 DEF Restart
  <2> QED BY <1>1, <2>1
<1>5. \/ log' = log \/ Create \/ ItemStarted \/ Break \/ Restart
  BY DEF Next, vars, CancelCreate, ContinueStored, DiscardStored, End, Read, Reconnect,
         TryAgain, Greet, Serve, Tell, CloseRoom
<1> QED BY <1>2, <1>3, <1>4, <1>5

LEMMA StepKeeping == Inv /\ KeepInv /\ [Next]_vars => KeepInv'
<1> SUFFICES ASSUME Inv, KeepInv, [Next]_vars, ~ log'.overlaps
             PROVE  Keeping(app', down', server', log')
  BY DEF KeepInv
<1>0. ~ log.overlaps
  BY OverlapsStay
<1>1. CASE Create BY <1>0, <1>1, CreateStep
<1>2. CASE CancelCreate BY <1>0, <1>2, CancelCreateStep
<1>3. CASE ContinueStored BY <1>0, <1>3, ContinueStoredStep
<1>4. CASE DiscardStored BY <1>0, <1>4, DiscardStoredStep
<1>5. CASE End BY <1>0, <1>5, EndStep
<1>6. CASE ItemStarted BY <1>0, <1>6, ItemStartedStep
<1>7. CASE Read BY <1>0, <1>7, ReadStep
<1>8. CASE Break BY <1>0, <1>8, BreakStep
<1>9. CASE Reconnect BY <1>0, <1>9, ReconnectStep
<1>10. CASE TryAgain BY <1>0, <1>10, TryAgainStep
<1>11. CASE Restart BY <1>0, <1>11, RestartStep
<1>12. CASE Greet BY <1>0, <1>12, GreetStep
<1>13. CASE Serve BY <1>0, <1>13, ServeStep
<1>14. CASE Tell BY <1>0, <1>14, TellStep
<1>15. CASE CloseRoom BY <1>0, <1>15, CloseRoomStep
<1>16. CASE UNCHANGED vars
  <2>1. app' = app /\ down' = down /\ server' = server /\ log' = log
    BY <1>16 DEF vars
  <2> QED BY <1>0, <2>1, Presently
<1> QED BY <1>1, <1>2, <1>3, <1>4, <1>5, <1>6, <1>7, <1>8, <1>9, <1>10, <1>11, <1>12,
           <1>13, <1>14, <1>15, <1>16 DEF Next

\* Through breaks, refusals and restarts, in any order and number, every item that
\* began in a room that is open is known to the server, under way, lost with a
\* connection or in the outbox on disk, but for those that began while a resume was
\* out (HostSession::started, sendResume and resumed in src/jam/host_session.cpp).
THEOREM StartedAlwaysKept == Spec => []StartedIsKept
<1>1. Spec => [](Inv /\ KeepInv)
  <2>1. Init => Inv /\ KeepInv
    BY InitInv, InitKeeping
  <2>2. Inv /\ KeepInv /\ [Next]_vars => (Inv /\ KeepInv)'
    BY StepInv, StepKeeping
  <2> QED BY <2>1, <2>2, PTL DEF Spec
<1>2. Inv /\ KeepInv => StartedIsKept
  <2> SUFFICES ASSUME Inv, KeepInv, IsOpen(app.disk.room), ~ log.overlaps
               PROVE  log.begun[app.disk.room] \subseteq Known(app.disk.room) \cup log.late
    BY DEF StartedIsKept
  <2>1. Remembered(app, server, log)
    BY Presently
  <2>2. ItemsIn(app.up) = ItemsOn(Conns)
    BY DEF ItemsIn, ItemsOn
  <2> QED BY <2>1, <2>2 DEF Remembered, IsOpen, Known
<1> QED BY <1>1, <1>2, PTL
=============================================================================
