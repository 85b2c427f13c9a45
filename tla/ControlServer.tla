---------------------------- MODULE ControlServer ----------------------------
(***************************************************************************)
(* The control server of src/control.c: one thread that polls a listener and *)
(* up to MAX_CLIENTS connections, cuts what it receives into lines, answers   *)
(* each line, and ends on shutdown or on a signal.                            *)
(*                                                                           *)
(* A connection carries a stream that recv hands out in pieces of any size.    *)
(* The stream is a sequence of symbols: Part for text inside a line, and the   *)
(* end of a line, which stands for the request the line makes.  The requests   *)
(* of a connection are numbered.  What a command does is the subject of the    *)
(* other modules.                                                             *)
(***************************************************************************)
EXTENDS Naturals, Sequences, FiniteSets, FiniteSetsExt

CONSTANTS
    Conns,        \* the connections made in a behaviour (numbers)
    MAX_CLIENTS,
    Room,         \* sizeof(buf) - 1, in symbols
    Token,        \* "yes" when the server was given a token
    Says,         \* per connection, what its client may do
    MaxUnread,    \* replies a connection holds until its client reads
    MaxInbox,     \* bound: symbols waiting to be received
    MaxRequests   \* bound: requests, per connection

Requests == {"hello", "bad_hello", "command", "shutdown"}

ASSUME ControlAssumptions ==
    /\ Conns \subseteq Nat \ {0}
    /\ {MAX_CLIENTS, Room, MaxUnread} \subseteq Nat \ {0}
    /\ Token \in {"yes", "no"}
    /\ Says \in [Conns -> SUBSET (Requests \cup {"blank", "part", "hangup"})]
    /\ MaxInbox \in Nat
    /\ MaxRequests \in [Conns -> Nat]

VARIABLES
    peer,      \* per connection, the client's end: "none", "there", "gone"
    served,    \* the server's end: "none", "queued", "open", "closed"
    inbox,     \* symbols sent and not yet received
    unread,    \* replies sent and not yet read
    asked,     \* the client: requests sent
    line,      \* the client: symbols sent of the current line
    slots,     \* g_clients: [conn, authenticated, buf], conn 0 for fd < 0
    srv,       \* the thread: [pc, polled, reply], reply [id, then] the answer to send
    stop,      \* the flag the signal handler sets
    first,     \* history: the first request: "none", "hello" with the right token, "other"
    faulty,    \* history: the connections that broke the protocol
    answered,  \* history: the number of the last request answered
    executed   \* history: <<connection, request>> for the commands and shutdowns carried out

client == <<peer, asked, line, first, faulty>>
wire == <<inbox, unread>>
server == <<served, slots, srv, answered, executed>>
vars == <<client, wire, server, stop>>

Part == [kind |-> "part", id |-> 0]
Free == [conn |-> 0, authenticated |-> "no", buf |-> <<>>]
NoReply == [id |-> 0, then |-> "none"]

Init ==
    /\ peer = [c \in Conns |-> "none"]
    /\ served = [c \in Conns |-> "none"]
    /\ inbox = [c \in Conns |-> <<>>]
    /\ unread = [c \in Conns |-> 0]
    /\ asked = [c \in Conns |-> 0]
    /\ line = [c \in Conns |-> 0]
    /\ slots = [s \in 1..MAX_CLIENTS |-> Free]
    /\ srv = [pc |-> "poll", polled |-> {}, reply |-> NoReply]
    /\ stop = "no"
    /\ first = [c \in Conns |-> "none"]
    /\ faulty = {}
    /\ answered = [c \in Conns |-> 0]
    /\ executed = {}

-----------------------------------------------------------------------------
(* The clients, and the signal. *)

Connect(c) ==
    /\ peer[c] = "none"
    /\ srv.pc # "exited"
    /\ peer' = [peer EXCEPT ![c] = "there"]
    /\ served' = [served EXCEPT ![c] = "queued"]
    /\ UNCHANGED <<asked, line, first, faulty, wire, slots, srv, answered, executed, stop>>

\* What a client sends before it is accepted waits for that.
MaySend(c) ==
    /\ peer[c] = "there"
    /\ served[c] = "open"
    /\ Len(inbox[c]) < MaxInbox

\* Text of a line; a line whose text fills the buffer is too long.
SendPart(c) ==
    /\ MaySend(c)
    /\ line[c] < Room /\ "part" \in Says[c]
    /\ inbox' = [inbox EXCEPT ![c] = Append(@, Part)]
    /\ line' = [line EXCEPT ![c] = @ + 1]
    /\ faulty' = IF line'[c] = Room THEN faulty \cup {c} ELSE faulty
    /\ UNCHANGED <<peer, asked, first, unread, server, stop>>

\* The end of a line that makes a request.  With a token the first one must be hello.
SendRequest(c, kind) ==
    LET right == \/ Token = "no" \/ kind = "hello"
                 \/ first[c] = "hello" /\ kind # "bad_hello"
    IN  /\ MaySend(c)
        /\ asked[c] < MaxRequests[c]
        /\ asked' = [asked EXCEPT ![c] = @ + 1]
        /\ line' = [line EXCEPT ![c] = 0]
        /\ inbox' = [inbox EXCEPT ![c] = Append(@, [kind |-> kind, id |-> asked'[c]])]
        /\ first' = IF first[c] # "none" THEN first
                    ELSE [first EXCEPT ![c] = IF kind = "hello" THEN "hello" ELSE "other"]
        /\ faulty' = IF right THEN faulty ELSE faulty \cup {c}
        /\ UNCHANGED <<peer, unread, server, stop>>

\* An empty line.
SendBlank(c) ==
    /\ MaySend(c)
    /\ line[c] = 0 /\ "blank" \in Says[c]
    /\ inbox' = [inbox EXCEPT ![c] = Append(@, [kind |-> "blank", id |-> 0])]
    /\ UNCHANGED <<client, unread, server, stop>>

Read(c) ==
    /\ unread[c] > 0
    /\ unread' = [unread EXCEPT ![c] = @ - 1]
    /\ UNCHANGED <<client, inbox, server, stop>>

\* (Nothing is modelled of a client whose connection the server has closed.)
Hangup(c) ==
    /\ peer[c] = "there"
    /\ served[c] # "closed" /\ "hangup" \in Says[c]
    /\ peer' = [peer EXCEPT ![c] = "gone"]
    /\ unread' = [unread EXCEPT ![c] = 0]
    /\ UNCHANGED <<asked, line, first, faulty, inbox, server, stop>>

Signal ==
    /\ stop = "no"
    /\ stop' = "yes"
    /\ UNCHANGED <<client, wire, server>>

-----------------------------------------------------------------------------
(* edog_control_run *)

Queued == {c \in Conns : served[c] = "queued"}
Readable(c) == inbox[c] # <<>> \/ peer[c] = "gone"
Ready == {s \in 1..MAX_CLIENTS : slots[s].conn # 0 /\ Readable(slots[s].conn)}

\* The loop's condition, and a poll that returns events.  One that times out or is
\* interrupted only comes back to the condition.
Poll ==
    /\ srv.pc = "poll"
    /\ \/ /\ stop = "yes"
          /\ srv' = [srv EXCEPT !.pc = "end"]
       \/ /\ stop = "no"
          /\ Ready # {} \/ Queued # {}
          /\ srv' = [srv EXCEPT !.pc = IF Queued # {} THEN "accept" ELSE "service",
                                !.polled = Ready]
    /\ UNCHANGED <<client, wire, served, slots, answered, executed, stop>>

FreeSlots == {s \in 1..MAX_CLIENTS : slots[s].conn = 0}

\* accept, the check that the peer's user is allowed, and the first free slot; else an
\* error and close.
Accept(c, allowed) ==
    /\ srv.pc = "accept"
    /\ c \in Queued
    /\ IF ~allowed \/ FreeSlots = {}
       THEN /\ served' = [served EXCEPT ![c] = "closed"]
            /\ UNCHANGED slots
       ELSE /\ served' = [served EXCEPT ![c] = "open"]
            /\ slots' = [slots EXCEPT ![Min(FreeSlots)] = [Free EXCEPT !.conn = c]]
    /\ srv' = [srv EXCEPT !.pc = "service"]
    /\ UNCHANGED <<client, wire, answered, executed, stop>>

Current == Min(srv.polled)   \* map[k]

ServiceDone ==
    /\ srv.pc = "service"
    /\ srv.polled = {}
    /\ srv' = [srv EXCEPT !.pc = "poll"]
    /\ UNCHANGED <<client, wire, served, slots, answered, executed, stop>>

\* drop_client, after which the loop goes on with the next polled client.
Drop(s) ==
    /\ served' = [served EXCEPT ![slots[s].conn] = "closed"]
    /\ inbox' = [inbox EXCEPT ![slots[s].conn] = <<>>]
    /\ unread' = [unread EXCEPT ![slots[s].conn] = 0]
    /\ slots' = [slots EXCEPT ![s] = Free]
    /\ srv' = [pc |-> "service", polled |-> srv.polled \ {s}, reply |-> NoReply]

-----------------------------------------------------------------------------
(* service_client and handle_line *)

\* recv fills the buffer with some of what is there.  It returns no data when the client
\* has hung up (perhaps losing what it had sent), or when the buffer has no room.
Recv ==
    /\ srv.pc = "service"
    /\ srv.polled # {}
    /\ LET s == Current
           c == slots[s].conn
           buf == slots[s].buf
       IN  \/ /\ peer[c] = "gone" \/ Len(buf) = Room
              /\ Drop(s)
           \/ \E n \in 1..Min({Len(inbox[c]), Room - Len(buf)}) :
              /\ slots' = [slots EXCEPT ![s].buf = buf \o SubSeq(inbox[c], 1, n)]
              /\ inbox' = [inbox EXCEPT ![c] = SubSeq(@, n + 1, Len(@))]
              /\ srv' = [srv EXCEPT !.pc = "lines"]
              /\ UNCHANGED <<served, unread>>
    /\ UNCHANGED <<client, answered, executed, stop>>

\* A slip in Admitted: only hello looks at the token.
AdmittedOnceOpen(kind, authenticated) == Token = "no" \/ kind # "bad_hello"

\* handle_line: hello needs the right token, every other request a connection that has
\* said hello.
Admitted(kind, authenticated) ==
    IF kind \in {"hello", "bad_hello"} THEN Token = "no" \/ kind = "hello"
    ELSE Token = "no" \/ authenticated = "yes"

\* What follows the reply.
After(kind, authenticated) ==
    IF ~Admitted(kind, authenticated) THEN "drop"
    ELSE IF kind = "shutdown" THEN "exit" ELSE "lines"

\* The ends of the lines in the buffer.
Ends(buf) == {i \in 1..Len(buf) : buf[i].kind # "part"}

\* A slip in LineEnd: strrchr instead of strchr.
LineEndLast(buf) == Max(Ends(buf))

LineEnd(buf) == Min(Ends(buf))

HandleLine ==
    /\ srv.pc = "lines"
    /\ LET s == Current
           buf == slots[s].buf
           request == buf[LineEnd(buf)]
           kind == request.kind
           admitted == Admitted(kind, slots[s].authenticated)
       IN  /\ Ends(buf) # {}
           /\ slots' = [slots EXCEPT
                   ![s].buf = SubSeq(buf, LineEnd(buf) + 1, Len(buf)),
                   ![s].authenticated = IF kind \in {"hello", "bad_hello"} /\ admitted
                                        THEN "yes" ELSE @]
           /\ srv' = IF kind = "blank" THEN srv
                     ELSE [srv EXCEPT !.pc = "reply",
                               !.reply = [id |-> request.id,
                                          then |-> After(kind, slots[s].authenticated)]]
           /\ executed' = IF kind \in {"command", "shutdown"} /\ admitted
                          THEN executed \cup {<<slots[s].conn, kind>>} ELSE executed
    /\ UNCHANGED <<client, wire, served, answered, stop>>

\* A slip in TooLong: one symbol too strict.
TooLongByOne(buf) == Len(buf) + 1 >= Room

TooLong(buf) == Len(buf) >= Room

\* No complete line is left: the rest stays for the next time, unless it fills the buffer.
LinesDone ==
    /\ srv.pc = "lines"
    /\ Ends(slots[Current].buf) = {}
    /\ srv' = IF TooLong(slots[Current].buf)
              THEN [srv EXCEPT !.pc = "reply", !.reply = [id |-> 0, then |-> "drop"]]
              ELSE [srv EXCEPT !.pc = "service", !.polled = @ \ {Current}]
    /\ UNCHANGED <<client, wire, served, slots, answered, executed, stop>>

\* Slips in Resume: recv again before the other lines of the buffer are looked at; the
\* client served next overwrites the decision to exit.
ResumeReceives(then) == IF then = "exit" THEN "end" ELSE "service"
ResumeOverwritten(then) ==
    IF then = "exit" /\ srv.polled = {Current} THEN "end" ELSE "lines"

\* Where service_client goes on after a reply.
Resume(then) == IF then = "exit" THEN "end" ELSE "lines"

\* send_all blocks while the connection takes no more, and gives up when it is broken;
\* a signal does not end it.
Reply ==
    /\ srv.pc = "reply"
    /\ LET s == Current
           c == slots[s].conn
       IN  /\ unread[c] < MaxUnread \/ peer[c] = "gone"
           /\ answered' = IF srv.reply.id = 0 THEN answered
                          ELSE [answered EXCEPT ![c] = srv.reply.id]
           /\ IF srv.reply.then = "drop" THEN Drop(s)
              ELSE /\ srv' = [srv EXCEPT !.pc = Resume(srv.reply.then), !.reply = NoReply]
                   /\ unread' = IF peer[c] = "gone" THEN unread
                                ELSE [unread EXCEPT ![c] = @ + 1]
                   /\ UNCHANGED <<served, slots, inbox>>
    /\ UNCHANGED <<client, executed, stop>>

\* Every client is dropped and the listener closed.
End ==
    /\ srv.pc = "end"
    /\ served' = [c \in Conns |-> IF served[c] = "none" THEN "none" ELSE "closed"]
    /\ slots' = [s \in 1..MAX_CLIENTS |-> Free]
    /\ inbox' = [c \in Conns |-> <<>>]
    /\ unread' = [c \in Conns |-> 0]
    /\ srv' = [srv EXCEPT !.pc = "exited", !.polled = {}]
    /\ UNCHANGED <<client, answered, executed, stop>>

Exited == srv.pc = "exited" /\ UNCHANGED vars

-----------------------------------------------------------------------------
Client(c) ==
    \/ Connect(c) \/ SendPart(c) \/ SendBlank(c) \/ Read(c) \/ Hangup(c)
    \/ \E kind \in Says[c] \cap Requests : SendRequest(c, kind)

Server ==
    \/ Poll \/ (\E c \in Conns, allowed \in BOOLEAN : Accept(c, allowed)) \/ ServiceDone
    \/ Recv \/ HandleLine \/ LinesDone \/ Reply \/ End

Next == (\E c \in Conns : Client(c)) \/ Signal \/ Server \/ Exited

Spec == Init /\ [][Next]_vars

(* The thread is scheduled, and clients read their replies.                               *)
FairSpec == Spec /\ WF_vars(Server) /\ \A c \in Conns : WF_vars(Read(c))

-----------------------------------------------------------------------------
(* docs/PROTOCOL.md "the first request on every connection must be `hello`": a command is   *)
(* only executed on a connection that began with the right token, whatever went before in   *)
(* the slot it was given.                                                                 *)
AuthBeforeCommand ==
    Token = "yes" => \A e \in executed : first[e[1]] = "hello"

(* docs/PROTOCOL.md "Requests on one connection are answered in order": none is left out    *)
(* or answered twice, however recv cuts the stream.                                        *)
AnswersInOrder ==
    [][\A c \in Conns : answered'[c] \in {answered[c], answered[c] + 1}]_vars

(* A client that keeps to the protocol loses its connection only by hanging up, or when     *)
(* the server ends (control.c:317): neither a line that just fits the buffer nor one that   *)
(* comes in pieces is taken for too long.                                                 *)
DropsAreDeserved ==
    [][\A c \in Conns : served[c] = "open" /\ served'[c] = "closed" =>
          c \in faulty \/ peer[c] = "gone" \/ srv.pc = "end"]_vars

(* A request is answered, unless the connection or the server ends first.                  *)
RequestsAnswered ==
    \A c \in Conns :
        (asked[c] > answered[c]) ~>
            (asked[c] = answered[c] \/ served[c] = "closed" \/ peer[c] = "gone")

(* A signal and a shutdown end the server, whatever else was waiting to be served.          *)
StopEnds ==
    (stop = "yes" \/ \E c \in Conns : <<c, "shutdown">> \in executed) ~> (srv.pc = "exited")

=============================================================================
