------------------------ MODULE ControlServerProofs ------------------------
(***************************************************************************)
(* For any number of clients, slots and requests, any size of the line buffer,  *)
(* and however recv cuts the streams: requests are answered once and in order,  *)
(* and with a token no command is executed before the right hello.              *)
(***************************************************************************)
EXTENDS ControlServer, WellFoundedInduction, SequenceTheorems, TLAPS

Slots == 1..MAX_CLIENTS
Blank == [kind |-> "blank", id |-> 0]
Symbols == {Part, Blank} \cup [kind : Requests, id : Nat \ {0}]

(* The stream holds the requests after number from up to number to, in order.           *)
Holds(stream, from, to) ==
    /\ stream \in Seq(Symbols)
    /\ \A i \in 1..Len(stream) : stream[i].id # 0 => stream[i].id > from /\ stream[i].id <= to
    /\ \A k \in Nat : k > from /\ k <= to => \E i \in 1..Len(stream) : stream[i].id = k
    /\ \A i, j \in 1..Len(stream) : i < j /\ stream[j].id # 0 => stream[i].id < stream[j].id

(* What is still to come of a client's stream, and how far it has been dealt with.        *)
Stream(s) == slots[s].buf \o inbox[slots[s].conn]
Handled(s) == IF srv.reply.id # 0 /\ s = Current THEN srv.reply.id ELSE answered[slots[s].conn]

Typed ==
    /\ peer \in [Conns -> {"none", "there", "gone"}]
    /\ inbox \in [Conns -> Seq(Symbols)]
    /\ asked \in [Conns -> Nat] /\ answered \in [Conns -> Nat]
    /\ first \in [Conns -> {"none", "hello", "other"}]
    /\ served \in [Conns -> {"none", "queued", "open", "closed"}]
    /\ slots \in [Slots -> [conn : Conns \cup {0}, authenticated : {"yes", "no"},
                            buf : Seq(Symbols)]]
    /\ srv \in [pc : {"poll", "accept", "service", "lines", "reply", "end", "exited"},
                polled : SUBSET Slots,
                reply : [id : Nat, then : {"none", "drop", "exit", "lines"}]]
    /\ executed \subseteq Conns \X {"command", "shutdown"}

(* A connection that was not accepted yet has sent nothing.                            *)
ConnInv == \A c \in Conns :
    /\ peer[c] = "none" => served[c] = "none"
    /\ asked[c] = 0 => first[c] = "none"
    /\ served[c] \in {"none", "queued"} => inbox[c] = <<>> /\ asked[c] = 0 /\ answered[c] = 0

(* Where the thread is.                                                             *)
SrvInv ==
    /\ \A s \in srv.polled : slots[s].conn # 0
    /\ srv.pc \in {"lines", "reply"} => srv.polled # {}
    /\ srv.pc # "reply" => srv.reply = NoReply
    /\ srv.pc = "reply" /\ srv.reply.id # 0 => srv.reply.id = answered[slots[Current].conn] + 1
    /\ srv.pc = "reply" /\ srv.reply.id = 0 => srv.reply.then = "drop"

(* Each slot serves a connection of its own.                                          *)
OwnInv == \A s \in Slots : slots[s].conn # 0 =>
    /\ served[slots[s].conn] = "open"
    /\ \A t \in Slots : slots[t].conn = slots[s].conn => t = s

(* The stream goes on after the last request handled.  It holds a hello as its first      *)
(* request only if that is what the client began with.                                 *)
StreamInv(stream, handled, c) ==
    /\ Holds(stream, handled, asked[c])
    /\ handled <= asked[c]
    /\ \A i \in 1..Len(stream) :
           stream[i].id = 1 /\ stream[i].kind = "hello" => first[c] = "hello"

StreamsInv == \A s \in Slots : slots[s].conn # 0 => StreamInv(Stream(s), Handled(s), slots[s].conn)

(* A slot is authenticated only if the first request was the right hello; before that no  *)
(* request was handled, but for one that ends the connection.                           *)
AuthInv == Token = "yes" => \A s \in Slots : slots[s].conn # 0 =>
    IF slots[s].authenticated = "yes" THEN first[slots[s].conn] = "hello"
    ELSE Handled(s) = 0 \/ (s = Current /\ srv.reply.then = "drop")

IInv == Typed /\ ConnInv /\ SrvInv /\ OwnInv /\ StreamsInv /\ AuthInv /\ AuthBeforeCommand

-----------------------------------------------------------------------------
(* Sets and sequences. *)

LEMMA MinIs ==
    ASSUME NEW S \in SUBSET Nat, S # {}
    PROVE  Min(S) \in S /\ \A y \in S : Min(S) <= y
<1>1. \E R : IsWellFoundedOn(R, Nat) /\ \A x, y \in Nat : <<y, x>> \in R <=> y < x
  <2>1. \A x, y \in Nat : <<y, x>> \in OpToRel(<, Nat) <=> y < x
    BY Zenon DEF OpToRel
  <2> QED
    BY <2>1, NatLessThanWellFounded, Zenon
<1>2. PICK R : IsWellFoundedOn(R, Nat) /\ \A x, y \in Nat : <<y, x>> \in R <=> y < x
  BY <1>1
<1>3. PICK x \in S : \A y \in S : ~(<<y, x>> \in R)
  BY <1>2, WFMin
<1>4. ASSUME NEW y \in S PROVE x <= y
  <2>1. x \in Nat /\ y \in Nat
    OBVIOUS
  <2>2. ~(y < x)
    BY <1>2, <1>3, <2>1, Zenon
  <2> QED
    BY <2>1, <2>2
<1> QED
  BY <1>4 DEF Min

LEMMA MinOfTwo ==
    ASSUME NEW a \in Int, NEW b \in Int
    PROVE  Min({a, b}) \in Int /\ Min({a, b}) <= a
<1>1. \E x \in {a, b} : \A y \in {a, b} : x <= y
  OBVIOUS
<1>2. Min({a, b}) \in {a, b} /\ \A y \in {a, b} : Min({a, b}) <= y
  BY <1>1 DEF Min
<1> QED
  BY <1>2

(* Receiving n symbols moves them from the connection to the buffer: the stream is the    *)
(* same.                                                                              *)
LEMMA RecvKeepsStream ==
    ASSUME NEW buf \in Seq(Symbols), NEW q \in Seq(Symbols), NEW n \in 1..Len(q)
    PROVE  /\ buf \o SubSeq(q, 1, n) \in Seq(Symbols)
           /\ SubSeq(q, n + 1, Len(q)) \in Seq(Symbols)
           /\ (buf \o SubSeq(q, 1, n)) \o SubSeq(q, n + 1, Len(q)) = buf \o q
<1> DEFINE front == SubSeq(q, 1, n)
<1> DEFINE back == SubSeq(q, n + 1, Len(q))
<1>1. Len(q) \in Nat /\ \A i \in 1..Len(q) : q[i] \in Symbols
  BY LenProperties
<1>2. front \in Seq(Symbols) /\ back \in Seq(Symbols)
  BY <1>1, SubSeqProperties
<1>3. front \o back = q
  <2>1. 1 \in 1..Len(q) + 1 /\ n \in 1 - 1..Len(q) /\ Len(q) \in n..Len(q)
    BY <1>1
  <2>2. front \o back = SubSeq(q, 1, Len(q))
    BY <2>1, ConcatAdjacentSubSeq
  <2> QED
    BY <2>2, SubSeqFull
<1> HIDE DEF front, back
<1>4. buf \o front \in Seq(Symbols) /\ (buf \o front) \o back = buf \o (front \o back)
  BY <1>2, ConcatAssociative, ConcatProperties
<1>5. buf \o front \in Seq(Symbols) /\ (buf \o front) \o back = buf \o q
  BY <1>3, <1>4
<1> QED
  BY <1>2, <1>5 DEF front, back

(* Sending appends to the stream.                                                     *)
LEMMA SendAppends ==
    ASSUME NEW buf \in Seq(Symbols), NEW q \in Seq(Symbols), NEW x \in Symbols
    PROVE  /\ Append(q, x) \in Seq(Symbols)
           /\ buf \o Append(q, x) = Append(buf \o q, x)
<1>1. <<x>> \in Seq(Symbols) /\ buf \o q \in Seq(Symbols)
  BY ConcatProperties
<1>2. buf \o (q \o <<x>>) = (buf \o q) \o <<x>>
  BY <1>1, ConcatAssociative
<1> QED
  BY <1>1, <1>2, AppendIsConcat, AppendProperties

(* Taking a line off the buffer takes it off the stream.                               *)
LEMMA LineTaken ==
    ASSUME NEW buf \in Seq(Symbols), NEW q \in Seq(Symbols), NEW e \in 1..Len(buf)
    PROVE  /\ SubSeq(buf, e + 1, Len(buf)) \in Seq(Symbols)
           /\ SubSeq(buf, e + 1, Len(buf)) \o q = SubSeq(buf \o q, e + 1, Len(buf \o q))
           /\ e \in 1..Len(buf \o q)
           /\ \A i \in 1..e : (buf \o q)[i] = buf[i]
<1> DEFINE st == buf \o q
<1> DEFINE rest == SubSeq(buf, e + 1, Len(buf))
<1>1. /\ Len(buf) \in Nat /\ Len(q) \in Nat /\ st \in Seq(Symbols)
      /\ Len(st) = Len(buf) + Len(q)
      /\ \A i \in 1..Len(st) : st[i] = IF i <= Len(buf) THEN buf[i] ELSE q[i - Len(buf)]
      /\ \A i \in 1..Len(buf) : buf[i] \in Symbols
      /\ \A i \in 1..Len(st) : st[i] \in Symbols
  BY LenProperties, ConcatProperties
<1>2. /\ rest \in Seq(Symbols) /\ Len(rest) = Len(buf) - e
      /\ \A i \in 1..Len(buf) - e : rest[i] = buf[e + i]
  BY <1>1, SubSeqProperties
<1> HIDE DEF rest
<1>3. /\ rest \o q \in Seq(Symbols) /\ Len(rest \o q) = Len(buf) - e + Len(q)
      /\ \A i \in 1..Len(buf) - e + Len(q) :
             (rest \o q)[i] = IF i <= Len(buf) - e THEN rest[i] ELSE q[i - (Len(buf) - e)]
  <2>1. /\ rest \o q \in Seq(Symbols) /\ Len(rest \o q) = Len(rest) + Len(q)
        /\ \A i \in 1..Len(rest) + Len(q) :
               (rest \o q)[i] = IF i <= Len(rest) THEN rest[i] ELSE q[i - Len(rest)]
    BY <1>2, ConcatProperties, Zenon
  <2> QED
    BY <1>2, <2>1
<1>4. /\ SubSeq(st, e + 1, Len(st)) \in Seq(Symbols)
      /\ Len(SubSeq(st, e + 1, Len(st))) = Len(st) - e
      /\ \A i \in 1..Len(st) - e : SubSeq(st, e + 1, Len(st))[i] = st[e + i]
  BY <1>1, SubSeqProperties
<1> HIDE DEF st
<1>5. rest \o q = SubSeq(st, e + 1, Len(st))
  <2>1. Len(rest \o q) = Len(SubSeq(st, e + 1, Len(st)))
    BY <1>1, <1>3, <1>4
  <2>2. \A i \in 1..Len(rest \o q) : (rest \o q)[i] = SubSeq(st, e + 1, Len(st))[i]
    BY <1>1, <1>2, <1>3, <1>4
  <2> QED
    BY <1>3, <1>4, <2>1, <2>2, SeqEqual
<1>6. e \in 1..Len(st) /\ \A i \in 1..e : st[i] = buf[i]
  BY <1>1
<1> QED
  BY <1>2, <1>5, <1>6 DEF st, rest

-----------------------------------------------------------------------------
(* Streams. *)

(* A request that is sent is the last of the stream; text and an empty line are none.     *)
LEMMA HoldsAppend ==
    ASSUME NEW st, NEW from \in Nat, NEW to \in Nat, Holds(st, from, to), from <= to,
           NEW x \in Symbols, NEW upto \in {to, to + 1},
           x.id = IF upto = to THEN 0 ELSE to + 1
    PROVE  /\ Holds(Append(st, x), from, upto)
           /\ \A i \in 1..Len(Append(st, x)) : Append(st, x)[i] = x \/
                  \E k \in 1..Len(st) : Append(st, x)[i] = st[k]
<1> DEFINE n == Len(st)
<1> DEFINE ap == Append(st, x)
<1>1. /\ n \in Nat /\ ap \in Seq(Symbols) /\ Len(ap) = n + 1
      /\ \A i \in 1..n : ap[i] = st[i]
      /\ ap[n + 1] = x
  BY LenProperties, AppendProperties DEF Holds
<1>2. \A s \in Symbols : s.id \in Nat
  BY DEF Symbols, Part, Blank
<1>3. \A i \in 1..n : st[i].id \in Nat
  BY <1>2, LenProperties DEF Holds
<1> HIDE DEF n, ap
<1>4. \A i \in 1..n + 1 : i = n + 1 \/ i \in 1..n
  BY <1>1
<1>5. Holds(ap, from, upto)
  <2>1. \A i \in 1..Len(ap) : ap[i].id # 0 => ap[i].id > from /\ ap[i].id <= upto
    BY <1>1, <1>3, <1>4 DEF Holds, n
  <2>2. ASSUME NEW k \in Nat, k > from, k <= upto PROVE \E i \in 1..Len(ap) : ap[i].id = k
    <3>1. CASE k <= to
      <4>1. PICK i \in 1..n : st[i].id = k
        BY <2>2, <3>1 DEF Holds, n
      <4> QED
        BY <1>1, <4>1
    <3>2. CASE k = to + 1
      BY <1>1, <2>2, <3>2
    <3> QED
      BY <2>2, <3>1, <3>2
  <2>3. ASSUME NEW i \in 1..Len(ap), NEW j \in 1..Len(ap), i < j, ap[j].id # 0
        PROVE  ap[i].id < ap[j].id
    <3>1. i \in 1..n
      BY <1>1, <2>3
    <3>2. CASE j \in 1..n
      BY <1>1, <2>3, <3>1, <3>2 DEF Holds, n
    <3>3. CASE j = n + 1
      BY <1>1, <1>3, <2>3, <3>1, <3>3 DEF Holds, n
    <3> QED
      BY <1>1, <3>2, <3>3
  <2> QED
    BY <1>1, <2>1, <2>2, <2>3 DEF Holds
<1>6. \A i \in 1..Len(ap) : ap[i] = x \/ \E k \in 1..n : ap[i] = st[k]
  BY <1>1, <1>4
<1> QED
  BY <1>5, <1>6 DEF n, ap

(* The first line of a stream is the next request to answer, and what follows the line    *)
(* holds the requests after it.                                                       *)
LEMMA HoldsRest ==
    ASSUME NEW st, NEW from \in Nat, NEW to \in Nat, Holds(st, from, to), from <= to,
           NEW e \in 1..Len(st), \A i \in 1..e - 1 : st[i] = Part,
           NEW upto \in Nat, upto = IF st[e].id = 0 THEN from ELSE st[e].id
    PROVE  /\ st[e].id # 0 => st[e].id = from + 1
           /\ upto <= to
           /\ Holds(SubSeq(st, e + 1, Len(st)), upto, to)
           /\ \A i \in 1..Len(SubSeq(st, e + 1, Len(st))) :
                  \E k \in 1..Len(st) : SubSeq(st, e + 1, Len(st))[i] = st[k]
<1> DEFINE n == Len(st)
<1> DEFINE rest == SubSeq(st, e + 1, n)
<1>1. n \in Nat /\ st \in Seq(Symbols) /\ \A i \in 1..n : st[i] \in Symbols
  BY LenProperties DEF Holds
<1>2. /\ rest \in Seq(Symbols) /\ Len(rest) = n - e
      /\ \A i \in 1..n - e : rest[i] = st[e + i]
  BY <1>1, SubSeqProperties
<1>3. \A s \in Symbols : s.id \in Nat
  BY DEF Symbols, Part, Blank
<1>4. \A i \in 1..n : st[i].id \in Nat
  BY <1>1, <1>3
<1>5. \A i \in 1..e - 1 : st[i].id = 0
  BY DEF Part
<1> HIDE DEF n, rest
<1>6. st[e].id # 0 => st[e].id = from + 1 /\ st[e].id <= to
  <2> SUFFICES ASSUME st[e].id # 0 PROVE st[e].id = from + 1 /\ st[e].id <= to
    OBVIOUS
  <2>1. st[e].id > from /\ st[e].id <= to /\ st[e].id \in Nat
    BY <1>4 DEF Holds, n
  <2>2. PICK i \in 1..n : st[i].id = from + 1
    BY <2>1 DEF Holds, n
  <2>3. ~(i < e)
    BY <1>5, <2>2
  <2>4. i > e => st[e].id < st[i].id
    BY <2>2 DEF Holds, n
  <2> QED
    BY <2>1, <2>2, <2>3, <2>4, <1>1 DEF n
<1>7. \A i \in 1..n - e : e + i \in 1..n /\ e < e + i
  BY <1>1 DEF n
<1>8. Holds(rest, upto, to)
  <2>1. ASSUME NEW i \in 1..Len(rest), rest[i].id # 0
        PROVE  rest[i].id > upto /\ rest[i].id <= to
    <3>1. rest[i] = st[e + i] /\ e + i \in 1..n /\ e < e + i
      BY <1>2, <1>7
    <3>2. st[e + i].id > from /\ st[e + i].id <= to /\ st[e].id < st[e + i].id
      BY <2>1, <3>1 DEF Holds, n
    <3> QED
      BY <3>1, <3>2
  <2>2. ASSUME NEW k \in Nat, k > upto, k <= to PROVE \E i \in 1..Len(rest) : rest[i].id = k
    <3>1. k > from
      BY <1>6, <2>2
    <3>2. PICK j \in 1..n : st[j].id = k
      BY <2>2, <3>1 DEF Holds, n
    <3>3. j > e
      BY <1>1, <1>5, <2>2, <3>1, <3>2 DEF n
    <3>4. j - e \in 1..n - e /\ e + (j - e) = j
      BY <1>1, <3>3 DEF n
    <3> QED
      BY <1>2, <3>2, <3>4
  <2>3. ASSUME NEW i \in 1..Len(rest), NEW j \in 1..Len(rest), i < j, rest[j].id # 0
        PROVE  rest[i].id < rest[j].id
    <3>1. rest[i] = st[e + i] /\ rest[j] = st[e + j] /\ e + i \in 1..n /\ e + j \in 1..n
      BY <1>2, <1>7
    <3>2. e + i < e + j
      BY <1>2, <2>3
    <3> QED
      BY <2>3, <3>1, <3>2 DEF Holds, n
  <2> QED
    BY <1>2, <2>1, <2>2, <2>3 DEF Holds
<1>9. \A i \in 1..Len(rest) : \E k \in 1..n : rest[i] = st[k]
  BY <1>2, <1>7
<1> QED
  BY <1>6, <1>8, <1>9 DEF n, rest

-----------------------------------------------------------------------------
(* The invariant holds at the start, and every step keeps it. *)

LEMMA InitIInv == Init => IInv
<1> SUFFICES ASSUME Init PROVE IInv
  OBVIOUS
<1>1. \A s \in Slots : slots[s].conn = 0
  BY DEF Init, Free, Slots
<1>2. Typed
  BY DEF Init, Typed, Free, NoReply, Slots
<1> QED
  BY <1>1, <1>2 DEF IInv, ConnInv, SrvInv, OwnInv, StreamsInv, AuthInv, AuthBeforeCommand,
                    Init, NoReply

(* The slot of a connection that is served is a slot of that connection only.            *)
LEMMA SlotTypes ==
    ASSUME IInv, NEW s \in Slots, slots[s].conn # 0
    PROVE  /\ slots[s].conn \in Conns
           /\ slots[s].buf \in Seq(Symbols) /\ inbox[slots[s].conn] \in Seq(Symbols)
           /\ Handled(s) \in Nat /\ asked[slots[s].conn] \in Nat
BY DEF IInv, Typed, Handled

(* What a client sends becomes the end of its stream.                                  *)
LEMMA SendKeeps ==
    ASSUME IInv, NEW c \in Conns, NEW x \in Symbols, served[c] = "open",
           NEW n \in {asked[c], asked[c] + 1},
           x.id = IF n = asked[c] THEN 0 ELSE asked[c] + 1,
           inbox' = [inbox EXCEPT ![c] = Append(@, x)],
           asked' = [asked EXCEPT ![c] = n],
           first' \in [Conns -> {"none", "hello", "other"}],
           \A d \in Conns : d # c \/ first[d] # "none" => first'[d] = first[d],
           x.id = 1 /\ x.kind = "hello" => first'[c] = "hello",
           n = 0 => first'[c] = "none",
           UNCHANGED <<peer, server>>
    PROVE  IInv'
<1> USE DEF server
<1>1. Typed'
  <2>1. inbox[c] \in Seq(Symbols) /\ n \in Nat
    BY DEF IInv, Typed
  <2>2. Append(inbox[c], x) \in Seq(Symbols)
    BY <2>1, AppendProperties
  <2> QED
    BY <2>1, <2>2 DEF IInv, Typed
<1>2. ConnInv'
  BY DEF IInv, Typed, ConnInv
<1>3. SrvInv' /\ OwnInv'
  BY DEF IInv, SrvInv, OwnInv, Current
<1>4. \A s \in Slots : Handled(s)' = Handled(s)
  BY DEF Handled, Current
<1>5. StreamsInv'
  <2> SUFFICES ASSUME NEW s \in Slots, slots[s].conn # 0
               PROVE  StreamInv(Stream(s), Handled(s), slots[s].conn)'
    BY DEF StreamsInv
  <2>1. StreamInv(Stream(s), Handled(s), slots[s].conn)
    BY DEF IInv, StreamsInv
  <2>2. CASE slots[s].conn # c
    <3>1. Stream(s)' = Stream(s) /\ asked'[slots[s].conn] = asked[slots[s].conn]
      BY <2>2, SlotTypes DEF Stream, IInv, Typed
    <3>2. first'[slots[s].conn] = first[slots[s].conn]
      BY <2>2, SlotTypes
    <3> QED
      BY <1>4, <2>1, <3>1, <3>2 DEF StreamInv
  <2>3. CASE slots[s].conn = c
    <3> DEFINE st == Stream(s)
    <3>1. Stream(s)' = Append(st, x)
      <4>1. slots[s].buf \in Seq(Symbols) /\ inbox[c] \in Seq(Symbols)
        BY <2>3, SlotTypes
      <4>2. slots[s].buf \o Append(inbox[c], x) = Append(slots[s].buf \o inbox[c], x)
        BY <4>1, SendAppends
      <4>3. inbox'[c] = Append(inbox[c], x) /\ slots' = slots
        BY DEF IInv, Typed
      <4> QED
        BY <2>3, <4>2, <4>3 DEF Stream
    <3>2. Handled(s) \in Nat /\ asked[c] \in Nat /\ asked'[c] = n
      BY <2>3, SlotTypes DEF IInv, Typed
    <3>3. Holds(st, Handled(s), asked[c]) /\ Handled(s) <= asked[c]
      BY <2>1, <2>3 DEF StreamInv
    <3> HIDE DEF st
    <3>4. /\ Holds(Append(st, x), Handled(s), n)
          /\ \A i \in 1..Len(Append(st, x)) : Append(st, x)[i] = x \/
                 \E k \in 1..Len(st) : Append(st, x)[i] = st[k]
      BY <3>2, <3>3, HoldsAppend
    <3>5. \A k \in 1..Len(st) : st[k].id = 1 /\ st[k].kind = "hello" => first'[c] = "hello"
      BY <2>1, <2>3 DEF StreamInv, st
    <3>6. \A i \in 1..Len(Append(st, x)) :
              Append(st, x)[i].id = 1 /\ Append(st, x)[i].kind = "hello" => first'[c] = "hello"
      BY <3>4, <3>5
    <3> QED
      BY <1>4, <2>3, <3>1, <3>2, <3>3, <3>4, <3>6 DEF StreamInv
  <2> QED
    BY <2>2, <2>3
<1>6. AuthInv'
  BY <1>4, SlotTypes DEF IInv, AuthInv, Current
<1>7. AuthBeforeCommand'
  BY DEF IInv, Typed, AuthBeforeCommand
<1> QED
  BY <1>1, <1>2, <1>3, <1>5, <1>6, <1>7 DEF IInv

(* Steps that change neither the streams nor the slots.                                *)
LEMMA OthersKeep ==
    ASSUME IInv, peer' \in [Conns -> {"none", "there", "gone"}],
           served' \in [Conns -> {"none", "queued", "open", "closed"}],
           \A c \in Conns : /\ served'[c] # served[c] => served[c] = "none"
                            /\ peer'[c] = "none" => peer[c] = "none" /\ served'[c] = served[c],
           UNCHANGED <<inbox, asked, first, slots, srv, answered, executed>>
    PROVE  IInv'
<1>1. Typed'
  BY DEF IInv, Typed
<1>2. ConnInv'
  BY DEF IInv, Typed, ConnInv
<1>3. SrvInv'
  BY DEF IInv, SrvInv, Current
<1>4. OwnInv'
  BY SlotTypes DEF IInv, OwnInv
<1>5. \A s \in Slots : Handled(s)' = Handled(s) /\ Stream(s)' = Stream(s)
  BY DEF Handled, Current, Stream
<1>6. StreamsInv'
  BY <1>5 DEF IInv, StreamsInv, StreamInv
<1>7. AuthInv' /\ AuthBeforeCommand'
  BY <1>5 DEF IInv, AuthInv, Current, AuthBeforeCommand
<1> QED
  BY <1>1, <1>2, <1>3, <1>4, <1>6, <1>7 DEF IInv

(* Steps of the thread between two replies that change neither streams nor slots.         *)
LEMMA ThreadKeeps ==
    ASSUME IInv, srv.pc # "reply",
           srv' \in [pc : {"poll", "accept", "service", "lines", "reply", "end", "exited"},
                     polled : SUBSET Slots,
                     reply : [id : Nat, then : {"none", "drop", "exit", "lines"}]],
           srv'.reply.id = 0,
           \A s \in srv'.polled : slots[s].conn # 0,
           srv'.pc \in {"lines", "reply"} => srv'.polled # {},
           srv'.pc # "reply" => srv'.reply = NoReply,
           srv'.pc = "reply" => srv'.reply.then = "drop",
           UNCHANGED <<peer, served, inbox, asked, first, slots, answered, executed>>
    PROVE  IInv'
<1>1. Typed'
  BY DEF IInv, Typed
<1>2. ConnInv' /\ OwnInv'
  BY DEF IInv, ConnInv, OwnInv
<1>3. SrvInv'
  BY DEF SrvInv
<1>4. srv.reply.id = 0 /\ srv.reply.then = "none"
  BY DEF IInv, SrvInv, NoReply
<1>5. \A s \in Slots : Handled(s)' = Handled(s) /\ Stream(s)' = Stream(s)
  BY <1>4 DEF Handled, Stream
<1>6. StreamsInv'
  BY <1>5 DEF IInv, StreamsInv, StreamInv
<1>7. AuthInv' /\ AuthBeforeCommand'
  BY <1>4, <1>5 DEF IInv, AuthInv, AuthBeforeCommand
<1> QED
  BY <1>1, <1>2, <1>3, <1>6, <1>7 DEF IInv

(* The client that is being served.                                                   *)
LEMMA CurrentSlot ==
    ASSUME IInv, srv.polled # {}
    PROVE  Current \in srv.polled /\ Current \in Slots /\ slots[Current].conn # 0
<1>1. srv.polled \in SUBSET Nat /\ srv.polled \subseteq Slots
  BY DEF IInv, Typed, Slots
<1>2. Current \in srv.polled
  BY <1>1, MinIs DEF Current
<1> QED
  BY <1>1, <1>2 DEF IInv, SrvInv

(* Dropping a client leaves the others as they were.                                   *)
LEMMA DropKeeps ==
    ASSUME IInv, srv.polled # {}, Drop(Current),
           answered' \in [Conns -> Nat],
           \A d \in Conns : d # slots[Current].conn => answered'[d] = answered[d],
           UNCHANGED <<peer, asked, first, executed>>
    PROVE  IInv'
<1> DEFINE s == Current
<1> DEFINE c == slots[s].conn
<1>1. s \in srv.polled /\ s \in Slots /\ c # 0 /\ c \in Conns
  BY CurrentSlot, SlotTypes
<1>2. served[c] = "open"
  BY <1>1 DEF IInv, OwnInv
<1> HIDE DEF s
<1>3. /\ served' = [served EXCEPT ![c] = "closed"]
      /\ inbox' = [inbox EXCEPT ![c] = <<>>]
      /\ slots' = [slots EXCEPT ![s] = Free]
      /\ srv' = [pc |-> "service", polled |-> srv.polled \ {s}, reply |-> NoReply]
  BY DEF Drop, s
<1>4. Typed'
  <2>1. Free \in [conn : Conns \cup {0}, authenticated : {"yes", "no"}, buf : Seq(Symbols)]
    BY DEF Free
  <2>2. srv' \in [pc : {"poll", "accept", "service", "lines", "reply", "end", "exited"},
                  polled : SUBSET Slots,
                  reply : [id : Nat, then : {"none", "drop", "exit", "lines"}]]
    BY <1>3 DEF IInv, Typed, NoReply
  <2> QED
    BY <1>1, <1>3, <2>1, <2>2 DEF IInv, Typed
<1>5. slots'[s] = Free /\ \A t \in Slots : t # s => slots'[t] = slots[t]
  BY <1>1, <1>3 DEF IInv, Typed
<1>6. \A t \in Slots : slots'[t].conn # 0 =>
          t # s /\ slots'[t] = slots[t] /\ slots[t].conn # c /\ slots[t].conn \in Conns
  BY <1>1, <1>5, SlotTypes DEF IInv, OwnInv, Free
<1>7. ConnInv'
  BY <1>1, <1>2, <1>3 DEF IInv, Typed, ConnInv, s
<1>8. SrvInv'
  <2>1. srv'.pc = "service" /\ srv'.polled = srv.polled \ {s} /\ srv'.reply = NoReply
    BY <1>3
  <2>2. \A t \in srv'.polled : slots'[t].conn # 0
    BY <1>5, <2>1 DEF IInv, Typed, SrvInv
  <2> QED
    BY <2>1, <2>2 DEF SrvInv
<1>9. OwnInv'
  BY <1>3, <1>6 DEF IInv, Typed, OwnInv
<1>10. srv'.reply.id = 0
  BY <1>3 DEF NoReply
<1>11. ASSUME NEW t \in Slots, slots'[t].conn # 0
       PROVE  /\ Handled(t)' = Handled(t) /\ Stream(t)' = Stream(t) /\ t # Current
              /\ slots'[t] = slots[t]
  <2>1. t # s /\ slots'[t] = slots[t] /\ slots[t].conn # c /\ slots[t].conn \in Conns
    BY <1>6, <1>11
  <2>2. answered'[slots[t].conn] = answered[slots[t].conn]
    BY <2>1 DEF s
  <2>3. inbox'[slots[t].conn] = inbox[slots[t].conn]
    BY <1>3, <2>1 DEF IInv, Typed
  <2> QED
    BY <1>10, <2>1, <2>2, <2>3 DEF Handled, Stream, s
<1>12. StreamsInv'
  BY <1>11 DEF IInv, StreamsInv, StreamInv
<1>13. AuthInv'
  BY <1>11 DEF IInv, AuthInv
<1>14. AuthBeforeCommand'
  BY DEF IInv, AuthBeforeCommand
<1> QED
  BY <1>4, <1>7, <1>8, <1>9, <1>12, <1>13, <1>14 DEF IInv

(* recv moves symbols within a client's stream.                                        *)
LEMMA RecvKeepsIInv == IInv /\ Recv => IInv'
<1> SUFFICES ASSUME IInv, Recv PROVE IInv'
  OBVIOUS
<1> DEFINE s == Current
<1> DEFINE c == slots[s].conn
<1> DEFINE buf == slots[s].buf
<1>1. /\ s \in srv.polled /\ s \in Slots /\ c # 0 /\ c \in Conns
      /\ buf \in Seq(Symbols) /\ inbox[c] \in Seq(Symbols)
  BY CurrentSlot, SlotTypes DEF Recv
<1>2. CASE Drop(s)
  BY <1>2, DropKeeps DEF Recv, client, IInv, Typed
<1>3. ASSUME NEW n \in 1..Min({Len(inbox[c]), Room - Len(buf)}),
             slots' = [slots EXCEPT ![s].buf = buf \o SubSeq(inbox[c], 1, n)],
             inbox' = [inbox EXCEPT ![c] = SubSeq(@, n + 1, Len(@))],
             srv' = [srv EXCEPT !.pc = "lines"],
             UNCHANGED <<served, unread>>
      PROVE  IInv'
  <2>1. n \in 1..Len(inbox[c])
    <3>1. Len(inbox[c]) \in Int /\ Room - Len(buf) \in Int
      BY <1>1, LenProperties, ControlAssumptions
    <3> DEFINE a == Len(inbox[c])
    <3> DEFINE b == Room - Len(buf)
    <3>2. n \in 1..Min({a, b}) /\ a \in Int /\ b \in Int
      BY <1>3, <3>1
    <3> HIDE DEF a, b
    <3>3. Min({a, b}) \in Int /\ Min({a, b}) <= a
      BY <3>2, MinOfTwo
    <3>4. n \in 1..a
      BY <3>2, <3>3
    <3> QED
      BY <3>4 DEF a
  <2> DEFINE got == buf \o SubSeq(inbox[c], 1, n)
  <2> DEFINE left == SubSeq(inbox[c], n + 1, Len(inbox[c]))
  <2>2. got \in Seq(Symbols) /\ left \in Seq(Symbols) /\ got \o left = buf \o inbox[c]
    BY <1>1, <2>1, RecvKeepsStream
  <2>3. UNCHANGED <<peer, asked, first, answered, executed>> /\ srv.pc = "service"
    BY DEF Recv, client
  <2> HIDE DEF s
  <2>4. /\ slots' = [slots EXCEPT ![s].buf = got]
        /\ inbox' = [inbox EXCEPT ![c] = left]
    BY <1>3
  <2> HIDE DEF got, left
  <2>5. /\ srv'.pc = "lines" /\ srv'.polled = srv.polled /\ srv'.reply = srv.reply
        /\ srv.reply = NoReply
    BY <1>3, <2>3 DEF IInv, Typed, SrvInv
  <2>6. Typed'
    <3>1. srv' \in [pc : {"poll", "accept", "service", "lines", "reply", "end", "exited"},
                    polled : SUBSET Slots,
                    reply : [id : Nat, then : {"none", "drop", "exit", "lines"}]]
      BY <1>3 DEF IInv, Typed
    <3>2. slots' \in [Slots -> [conn : Conns \cup {0}, authenticated : {"yes", "no"},
                                buf : Seq(Symbols)]]
      BY <2>2, <2>4 DEF IInv, Typed
    <3>3. inbox' \in [Conns -> Seq(Symbols)]
      BY <2>2, <2>4 DEF IInv, Typed
    <3> QED
      BY <1>3, <2>3, <3>1, <3>2, <3>3 DEF IInv, Typed
  <2>7. /\ \A t \in Slots : /\ slots'[t].conn = slots[t].conn
                            /\ slots'[t].authenticated = slots[t].authenticated
                            /\ t # s => slots'[t].buf = slots[t].buf
        /\ slots'[s].buf = got
    BY <1>1, <2>4 DEF IInv, Typed
  <2>8. inbox'[c] = left /\ \A d \in Conns : d # c => inbox'[d] = inbox[d]
    BY <1>1, <2>4 DEF IInv, Typed
  <2>9. served[c] = "open"
    BY <1>1 DEF IInv, OwnInv
  <2>10. ConnInv'
    BY <1>3, <2>3, <2>8, <2>9 DEF IInv, ConnInv
  <2>11. SrvInv'
    BY <1>1, <2>5, <2>7 DEF IInv, Typed, SrvInv
  <2>12. OwnInv'
    BY <1>3, <2>7 DEF IInv, OwnInv
  <2>13. ASSUME NEW t \in Slots, slots[t].conn # 0
         PROVE  Handled(t)' = Handled(t) /\ Stream(t)' = Stream(t)
    <3>1. Handled(t)' = Handled(t)
      BY <2>3, <2>5, <2>7 DEF Handled, NoReply
    <3>2. CASE t = s
      <4>1. slots'[t].buf = got /\ slots'[t].conn = c /\ inbox'[c] = left
        BY <2>7, <2>8, <3>2
      <4>2. Stream(t)' = got \o left
        BY <4>1 DEF Stream
      <4>3. Stream(t) = buf \o inbox[c]
        BY <3>2 DEF Stream
      <4> QED
        BY <2>2, <3>1, <4>2, <4>3
    <3>3. CASE t # s
      <4>1. slots[t].conn # c /\ slots[t].conn \in Conns
        BY <1>1, <2>13, <3>3, SlotTypes DEF IInv, OwnInv
      <4>2. slots'[t].buf = slots[t].buf /\ slots'[t].conn = slots[t].conn
        BY <2>7, <3>3
      <4>3. inbox'[slots[t].conn] = inbox[slots[t].conn]
        BY <2>8, <4>1
      <4> QED
        BY <3>1, <4>2, <4>3 DEF Stream
    <3> QED
      BY <3>1, <3>2, <3>3
  <2>14. StreamsInv'
    BY <2>3, <2>7, <2>13 DEF IInv, StreamsInv, StreamInv
  <2>15. AuthInv' /\ AuthBeforeCommand'
    BY <2>3, <2>5, <2>7, <2>13 DEF IInv, AuthInv, AuthBeforeCommand, NoReply
  <2> QED
    BY <2>6, <2>10, <2>11, <2>12, <2>14, <2>15 DEF IInv
<1> QED
  BY <1>2, <1>3 DEF Recv

(* A connection that is accepted gets a slot and an empty stream.                         *)
LEMMA AcceptKeepsIInv ==
    ASSUME IInv, NEW c \in Conns, NEW allowed \in BOOLEAN, Accept(c, allowed)
    PROVE  IInv'
<1>1. /\ served[c] = "queued" /\ inbox[c] = <<>> /\ asked[c] = 0 /\ answered[c] = 0
      /\ srv.pc = "accept" /\ srv.reply = NoReply
      /\ UNCHANGED <<peer, asked, first, inbox, answered, executed>>
      /\ c # 0
  BY ControlAssumptions DEF Accept, Queued, IInv, ConnInv, SrvInv, client, wire
<1>2. /\ srv'.pc = "service" /\ srv'.polled = srv.polled /\ srv'.reply = NoReply
      /\ srv' \in [pc : {"poll", "accept", "service", "lines", "reply", "end", "exited"},
                   polled : SUBSET Slots,
                   reply : [id : Nat, then : {"none", "drop", "exit", "lines"}]]
  BY <1>1 DEF Accept, IInv, Typed
<1>3. \A t \in Slots : slots[t].conn # 0 => slots[t].conn # c /\ slots[t].conn \in Conns
  BY <1>1, SlotTypes DEF IInv, OwnInv
<1>4. CASE served' = [served EXCEPT ![c] = "closed"] /\ slots' = slots
  <2>1. Typed' /\ ConnInv'
    BY <1>1, <1>2, <1>4 DEF IInv, Typed, ConnInv
  <2>5. SrvInv'
    BY <1>2, <1>4 DEF IInv, SrvInv
  <2>6. OwnInv'
    BY <1>3, <1>4 DEF IInv, Typed, OwnInv
  <2>2. \A t \in Slots : Handled(t)' = Handled(t) /\ Stream(t)' = Stream(t)
    BY <1>1, <1>2, <1>4 DEF Handled, Stream, NoReply
  <2>3. StreamsInv'
    BY <1>1, <1>4, <2>2 DEF IInv, StreamsInv, StreamInv
  <2>4. AuthInv' /\ AuthBeforeCommand'
    BY <1>1, <1>2, <1>4, <2>2 DEF IInv, AuthInv, AuthBeforeCommand, NoReply
  <2> QED
    BY <2>1, <2>3, <2>4, <2>5, <2>6 DEF IInv
<1>5. ASSUME NEW s \in FreeSlots, served' = [served EXCEPT ![c] = "open"],
             slots' = [slots EXCEPT ![s] = [Free EXCEPT !.conn = c]]
      PROVE  IInv'
  <2>1. s \in Slots /\ slots[s].conn = 0
    BY DEF FreeSlots, Slots
  <2>2. /\ slots'[s] = [conn |-> c, authenticated |-> "no", buf |-> <<>>]
        /\ \A t \in Slots : t # s => slots'[t] = slots[t]
        /\ slots' \in [Slots -> [conn : Conns \cup {0}, authenticated : {"yes", "no"},
                                 buf : Seq(Symbols)]]
    <3>1. [Free EXCEPT !.conn = c] = [conn |-> c, authenticated |-> "no", buf |-> <<>>]
      BY DEF Free
    <3>2. [conn |-> c, authenticated |-> "no", buf |-> <<>>]
              \in [conn : Conns \cup {0}, authenticated : {"yes", "no"}, buf : Seq(Symbols)]
      OBVIOUS
    <3> QED
      BY <1>5, <2>1, <3>1, <3>2 DEF IInv, Typed
  <2>3. Typed'
    BY <1>1, <1>2, <1>5, <2>2 DEF IInv, Typed
  <2>4. ConnInv'
    BY <1>1, <1>5 DEF IInv, Typed, ConnInv
  <2>5. SrvInv'
    <3>1. ASSUME NEW t \in srv'.polled PROVE slots'[t].conn # 0
      <4>1. t \in Slots /\ slots[t].conn # 0
        BY <1>2, <3>1 DEF IInv, Typed, SrvInv
      <4>2. t # s
        BY <2>1, <4>1
      <4>3. slots'[t] = slots[t]
        BY <2>2, <4>1, <4>2
      <4> QED
        BY <4>1, <4>3
    <3> QED
      BY <1>2, <3>1 DEF SrvInv
  <2>6. OwnInv'
    BY <1>1, <1>3, <1>5, <2>1, <2>2 DEF IInv, Typed, OwnInv
  <2>7. ASSUME NEW t \in Slots, t # s
        PROVE  Handled(t)' = Handled(t) /\ Stream(t)' = Stream(t)
    <3>1. slots'[t] = slots[t]
      BY <2>2, <2>7
    <3>2. Handled(t)' = Handled(t)
      BY <1>1, <1>2, <3>1 DEF Handled, NoReply
    <3> QED
      BY <1>1, <3>1, <3>2 DEF Stream
  <2>8. Handled(s)' = 0 /\ Stream(s)' = <<>>
    BY <1>1, <1>2, <2>2 DEF Handled, Stream, NoReply
  <2>9. Holds(<<>>, 0, 0)
    BY DEF Holds
  <2>10. StreamsInv'
    BY <1>1, <2>2, <2>7, <2>8, <2>9 DEF IInv, StreamsInv, StreamInv
  <2>11. AuthInv' /\ AuthBeforeCommand'
    BY <1>1, <1>2, <2>2, <2>7, <2>8 DEF IInv, AuthInv, AuthBeforeCommand, NoReply
  <2> QED
    BY <2>3, <2>4, <2>5, <2>6, <2>10, <2>11 DEF IInv
<1>6. FreeSlots # {} => Min(FreeSlots) \in FreeSlots
  BY MinIs, ControlAssumptions DEF FreeSlots
<1> QED
  BY <1>4, <1>5, <1>6 DEF Accept

(* The line that is handled is the first of the stream, and makes the next request.        *)
LEMMA HandleLineKeepsIInv == IInv /\ HandleLine => IInv'
<1> SUFFICES ASSUME IInv, HandleLine PROVE IInv'
  OBVIOUS
<1>0. PICK s \in Slots : s = Current /\ s \in srv.polled /\ slots[s].conn # 0
  BY CurrentSlot DEF HandleLine, IInv, SrvInv
<1> DEFINE c == slots[s].conn
<1> DEFINE buf == slots[s].buf
<1> DEFINE e == LineEnd(buf)
<1> DEFINE request == buf[e]
<1> DEFINE kind == request.kind
<1> DEFINE admitted == Admitted(kind, slots[s].authenticated)
<1> DEFINE rest == SubSeq(buf, e + 1, Len(buf))
<1> DEFINE auth == IF kind \in {"hello", "bad_hello"} /\ admitted THEN "yes"
                   ELSE slots[s].authenticated
<1>1. /\ srv.pc = "lines" /\ srv.polled # {} /\ srv.reply = NoReply /\ Ends(buf) # {}
      /\ UNCHANGED <<peer, asked, first, inbox, served, answered>>
  BY <1>0 DEF HandleLine, IInv, SrvInv, client, wire
<1>2. /\ s \in srv.polled /\ s \in Slots /\ c # 0 /\ c \in Conns
      /\ buf \in Seq(Symbols) /\ inbox[c] \in Seq(Symbols)
      /\ slots[s].authenticated \in {"yes", "no"}
  BY <1>0, SlotTypes DEF IInv, Typed
<1>3. e \in 1..Len(buf) /\ kind # "part" /\ \A i \in 1..e - 1 : buf[i].kind = "part"
  <2>1. Len(buf) \in Nat /\ Ends(buf) \in SUBSET Nat
    BY <1>2, LenProperties DEF Ends
  <2>2. e \in Ends(buf) /\ \A y \in Ends(buf) : e <= y
    BY <1>1, <2>1, MinIs DEF LineEnd
  <2> QED
    BY <2>1, <2>2 DEF Ends
<1>4. \A i \in 1..Len(buf) : buf[i] \in Symbols
  BY <1>2, LenProperties
<1>5. request \in Symbols /\ \A i \in 1..e - 1 : buf[i] = Part
  <2>1. \A x \in Symbols : x.kind = "part" => x = Part
    BY DEF Symbols, Part, Blank, Requests
  <2>2. \A i \in 1..e - 1 : i \in 1..Len(buf)
    BY <1>2, <1>3, LenProperties
  <2> QED
    BY <1>3, <1>4, <2>1, <2>2
<1>6. /\ request.id \in Nat /\ kind \in Requests \cup {"blank"}
      /\ kind = "blank" <=> request.id = 0
  <2>1. \A x \in Symbols : x.kind # "part" =>
            /\ x.id \in Nat /\ x.kind \in Requests \cup {"blank"}
            /\ x.kind = "blank" <=> x.id = 0
    BY DEF Symbols, Part, Blank, Requests
  <2> QED
    BY <1>3, <1>5, <2>1
<1>7. /\ rest \in Seq(Symbols) /\ rest \o inbox[c] = SubSeq(Stream(s), e + 1, Len(Stream(s)))
      /\ e \in 1..Len(Stream(s)) /\ \A i \in 1..e : Stream(s)[i] = buf[i]
  BY <1>2, <1>3, LineTaken DEF Stream
<1>8. StreamInv(Stream(s), answered[c], c) /\ Handled(s) = answered[c]
  BY <1>1, <1>2 DEF IInv, StreamsInv, Handled, NoReply
<1>9. answered[c] \in Nat /\ asked[c] \in Nat
  BY <1>2 DEF IInv, Typed
<1> DEFINE st == Stream(s)
<1> DEFINE upto == IF request.id = 0 THEN answered[c] ELSE request.id
<1>10. /\ st[e] = request /\ \A i \in 1..e - 1 : st[i] = Part
  <2>1. e \in 1..e /\ \A i \in 1..e - 1 : i \in 1..e
    BY <1>3
  <2> QED
    BY <1>5, <1>7, <2>1
<1>11. slots' = [slots EXCEPT ![s].buf = rest, ![s].authenticated = auth]
  BY <1>0 DEF HandleLine
<1>12. srv' = IF kind = "blank" THEN srv
              ELSE [srv EXCEPT !.pc = "reply",
                        !.reply = [id |-> request.id,
                                   then |-> After(kind, slots[s].authenticated)]]
  BY <1>0 DEF HandleLine
<1>13. executed' = IF kind \in {"command", "shutdown"} /\ admitted
                   THEN executed \cup {<<c, kind>>} ELSE executed
  BY <1>0 DEF HandleLine
<1>14. /\ After(kind, slots[s].authenticated) \in {"drop", "exit", "lines"}
       /\ ~admitted => After(kind, slots[s].authenticated) = "drop"
  BY DEF After
<1>15. /\ Token = "yes" /\ kind \in {"hello", "bad_hello"} => (admitted <=> kind = "hello")
       /\ Token = "yes" /\ kind \in {"command", "shutdown"} =>
              (admitted <=> slots[s].authenticated = "yes")
  BY DEF Admitted
<1> DEFINE then == After(kind, slots[s].authenticated)
<1> HIDE DEF st, rest, auth, then, admitted, request, kind, e
<1>16. /\ request.id # 0 => request.id = answered[c] + 1
       /\ upto \in Nat /\ upto <= asked[c]
       /\ Holds(SubSeq(st, e + 1, Len(st)), upto, asked[c])
       /\ \A i \in 1..Len(SubSeq(st, e + 1, Len(st))) :
              \E k \in 1..Len(st) : SubSeq(st, e + 1, Len(st))[i] = st[k]
  <2>1. upto \in Nat
    BY <1>6, <1>9
  <2>2. Holds(st, answered[c], asked[c]) /\ answered[c] <= asked[c]
    BY <1>8 DEF StreamInv, st
  <2>3. e \in 1..Len(st) /\ upto = IF st[e].id = 0 THEN answered[c] ELSE st[e].id
    BY <1>7, <1>10 DEF st
  <2> HIDE DEF upto
  <2>4. /\ st[e].id # 0 => st[e].id = answered[c] + 1
        /\ upto <= asked[c]
        /\ Holds(SubSeq(st, e + 1, Len(st)), upto, asked[c])
        /\ \A i \in 1..Len(SubSeq(st, e + 1, Len(st))) :
               \E k \in 1..Len(st) : SubSeq(st, e + 1, Len(st))[i] = st[k]
    <3>1. PICK str, from, to, end, last :
              str = st /\ from = answered[c] /\ to = asked[c] /\ end = e /\ last = upto
      OBVIOUS
    <3>2. /\ from \in Nat /\ to \in Nat /\ last \in Nat /\ end \in 1..Len(str)
          /\ Holds(str, from, to) /\ from <= to
      BY <1>9, <2>1, <2>2, <2>3, <3>1
    <3>3. \A i \in 1..end - 1 : str[i] = Part
      BY <1>10, <3>1
    <3>4. last = IF str[end].id = 0 THEN from ELSE str[end].id
      BY <2>3, <3>1
    <3>5. /\ str[end].id # 0 => str[end].id = from + 1
          /\ last <= to
          /\ Holds(SubSeq(str, end + 1, Len(str)), last, to)
          /\ \A i \in 1..Len(SubSeq(str, end + 1, Len(str))) :
                 \E k \in 1..Len(str) : SubSeq(str, end + 1, Len(str))[i] = str[k]
      BY <3>2, <3>3, <3>4, HoldsRest
    <3> QED
      BY <3>1, <3>5
  <2> QED
    BY <1>10, <2>1, <2>4
<1>17. auth \in {"yes", "no"}
  BY <1>2 DEF auth
<1>18. /\ slots' \in [Slots -> [conn : Conns \cup {0}, authenticated : {"yes", "no"},
                                buf : Seq(Symbols)]]
       /\ slots'[s].conn = c /\ slots'[s].buf = rest /\ slots'[s].authenticated = auth
       /\ \A t \in Slots : slots'[t].conn = slots[t].conn /\ (t # s => slots'[t] = slots[t])
  BY <1>2, <1>7, <1>11, <1>17 DEF IInv, Typed
<1>19. /\ srv' \in [pc : {"poll", "accept", "service", "lines", "reply", "end", "exited"},
                    polled : SUBSET Slots,
                    reply : [id : Nat, then : {"none", "drop", "exit", "lines"}]]
       /\ srv'.polled = srv.polled
       /\ kind = "blank" => srv'.pc = "lines" /\ srv'.reply = NoReply
       /\ kind # "blank" => srv'.pc = "reply" /\ srv'.reply = [id |-> request.id, then |-> then]
  <2>1. [id |-> request.id, then |-> then]
            \in [id : Nat, then : {"none", "drop", "exit", "lines"}]
    BY <1>6, <1>14 DEF then
  <2>2. srv' = IF kind = "blank" THEN srv
               ELSE [srv EXCEPT !.pc = "reply", !.reply = [id |-> request.id, then |-> then]]
    BY <1>12 DEF then
  <2> QED
    BY <1>1, <2>1, <2>2 DEF IInv, Typed
<1>20. Current' = s
  BY <1>0, <1>19 DEF Current
<1>21. Typed'
  <2>1. kind \in {"command", "shutdown"} =>
            <<c, kind>> \in Conns \X {"command", "shutdown"}
    BY <1>2
  <2>2. executed' \subseteq Conns \X {"command", "shutdown"}
    BY <1>13, <2>1 DEF IInv, Typed
  <2> QED
    BY <1>1, <1>18, <1>19, <2>2 DEF IInv, Typed
<1>22. ConnInv' /\ OwnInv'
  BY <1>1, <1>18 DEF IInv, ConnInv, OwnInv
<1>23. SrvInv'
  <2>1. \A t \in srv'.polled : slots'[t].conn # 0
    BY <1>18, <1>19 DEF IInv, Typed, SrvInv
  <2>2. srv'.polled # {} /\ (srv'.pc = "reply" => kind # "blank")
    BY <1>1, <1>19
  <2>3. kind # "blank" => request.id # 0 /\ request.id = answered'[slots'[Current'].conn] + 1
    BY <1>1, <1>6, <1>16, <1>18, <1>20
  <2>4. kind = "blank" => srv'.pc = "lines" /\ srv'.reply = NoReply
    BY <1>19
  <2>5. kind # "blank" => srv'.pc = "reply" /\ srv'.reply.id = request.id
    BY <1>19
  <2> QED
    BY <2>1, <2>2, <2>3, <2>4, <2>5 DEF SrvInv
<1>24. Handled(s)' = upto
  BY <1>1, <1>6, <1>18, <1>19, <1>20 DEF Handled, NoReply
<1>25. Stream(s)' = SubSeq(st, e + 1, Len(st))
  BY <1>1, <1>7, <1>18 DEF Stream, st
<1>26. ASSUME NEW t \in Slots, t # s
       PROVE  Handled(t)' = Handled(t) /\ Stream(t)' = Stream(t) /\ slots'[t] = slots[t]
  <2>1. slots'[t] = slots[t]
    BY <1>18, <1>26
  <2>2. Handled(t)' = Handled(t)
    BY <1>1, <1>20, <1>26, <2>1 DEF Handled, NoReply
  <2> QED
    BY <1>1, <2>1, <2>2 DEF Stream
<1>27. StreamsInv'
  <2>1. StreamInv(Stream(s), Handled(s), slots[s].conn)'
    <3>1. \A k \in 1..Len(st) : st[k].id = 1 /\ st[k].kind = "hello" => first[c] = "hello"
      BY <1>8 DEF StreamInv, st
    <3> DEFINE new == SubSeq(st, e + 1, Len(st))
    <3>2. \A i \in 1..Len(new) : \E k \in 1..Len(st) : new[i] = st[k]
      BY <1>16
    <3>3. Stream(s)' = new /\ Holds(new, upto, asked[c])
      BY <1>16, <1>25
    <3> HIDE DEF new
    <3>4. \A i \in 1..Len(new) : new[i].id = 1 /\ new[i].kind = "hello" => first[c] = "hello"
      BY <3>1, <3>2
    <3> QED
      BY <1>1, <1>16, <1>18, <1>24, <3>3, <3>4 DEF StreamInv
  <2>2. ASSUME NEW t \in Slots, t # s, slots'[t].conn # 0
        PROVE  StreamInv(Stream(t), Handled(t), slots[t].conn)'
    <3>1. StreamInv(Stream(t), Handled(t), slots[t].conn)
      BY <1>26, <2>2 DEF IInv, StreamsInv
    <3> QED
      BY <1>1, <1>26, <2>2, <3>1 DEF StreamInv
  <2> QED
    BY <2>1, <2>2 DEF StreamsInv
<1>28. ASSUME Token = "yes"
       PROVE  IF auth = "yes" THEN first[c] = "hello"
              ELSE upto = 0 \/ (kind # "blank" /\ then = "drop")
  <2>1. slots[s].authenticated = "yes" => first[c] = "hello"
    BY <1>2, <1>28 DEF IInv, AuthInv
  <2>2. slots[s].authenticated # "yes" => answered[c] = 0
    BY <1>1, <1>2, <1>8, <1>28 DEF IInv, AuthInv, NoReply
  <2>3. CASE kind = "hello" /\ slots[s].authenticated # "yes"
    <3>1. request.id = 1 /\ request.kind = "hello"
      BY <1>6, <1>16, <2>2, <2>3 DEF kind
    <3>2. first[c] = "hello"
      BY <1>7, <1>8, <1>10, <3>1 DEF StreamInv, st
    <3> QED
      BY <1>15, <1>28, <2>3, <3>2 DEF auth
  <2>4. CASE kind = "blank" /\ slots[s].authenticated # "yes"
    BY <1>6, <2>2, <2>4 DEF auth
  <2>5. CASE kind \in {"bad_hello", "command", "shutdown"} /\ slots[s].authenticated # "yes"
    BY <1>14, <1>15, <1>28, <2>5 DEF auth, then, admitted
  <2>6. CASE slots[s].authenticated = "yes"
    BY <2>1, <2>6 DEF auth
  <2> QED
    BY <1>6, <2>3, <2>4, <2>5, <2>6 DEF Requests
<1>29. AuthInv'
  <2> SUFFICES ASSUME Token = "yes", NEW t \in Slots, slots'[t].conn # 0
               PROVE  IF slots'[t].authenticated = "yes" THEN first'[slots'[t].conn] = "hello"
                      ELSE Handled(t)' = 0 \/ (t = Current' /\ srv'.reply.then = "drop")
    BY DEF AuthInv
  <2>1. CASE t = s
    <3>1. kind # "blank" => srv'.reply.then = then
      BY <1>19
    <3> QED
      BY <1>1, <1>18, <1>20, <1>24, <1>28, <2>1, <3>1
  <2>2. CASE t # s
    BY <1>1, <1>26, <2>2 DEF IInv, AuthInv, NoReply
  <2> QED
    BY <2>1, <2>2
<1>30. AuthBeforeCommand'
  <2> SUFFICES ASSUME Token = "yes", NEW x \in executed' PROVE first'[x[1]] = "hello"
    BY DEF AuthBeforeCommand
  <2>1. CASE x \in executed
    BY <1>1, <2>1 DEF IInv, AuthBeforeCommand
  <2>2. CASE x = <<c, kind>> /\ kind \in {"command", "shutdown"} /\ admitted
    <3>1. slots[s].authenticated = "yes"
      BY <1>15, <2>2
    <3>2. first[c] = "hello"
      BY <1>2, <3>1 DEF IInv, AuthInv
    <3> QED
      BY <1>1, <2>2, <3>2
  <2> QED
    BY <1>13, <2>1, <2>2
<1> QED
  BY <1>21, <1>22, <1>23, <1>27, <1>29, <1>30 DEF IInv

(* A reply makes the request it answers the last one answered.                            *)
LEMMA ReplyKeepsIInv == IInv /\ Reply => IInv'
<1> SUFFICES ASSUME IInv, Reply PROVE IInv'
  OBVIOUS
<1>1. PICK s \in Slots : s = Current /\ s \in srv.polled /\ slots[s].conn # 0
  BY CurrentSlot DEF Reply, IInv, SrvInv
<1> DEFINE c == slots[s].conn
<1>2. /\ srv.pc = "reply" /\ srv.polled # {} /\ c \in Conns
      /\ UNCHANGED <<peer, asked, first, executed>>
  BY <1>1, SlotTypes DEF Reply, client
<1>3. /\ answered' \in [Conns -> Nat]
      /\ \A d \in Conns : d # c => answered'[d] = answered[d]
      /\ srv.reply.id # 0 => answered'[c] = srv.reply.id
  BY <1>1, <1>2 DEF Reply, IInv, Typed
<1>4. CASE srv.reply.then = "drop"
  BY <1>1, <1>2, <1>3, <1>4, DropKeeps DEF Reply
<1>5. CASE srv.reply.then # "drop"
  <2>1. UNCHANGED <<served, slots, inbox>> /\ srv.reply.id # 0
    BY <1>2, <1>5 DEF Reply, IInv, SrvInv
  <2>2. srv' = [srv EXCEPT !.pc = Resume(srv.reply.then), !.reply = NoReply]
    BY <1>5 DEF Reply
  <2>3. /\ srv' \in [pc : {"poll", "accept", "service", "lines", "reply", "end", "exited"},
                     polled : SUBSET Slots,
                     reply : [id : Nat, then : {"none", "drop", "exit", "lines"}]]
        /\ srv'.pc # "reply" /\ srv'.polled = srv.polled /\ srv'.reply = NoReply
    BY <2>2 DEF IInv, Typed, Resume, NoReply
  <2>4. Typed'
    BY <1>2, <1>3, <2>1, <2>3 DEF IInv, Typed
  <2>5. served[c] = "open"
    BY <1>1 DEF IInv, OwnInv
  <2>6. ConnInv' /\ OwnInv'
    BY <1>2, <1>3, <2>1, <2>5 DEF IInv, ConnInv, OwnInv
  <2>7. SrvInv'
    BY <1>2, <2>1, <2>3 DEF IInv, SrvInv
  <2>8. ASSUME NEW t \in Slots, slots[t].conn # 0
        PROVE  Handled(t)' = Handled(t) /\ Stream(t)' = Stream(t)
    <3>1. Stream(t)' = Stream(t)
      BY <2>1 DEF Stream
    <3>2. CASE t = s
      BY <1>1, <1>3, <2>1, <2>3, <3>1, <3>2 DEF Handled, NoReply
    <3>3. CASE t # s
      <4>1. slots[t].conn # c /\ slots[t].conn \in Conns
        BY <1>1, <2>8, <3>3, SlotTypes DEF IInv, OwnInv
      <4> QED
        BY <1>1, <1>3, <2>1, <2>3, <3>1, <3>3, <4>1 DEF Handled, NoReply
    <3> QED
      BY <3>2, <3>3
  <2>9. StreamsInv'
    BY <1>2, <2>1, <2>8 DEF IInv, StreamsInv, StreamInv
  <2>10. AuthInv' /\ AuthBeforeCommand'
    BY <1>2, <1>5, <2>1, <2>8 DEF IInv, AuthInv, AuthBeforeCommand
  <2> QED
    BY <2>4, <2>6, <2>7, <2>9, <2>10 DEF IInv
<1> QED
  BY <1>4, <1>5

LEMMA EndKeepsIInv == IInv /\ End => IInv'
<1> SUFFICES ASSUME IInv, End PROVE IInv'
  OBVIOUS
<1>1. \A s \in Slots : slots'[s] = Free /\ slots'[s].conn = 0
  BY DEF End, Free, Slots
<1>2. /\ srv'.pc = "exited" /\ srv'.polled = {} /\ srv'.reply = NoReply
      /\ srv' \in [pc : {"poll", "accept", "service", "lines", "reply", "end", "exited"},
                   polled : SUBSET Slots,
                   reply : [id : Nat, then : {"none", "drop", "exit", "lines"}]]
  BY DEF End, IInv, Typed, SrvInv
<1>3. UNCHANGED <<peer, asked, first, answered, executed>>
  BY DEF End, client
<1>4. Typed'
  <2>1. slots' \in [Slots -> [conn : Conns \cup {0}, authenticated : {"yes", "no"},
                              buf : Seq(Symbols)]]
    BY DEF End, Free, Slots
  <2>2. inbox' \in [Conns -> Seq(Symbols)]
        /\ served' \in [Conns -> {"none", "queued", "open", "closed"}]
    BY DEF End
  <2> QED
    BY <1>2, <1>3, <2>1, <2>2 DEF IInv, Typed
<1>5. ConnInv'
  BY <1>3 DEF End, IInv, Typed, ConnInv
<1>6. SrvInv'
  BY <1>2 DEF SrvInv
<1>7. OwnInv' /\ StreamsInv' /\ AuthInv'
  BY <1>1 DEF OwnInv, StreamsInv, AuthInv
<1>8. AuthBeforeCommand'
  BY <1>3 DEF IInv, AuthBeforeCommand
<1> QED
  BY <1>4, <1>5, <1>6, <1>7, <1>8 DEF IInv

LEMMA ClientKeepsIInv == ASSUME IInv, NEW c \in Conns, Client(c) PROVE IInv'
<1>1. CASE Connect(c)
  BY <1>1, OthersKeep DEF Connect, IInv, Typed, ConnInv, wire
<1>2. CASE SendPart(c)
  <2>1. Part \in Symbols /\ Part.id = 0 /\ asked[c] \in Nat
    BY DEF Symbols, Part, IInv, Typed
  <2>2. asked' = [asked EXCEPT ![c] = asked[c]]
    BY <1>2 DEF SendPart, IInv, Typed
  <2>3. /\ served[c] = "open" /\ inbox' = [inbox EXCEPT ![c] = Append(@, Part)]
        /\ first' = first /\ UNCHANGED <<peer, server>>
        /\ first \in [Conns -> {"none", "hello", "other"}]
        /\ asked[c] = 0 => first[c] = "none"
    BY <1>2 DEF SendPart, MaySend, IInv, Typed, ConnInv
  <2> QED
    BY <2>1, <2>2, <2>3, SendKeeps DEF Part
<1>3. ASSUME NEW kind \in Says[c] \cap Requests, SendRequest(c, kind) PROVE IInv'
  <2> DEFINE n == asked[c] + 1
  <2> DEFINE x == [kind |-> kind, id |-> n]
  <2>1. asked[c] \in Nat /\ n \in Nat \ {0} /\ x \in Symbols /\ x.id = n /\ x.kind = kind
    BY DEF Symbols, IInv, Typed
  <2>2. asked' = [asked EXCEPT ![c] = n] /\ asked'[c] = n /\ served[c] = "open"
    BY <1>3 DEF SendRequest, MaySend, IInv, Typed
  <2>3. inbox' = [inbox EXCEPT ![c] = Append(@, x)] /\ UNCHANGED <<peer, server>>
    BY <1>3, <2>2 DEF SendRequest
  <2>4. /\ first' \in [Conns -> {"none", "hello", "other"}]
        /\ \A d \in Conns : d # c \/ first[d] # "none" => first'[d] = first[d]
        /\ first[c] = "none" /\ kind = "hello" => first'[c] = "hello"
    BY <1>3 DEF SendRequest, IInv, Typed
  <2>5. n = 1 => first[c] = "none"
    BY <2>1 DEF IInv, ConnInv
  <2> HIDE DEF n, x
  <2>6. x.id = 1 /\ x.kind = "hello" => first'[c] = "hello"
    BY <2>1, <2>4, <2>5
  <2>7. /\ n \in {asked[c], asked[c] + 1} /\ n # 0
        /\ x.id = IF n = asked[c] THEN 0 ELSE asked[c] + 1
    BY <2>1 DEF n
  <2> QED
    BY <2>1, <2>2, <2>3, <2>4, <2>6, <2>7, SendKeeps
<1>4. CASE SendBlank(c)
  <2>1. Blank \in Symbols /\ Blank.id = 0 /\ asked[c] \in Nat
    BY DEF Symbols, Blank, IInv, Typed
  <2>2. asked' = [asked EXCEPT ![c] = asked[c]]
    BY <1>4, Zenon DEF SendBlank, client, IInv, Typed
  <2>3. /\ served[c] = "open" /\ inbox' = [inbox EXCEPT ![c] = Append(@, Blank)]
        /\ first' = first /\ UNCHANGED <<peer, server>>
        /\ first \in [Conns -> {"none", "hello", "other"}]
        /\ asked[c] = 0 => first[c] = "none"
    BY <1>4 DEF SendBlank, Blank, MaySend, client, IInv, Typed, ConnInv
  <2> QED
    BY <2>1, <2>2, <2>3, SendKeeps DEF Blank
<1>5. CASE Read(c)
  BY <1>5, OthersKeep DEF Read, client, server, IInv, Typed
<1>6. CASE Hangup(c)
  BY <1>6, OthersKeep DEF Hangup, server, IInv, Typed
<1> QED
  BY <1>1, <1>2, <1>3, <1>4, <1>5, <1>6 DEF Client

LEMMA NextKeepsIInv == IInv /\ [Next]_vars => IInv'
<1> SUFFICES ASSUME IInv, [Next]_vars PROVE IInv'
  OBVIOUS
<1>1. CASE Signal
  BY <1>1, OthersKeep DEF Signal, client, wire, server, IInv, Typed
<1>2. CASE Poll
  <2>1. Ready \in SUBSET Slots /\ \A s \in Ready : slots[s].conn # 0
    BY DEF Ready, Slots
  <2>2. srv.reply = NoReply /\ NoReply.id = 0
    BY <1>2 DEF Poll, IInv, SrvInv, NoReply
  <2> QED
    BY <1>2, <2>1, <2>2, ThreadKeeps DEF Poll, client, wire, IInv, Typed, SrvInv
<1>3. CASE ServiceDone
  <2>1. srv.reply = NoReply /\ NoReply.id = 0
    BY <1>3 DEF ServiceDone, IInv, SrvInv, NoReply
  <2> QED
    BY <1>3, <2>1, ThreadKeeps DEF ServiceDone, client, wire, IInv, Typed, SrvInv
<1>4. CASE LinesDone
  <2>1. CASE TooLong(slots[Current].buf)
    BY <1>4, <2>1, ThreadKeeps DEF LinesDone, client, wire, IInv, Typed, SrvInv
  <2>2. CASE ~TooLong(slots[Current].buf)
    <3>1. srv.reply = NoReply /\ NoReply.id = 0
      BY <1>4 DEF LinesDone, IInv, SrvInv, NoReply
    <3> QED
      BY <1>4, <2>2, <3>1, ThreadKeeps DEF LinesDone, client, wire, IInv, Typed, SrvInv
  <2> QED
    BY <2>1, <2>2
<1>5. CASE Exited \/ UNCHANGED vars
  BY <1>5, OthersKeep DEF Exited, vars, client, wire, server, IInv, Typed
<1> QED
  BY <1>1, <1>2, <1>3, <1>4, <1>5, ClientKeepsIInv, AcceptKeepsIInv, RecvKeepsIInv,
     HandleLineKeepsIInv, ReplyKeepsIInv, EndKeepsIInv DEF Next, Server

-----------------------------------------------------------------------------
(* With a token, a command or shutdown is only executed on a connection whose first      *)
(* request was the right hello (handle_line), whoever had its slot before.                 *)
THEOREM AuthHolds == Spec => []AuthBeforeCommand
<1>1. IInv => AuthBeforeCommand
  BY DEF IInv
<1> QED
  BY <1>1, InitIInv, NextKeepsIInv, PTL DEF Spec

(* The requests of a connection are answered one after the other, each once, however recv *)
(* cuts the stream (service_client).                                                    *)
THEOREM InOrder == Spec => AnswersInOrder
<1>1. ASSUME IInv, [Next]_vars
      PROVE  [\A c \in Conns : answered'[c] \in {answered[c], answered[c] + 1}]_vars
  <2>1. CASE Reply
    <3>1. PICK s \in Slots : s = Current /\ slots[s].conn # 0
      BY <1>1, <2>1, CurrentSlot DEF Reply, IInv, SrvInv
    <3>2. srv.reply.id # 0 => srv.reply.id = answered[slots[s].conn] + 1
      BY <1>1, <2>1, <3>1 DEF Reply, IInv, SrvInv
    <3> QED
      BY <1>1, <2>1, <3>1, <3>2 DEF Reply, IInv, Typed
  <2>2. CASE answered' = answered
    BY <2>2
  <2>3. ASSUME NEW c \in Conns, Client(c) PROVE answered' = answered
    BY <2>3, Zenon DEF Client, Connect, SendPart, SendRequest, SendBlank, Read, Hangup, server
  <2>4. Next => Reply \/ answered' = answered
    BY <2>3, Zenon DEF Next, Signal, Exited, vars, Server, Poll, Accept, ServiceDone, Recv,
                HandleLine, LinesDone, End, server
  <2> QED
    BY <1>1, <2>1, <2>2, <2>4
<1> QED
  BY <1>1, InitIInv, NextKeepsIInv, PTL DEF Spec, AnswersInOrder

=============================================================================
