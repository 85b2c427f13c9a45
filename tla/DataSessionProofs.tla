------------------------- MODULE DataSessionProofs -------------------------
(***************************************************************************)
(* For any range of the sequence number, any cycle time, and however frames are  *)
(* lost, reordered and delayed across sessions: the watchdog stays armed while    *)
(* there are outputs in the image, and the data session implements Outputs.      *)
(***************************************************************************)
EXTENDS DataSession, SequenceTheorems, TLAPS

(* Frames the client has sent: numbered below its next one, in a session it knows.    *)
Sent == {f \in Frames : 0 < f.n /\ f.n < client.n /\ 0 < f.session /\ f.session <= client.session}

(* The sessions and the frames on the way.                                          *)
FramesInv ==
    /\ opened \in Nat /\ session \in {0, opened}
    /\ client \in [session : Nat, n : Nat \ {0}] /\ client.session <= opened
    /\ socket \in Seq(Frames)
    /\ Pending \subseteq Sent
    /\ \A f, g \in Pending : f.n - g.n < Half

(* What the bus thread has accepted.  The last one accepted is within half the range of   *)
(* whatever may still come; before there is one, all that may be accepted is younger      *)
(* than what was applied in earlier sessions.                                          *)
AcceptedInv ==
    /\ accepted \in Nat /\ newest \in Nat /\ accepted < client.n /\ newest < client.n
    /\ rx_last = IF accepted = 0 THEN -1 ELSE Sequence(accepted)
    /\ accepted > 0 => /\ newest <= accepted
                       /\ \A f \in Pending : f.n - accepted < Half /\ accepted - f.n < Half
    /\ accepted = 0 => \A f \in Pending : f.session = session => f.n > newest

(* The frame the drain loop holds is the last one accepted and not applied yet.          *)
LatestInv ==
    /\ bus \in [pc : {"sleep", "zero", "drain", "publish"}, latest : Frames]
    /\ bus.latest # Zero =>
           /\ bus.pc = "drain"
           /\ bus.latest \in Sent /\ bus.latest.session = session
           /\ bus.latest.n = accepted /\ newest < accepted
    /\ bus.pc \in {"drain", "zero"} <=> lock = "bus"
    /\ region \in Frames

IInv == FramesInv /\ AcceptedInv /\ LatestInv

(* Quotient and remainder.                                                             *)
LEMMA DivMod ==
    ASSUME NEW a \in Int, NEW M \in Nat, M > 0
    PROVE  a % M \in 0..(M - 1) /\ \E q \in Int : a = q * M + (a % M)
<1>1. a % M \in 0..(M - 1)
  OBVIOUS
<1>2. a \div M \in Int
  OBVIOUS
<1>3. a = (a \div M) * M + (a % M)
  BY SMTT(30)
<1> QED
  BY <1>1, <1>2, <1>3

(* A multiple of M above -M is not negative.                                           *)
LEMMA NoMultiple ==
    ASSUME NEW M \in Nat, M > 0, NEW K \in Int, K * M > -M
    PROVE  K * M >= 0
<1>1. CASE K >= 0
  <2>1. K \in Nat
    BY <1>1
  <2> QED
    BY <2>1
<1>2. CASE K <= -1
  <2>1. -1 - K \in Nat
    BY <1>2
  <2>2. (-1 - K) * M \in Nat
    BY <2>1
  <2>3. (-1 - K) * M = -M - K * M
    OBVIOUS
  <2> QED
    BY <2>2, <2>3
<1> QED
  BY <1>1, <1>2

(* The signed difference of edog_seq_newer tells the order of two frames less than half  *)
(* the range apart.                                                                   *)
LEMMA SeqNewerOrders ==
    ASSUME NEW a \in Nat, NEW b \in Nat, a - b < Half, b - a < Half,
           SeqNewer(Sequence(a), Sequence(b))
    PROVE  a > b
<1>1. PICK M \in Nat : M = 2 * Half /\ M > 0 /\ Half \in Nat
  BY DataAssumptions
<1>2. PICK ra \in Int, qa \in Int : ra = a % M /\ a = qa * M + ra
  BY <1>1, DivMod
<1>3. PICK rb \in Int, qb \in Int : rb = b % M /\ b = qb * M + rb
  BY <1>1, DivMod
<1>4. PICK x \in Int, k \in Int : x = (ra - rb) % M /\ ra - rb = k * M + x
  <2>1. PICK e \in Int : e = ra - rb
    OBVIOUS
  <2>2. e % M \in 0..(M - 1) /\ \E k \in Int : e = k * M + (e % M)
    BY <1>1, DivMod
  <2> QED
    BY <1>1, <2>1, <2>2
<1>5. x >= 1 /\ x < Half
  <2>1. x \in 1..(Half - 1)
    BY <1>1, <1>2, <1>3, <1>4 DEF SeqNewer, Sequence
  <2> QED
    BY <2>1, <1>1
<1>6. PICK K \in Int : K = qa - qb + k
  OBVIOUS
<1>7. K * M = qa * M - qb * M + k * M
  BY <1>1, <1>6
<1>8. a - b = K * M + x
  BY <1>1, <1>2, <1>3, <1>4, <1>7
<1>9. K * M > -M
  BY <1>1, <1>5, <1>8
<1>10. K * M >= 0
  BY <1>1, <1>9, NoMultiple
<1> QED
  BY <1>5, <1>8, <1>10

(* The timeout is a number of cycles.                                                  *)
LEMMA TimeoutIsNat == timeout_cycles \in Nat
<1> DEFINE cycle_us == IF CycleTimeUs > 0 THEN CycleTimeUs ELSE 1000
<1>1. cycle_us \in Nat /\ cycle_us > 0
  BY DataAssumptions
<1> HIDE DEF cycle_us
<1>2. (100 * 1000) \div cycle_us \in Int
  BY <1>1
<1> QED
  BY <1>2 DEF timeout_cycles, cycle_us

Armed ==
    /\ cycles_since_output \in Nat
    /\ outputs_zeroed \in {"yes", "no"}
    /\ WatchdogArmed

(* Every step keeps the watchdog armed.                                                *)
LEMMA NextArmed == Armed /\ [Next]_vars => Armed'
<1> SUFFICES ASSUME Armed, [Next]_vars PROVE Armed'
  OBVIOUS
<1> USE TimeoutIsNat DEF Armed, WatchdogArmed
<1>1. CASE UNCHANGED image
  BY <1>1 DEF image, timeout_cycles
<1>2. CASE OpenData
  BY <1>2 DEF OpenData, timeout_cycles
<1>3. CASE RoundWithoutSession
  BY <1>3 DEF RoundWithoutSession, timeout_cycles
<1>4. CASE Settle
  <2>1. CASE NothingNew
    BY <2>1 DEF NothingNew, timeout_cycles
  <2>2. CASE NewFrame(bus.latest)
    BY <2>2 DEF NewFrame, timeout_cycles
  <2> QED
    BY <1>4, <2>1, <2>2 DEF Settle
<1> QED
  BY <1>1, <1>2, <1>3, <1>4
     DEF Next, vars, Client, ClientSends, Arrives, Control, CloseData, Unlock, Bus, RoundSkipped,
         RoundBegins, Receive, PublishInputs

(* data.c:225: while there are outputs in the image, the watchdog is counting.            *)
THEOREM WatchdogArmedHolds == Spec => []WatchdogArmed
<1>1. Init => Armed
  BY TimeoutIsNat DEF Init, Armed, WatchdogArmed
<1>2. Armed => WatchdogArmed
  BY DEF Armed
<1> QED
  BY <1>1, <1>2, NextArmed, PTL DEF Spec

-----------------------------------------------------------------------------
(* The refinement of Outputs. *)

(* What is in a queue after a frame is appended, or taken from its head.                  *)
LEMMA QueueAppend ==
    ASSUME NEW s \in Seq(Frames), NEW f \in Frames
    PROVE  /\ Append(s, f) \in Seq(Frames)
           /\ \A k \in DOMAIN Append(s, f) :
                  Append(s, f)[k] \in {s[j] : j \in DOMAIN s} \cup {f}
<1>1. /\ Append(s, f) \in Seq(Frames)
      /\ Len(Append(s, f)) = Len(s) + 1
      /\ \A i \in 1..Len(s) : Append(s, f)[i] = s[i]
      /\ Append(s, f)[Len(s) + 1] = f
  BY AppendProperties
<1>2. DOMAIN s = 1..Len(s) /\ DOMAIN Append(s, f) = 1..(Len(s) + 1) /\ Len(s) \in Nat
  BY <1>1, LenProperties
<1> QED
  BY <1>1, <1>2

LEMMA QueueTail ==
    ASSUME NEW s \in Seq(Frames), s # <<>>
    PROVE  /\ Tail(s) \in Seq(Frames)
           /\ Head(s) \in {s[j] : j \in DOMAIN s}
           /\ \A k \in DOMAIN Tail(s) : Tail(s)[k] \in {s[j] : j \in DOMAIN s}
<1>1. /\ Tail(s) \in Seq(Frames) /\ Len(Tail(s)) = Len(s) - 1
      /\ \A i \in 1..Len(Tail(s)) : Tail(s)[i] = s[i + 1]
      /\ Head(s) = s[1]
  BY HeadTailProperties
<1>2. /\ DOMAIN s = 1..Len(s) /\ DOMAIN Tail(s) = 1..(Len(s) - 1)
      /\ Len(s) \in Nat /\ Len(s) >= 1
  BY <1>1, LenProperties, EmptySeq
<1> QED
  BY <1>1, <1>2

(* What every action but ClientSends does to the frames on the way: it adds none.         *)
LEMMA PendingShrinks ==
    ASSUME socket \in Seq(Frames), Pending \subseteq Frames,
           (\E f \in net : Arrives(f)) \/ Control \/ Bus
    PROVE  socket' \in Seq(Frames) /\ Pending' \subseteq Pending
<1>1. ASSUME NEW f \in net, Arrives(f) PROVE socket' \in Seq(Frames) /\ Pending' \subseteq Pending
  <2>1. f \in Frames
    BY DEF Pending
  <2>2. CASE socket' = Append(socket, f)
    <3>1. /\ socket' \in Seq(Frames)
          /\ \A k \in DOMAIN socket' : socket'[k] \in {socket[j] : j \in DOMAIN socket} \cup {f}
      BY <2>1, <2>2, QueueAppend
    <3> QED
      BY <1>1, <3>1 DEF Arrives, Pending
  <2>3. CASE socket' = socket
    BY <1>1, <2>3 DEF Arrives, Pending
  <2> QED
    BY <1>1, <2>2, <2>3 DEF Arrives
<1>2. CASE OpenData \/ CloseData
  <2>1. socket' = <<>> /\ net' = net /\ socket' \in Seq(Frames)
    BY <1>2, EmptySeq DEF OpenData, CloseData
  <2>2. DOMAIN socket' = {}
    BY <2>1
  <2> QED
    BY <2>1, <2>2 DEF Pending
<1>3. CASE Receive
  BY <1>3, QueueTail DEF Receive, Pending
<1>4. CASE UNCHANGED <<net, socket>>
  BY <1>4 DEF Pending
<1> QED
  BY <1>1, <1>2, <1>3, <1>4
     DEF Control, Unlock, Bus, RoundSkipped, RoundBegins, RoundWithoutSession, Settle,
         PublishInputs, env

(* Init establishes the invariant.                                                      *)
LEMMA InitIInv == Init => IInv
<1> SUFFICES ASSUME Init PROVE IInv
  OBVIOUS
<1>1. Pending = {} /\ socket \in Seq(Frames)
  BY EmptySeq DEF Init, Pending
<1> QED
  BY <1>1, DataAssumptions
     DEF Init, IInv, FramesInv, AcceptedInv, LatestInv, Frames, Zero

(* A frame the client sends is the youngest.                                            *)
LEMMA SendIInv == ASSUME IInv, NEW valid \in {"yes", "no"}, ClientSends(valid) PROVE IInv'
<1> DEFINE f == [session |-> client.session, n |-> client.n, valid |-> valid]
<1>1. /\ client.session \in Nat \ {0} /\ client.n \in Nat \ {0} /\ f \in Frames
      /\ client.session <= opened /\ Half \in Nat \ {0, 1}
  BY DataAssumptions DEF IInv, FramesInv, ClientSends, Frames
<1>2. /\ client'.session = client.session /\ client'.n = client.n + 1
      /\ client' \in [session : Nat, n : Nat \ {0}]
      /\ net' = net \cup {f}
      /\ UNCHANGED <<session, opened, lock, rx_last, accepted, newest, region, bus, socket>>
  BY <1>1 DEF ClientSends, IInv, FramesInv, rx, image
<1>3. f.n = client.n /\ f.session = client.session
  OBVIOUS
<1> HIDE DEF f
<1>4. Pending' = Pending \cup {f}
  BY <1>2 DEF Pending
<1>5. Sent \subseteq Sent' /\ f \in Sent'
  BY <1>1, <1>2, <1>3 DEF Sent, Frames
<1>6. \A g \in Pending : g.n \in Nat /\ g.n < client.n /\ client.n - g.n < Half
  BY DEF ClientSends, WithinHalf, IInv, FramesInv, Sent, Frames
<1>7. FramesInv'
  BY <1>1, <1>2, <1>3, <1>4, <1>5, <1>6 DEF IInv, FramesInv
<1>8. AcceptedInv'
  <2>1. accepted > 0 => client.n - accepted < Half
    BY DEF ClientSends, WithinHalf
  <2> QED
    BY <2>1, <1>1, <1>2, <1>3, <1>4, <1>6 DEF IInv, AcceptedInv
<1>9. LatestInv'
  BY <1>2, <1>5 DEF IInv, LatestInv
<1> QED
  BY <1>7, <1>8, <1>9 DEF IInv

(* The step of the drain loop: what it accepts is younger than all it has accepted and    *)
(* all that was ever applied.                                                          *)
LEMMA AcceptsYounger ==
    ASSUME IInv, NEW f \in Pending, Accepts(f)
    PROVE  f.n > newest /\ f.n \in Nat /\ f.session = session
<1>1. f.n \in Nat /\ accepted \in Nat /\ newest \in Nat /\ f.session = session
  BY DEF IInv, FramesInv, AcceptedInv, Sent, Frames, Accepts
<1>2. CASE accepted = 0
  BY <1>1, <1>2 DEF IInv, AcceptedInv
<1>3. CASE accepted > 0
  <2>1. rx_last = Sequence(accepted) /\ newest <= accepted
        /\ f.n - accepted < Half /\ accepted - f.n < Half
    BY <1>1, <1>3 DEF IInv, AcceptedInv
  <2>2. 2 * Half \in Nat /\ 2 * Half > 0
    BY DataAssumptions
  <2>3. Sequence(accepted) # -1
    BY <1>1, <2>2, DivMod DEF Sequence
  <2>4. SeqNewer(Sequence(f.n), Sequence(accepted))
    BY <2>1, <2>3 DEF Accepts
  <2>5. f.n > accepted
    BY <1>1, <2>1, <2>4, SeqNewerOrders
  <2> QED
    BY <1>1, <2>1, <2>5
<1> QED
  BY <1>1, <1>2, <1>3

LEMMA ReceiveIInv == ASSUME IInv, Receive PROVE IInv'
<1> DEFINE f == Head(socket)
<1>1. socket' \in Seq(Frames) /\ Pending' \subseteq Pending /\ f \in Pending
  <2>1. socket \in Seq(Frames) /\ Pending \subseteq Frames
    BY DEF IInv, FramesInv, Sent
  <2>2. socket' \in Seq(Frames) /\ Pending' \subseteq Pending
    BY <2>1, PendingShrinks DEF Bus
  <2> QED
    BY <2>1, <2>2, QueueTail DEF Receive, Pending
<1>2. /\ UNCHANGED <<session, opened, lock, newest, region, client>>
      /\ bus.pc = "drain"
  BY DEF Receive, image
<1>3. FramesInv'
  BY <1>1, <1>2 DEF IInv, FramesInv, Sent
<1>4. CASE Accepts(f)
  <2>1. rx_last' = Sequence(f.n) /\ accepted' = f.n /\ bus' = [bus EXCEPT !.latest = f]
    BY <1>4 DEF Receive
  <2>2. f \in Sent /\ f.n \in Nat /\ f.n > 0 /\ f.n < client.n
    BY <1>1 DEF IInv, FramesInv, Sent, Frames
  <2>3. f.n > newest /\ f.session = session /\ newest \in Nat
    BY <1>1, <1>4, AcceptsYounger DEF IInv, AcceptedInv
  <2> HIDE DEF f
  <2>4. \A g \in Pending' : g.n - f.n < Half /\ f.n - g.n < Half
    BY <1>1 DEF IInv, FramesInv
  <2>5. AcceptedInv'
    BY <1>2, <2>1, <2>2, <2>3, <2>4 DEF IInv, AcceptedInv, Sequence
  <2>6. bus'.pc = "drain" /\ bus'.latest = f
    BY <1>2, <2>1 DEF IInv, LatestInv
  <2>7. bus' \in [pc : {"sleep", "zero", "drain", "publish"}, latest : Frames]
    BY <2>1, <2>2 DEF IInv, LatestInv, Sent
  <2>8. LatestInv'
    BY <1>2, <2>1, <2>2, <2>3, <2>6, <2>7 DEF IInv, LatestInv, Sent
  <2> QED
    BY <1>3, <2>5, <2>8 DEF IInv
<1>5. CASE ~Accepts(f)
  <2>1. UNCHANGED <<rx_last, accepted, bus>>
    BY <1>5 DEF Receive, rx
  <2> HIDE DEF f
  <2>2. AcceptedInv'
    BY <1>1, <1>2, <2>1 DEF IInv, AcceptedInv, Sequence
  <2>3. LatestInv'
    BY <1>2, <2>1 DEF IInv, LatestInv, Sent
  <2> QED
    BY <1>3, <2>2, <2>3 DEF IInv
<1> QED
  BY <1>4, <1>5

(* Every other step.  A session that opens has no frame on the way yet: the client has    *)
(* not learnt its id.                                                                  *)
LEMMA NextIInv == IInv /\ [Next]_vars => IInv'
<1> SUFFICES ASSUME IInv, [Next]_vars PROVE IInv'
  OBVIOUS
<1> USE DEF IInv
<1>a. /\ socket \in Seq(Frames) /\ Pending \subseteq Frames
      /\ opened \in Nat /\ client.session \in Nat /\ client.session <= opened
      /\ \A f \in Pending : f.session \in Nat /\ f.session > 0 /\ f.session <= client.session
  BY DEF FramesInv, Sent, Frames
<1>1. CASE Client
  BY <1>1, SendIInv DEF Client
<1>2. ASSUME NEW f \in net, Arrives(f) PROVE IInv'
  <2>1. socket' \in Seq(Frames) /\ Pending' \subseteq Pending
    BY <1>a, <1>2, PendingShrinks
  <2>2. UNCHANGED <<session, opened, lock, rx_last, accepted, newest, region, bus, client>>
    BY <1>2 DEF Arrives, rx, image
  <2> QED
    BY <2>1, <2>2 DEF FramesInv, AcceptedInv, LatestInv, Sent, Sequence
<1>3. CASE OpenData \/ CloseData
  <2>1. socket' \in Seq(Frames) /\ Pending' \subseteq Pending
    BY <1>a, <1>3, PendingShrinks DEF Control
  <2>2. /\ session' \in {0, opened'} /\ opened' \in Nat /\ opened' >= opened
        /\ session' = 0 \/ session' > opened
        /\ rx_last' = -1 /\ accepted' = 0 /\ lock = "free" /\ lock' = "control"
        /\ UNCHANGED <<newest, region, bus, client>>
    BY <1>a, <1>3 DEF OpenData, CloseData, image
  <2>3. FramesInv'
    BY <1>a, <2>1, <2>2 DEF FramesInv, Sent
  <2>4. \A f \in Pending' : f.session # session'
    BY <1>a, <2>1, <2>2
  <2>5. AcceptedInv'
    BY <2>2, <2>4 DEF AcceptedInv, FramesInv
  <2>6. LatestInv'
    BY <2>2 DEF LatestInv
  <2> QED
    BY <2>3, <2>5, <2>6
<1>4. CASE Unlock
  <2>1. socket' \in Seq(Frames) /\ Pending' \subseteq Pending
    BY <1>a, <1>4, PendingShrinks DEF Control
  <2>2. /\ UNCHANGED <<session, opened, rx_last, accepted, newest, region, bus>>
        /\ lock = "control" /\ lock' = "free"
    BY <1>4 DEF Unlock, rx, image
  <2>3. /\ client' \in [session : Nat, n : Nat \ {0}] /\ client'.n = client.n
        /\ client.session <= client'.session /\ client'.session <= opened
    BY <1>4 DEF Unlock, FramesInv
  <2>4. Sent \subseteq Sent'
    BY <1>a, <2>3 DEF Sent, Frames
  <2>5. FramesInv'
    BY <2>1, <2>2, <2>3, <2>4 DEF FramesInv
  <2>6. AcceptedInv'
    BY <2>1, <2>2, <2>3 DEF AcceptedInv, Sequence
  <2>7. LatestInv'
    BY <2>2, <2>4 DEF LatestInv
  <2> QED
    BY <2>5, <2>6, <2>7
<1>5. CASE RoundSkipped \/ RoundBegins \/ RoundWithoutSession \/ Settle \/ PublishInputs
  <2>1. socket' \in Seq(Frames) /\ Pending' = Pending
        /\ UNCHANGED <<session, opened, rx_last, accepted, client>>
    BY <1>a, <1>5 DEF RoundSkipped, RoundBegins, RoundWithoutSession, Settle, PublishInputs,
                      rx, env, Pending
  <2>2. FramesInv'
    BY <2>1 DEF FramesInv, Sent
  <2>3. CASE Settle
    <3>1. /\ bus.pc = "drain" /\ bus' = [pc |-> "publish", latest |-> Zero] /\ lock' = "free"
          /\ \/ UNCHANGED newest /\ region' \in {Zero, region}
             \/ bus.latest # Zero /\ newest' = bus.latest.n /\ region' = bus.latest
      BY <2>3 DEF Settle, NothingNew, NewFrame
    <3>2. Zero \in Frames
      BY DEF Zero, Frames
    <3>3. AcceptedInv'
      BY <2>1, <3>1 DEF AcceptedInv, LatestInv, Sent, Frames, Sequence
    <3>4. LatestInv'
      BY <3>1, <3>2 DEF LatestInv
    <3> QED
      BY <2>2, <3>3, <3>4
  <2>4. CASE RoundSkipped \/ RoundBegins \/ RoundWithoutSession \/ PublishInputs
    <3>1. newest' = newest
      BY <2>4 DEF RoundSkipped, RoundBegins, RoundWithoutSession, PublishInputs, image
    <3>2. AcceptedInv'
      BY <2>1, <3>1 DEF AcceptedInv, Sequence
    <3>3. LatestInv'
      BY <2>4 DEF LatestInv, RoundSkipped, RoundBegins, RoundWithoutSession, PublishInputs,
                  image, Zero, Frames
    <3> QED
      BY <2>2, <3>2, <3>3
  <2> QED
    BY <1>5, <2>3, <2>4
<1>6. CASE Receive
  BY <1>6, ReceiveIInv
<1>7. CASE UNCHANGED vars
  BY <1>7 DEF vars, rx, image, env, FramesInv, AcceptedInv, LatestInv, Sent, Pending, Sequence
<1> QED
  BY <1>1, <1>2, <1>3, <1>4, <1>5, <1>6, <1>7 DEF Next, Control, Bus

(* The data session implements Outputs: whatever is lost, reordered, delayed across       *)
(* sessions or wrapped, the drain loop and the watchdog of ecat_data_apply_outputs only    *)
(* replace the image by zeros or by a younger frame of the session of the moment.          *)
THEOREM RefinesOutputs == Spec => ImplementsOutputs
<1>1. Init => Image!Init
  BY DEF Init, Image!Init, Image!Nothing, Zero
<1>2. ASSUME IInv, [Next]_vars
      PROVE  [Image!Next]_<<session, [session |-> region.session, n |-> region.n], newest>>
  <2> USE DEF IInv
  <2>1. CASE OpenData \/ CloseData
    <3>1. session' # session /\ UNCHANGED <<region, newest>>
      BY <1>2, <2>1 DEF OpenData, CloseData, FramesInv, image
    <3> QED
      BY <3>1 DEF Image!Next, Image!Sessions
  <2>2. CASE RoundWithoutSession
    <3>1. region' \in {Zero, region} /\ UNCHANGED <<session, newest>>
      BY <2>2 DEF RoundWithoutSession
    <3> QED
      BY <3>1 DEF Image!Next, Image!Safe, Image!Nothing, Zero
  <2>3. CASE Settle
    <3>1. CASE UNCHANGED newest /\ region' \in {Zero, region}
      BY <2>3, <3>1 DEF Settle, Image!Next, Image!Safe, Image!Nothing, Zero
    <3>2. CASE bus.latest # Zero /\ newest' = bus.latest.n /\ region' = bus.latest
      <4>1. region'.session = session /\ region'.n > newest /\ newest' = region'.n
            /\ session' = session
        BY <1>2, <2>3, <3>2 DEF Settle, LatestInv, AcceptedInv
      <4> QED
        BY <4>1 DEF Image!Next, Image!Take
    <3> QED
      BY <2>3, <3>1, <3>2 DEF Settle, NothingNew, NewFrame
  <2>4. CASE UNCHANGED <<session, region, newest>>
    BY <2>4
  <2> QED
    BY <1>2, <2>1, <2>2, <2>3, <2>4
       DEF Next, Client, ClientSends, Arrives, Control, Unlock, Bus, RoundSkipped, RoundBegins,
           Receive, PublishInputs, vars, image
<1> QED
  BY <1>1, <1>2, InitIInv, NextIInv, PTL DEF Spec, ImplementsOutputs, Image!Spec

=============================================================================
