----------------------------- MODULE LogProofs -----------------------------
(***************************************************************************)
(* For every ring size: the ring holds the newest entries, each where its   *)
(* id says, and the sink streams them in order (Log.tla).                   *)
(***************************************************************************)
EXTENDS Log, TLAPS

-----------------------------------------------------------------------------
(* Slots *)

\* A multiple of n strictly between 0 and n does not exist.
LEMMA NoMultipleBetween ==
    ASSUME NEW n \in Nat \ {0}, NEW k \in Int, 0 < n * k, n * k < n
    PROVE  FALSE
  <1>1. CASE k <= 0
    <2>1. n * k <= 0 BY <1>1
    <2> QED BY <2>1
  <1>2. CASE k >= 1
    <2>1. n * k >= n BY <1>2
    <2> QED BY <2>1
  <1> QED BY <1>1, <1>2

\* Two ids less than the size of the ring apart have different slots.
LEMMA SlotsDiffer ==
    ASSUME NEW a \in Nat, NEW b \in Nat, a < b, b < a + EDOG_LOG_RING_SIZE
    PROVE  Slot(a) # Slot(b)
  <1> DEFINE n == EDOG_LOG_RING_SIZE
  <1>1. n \in Nat \ {0} BY LogAssumptions
  <1> HIDE DEF n
  <1>2. SUFFICES ASSUME a % n = b % n PROVE FALSE
    BY DEF Slot, n
  <1>3. a \div n \in Int /\ a = n * (a \div n) + (a % n)
    BY <1>1
  <1>4. b \div n \in Int /\ b = n * (b \div n) + (b % n)
    BY <1>1
  <1>5. b - a = n * ((b \div n) - (a \div n))
    BY <1>1, <1>2, <1>3, <1>4
  <1>6. b < a + n
    BY DEF n
  <1>7. 0 < b - a /\ b - a < n
    BY <1>1, <1>6
  <1>8. (b \div n) - (a \div n) \in Int
    BY <1>3, <1>4
  <1> HIDE DEF n
  <1> QED BY <1>1, <1>5, <1>7, <1>8, NoMultipleBetween

-----------------------------------------------------------------------------
(* The ring and the sink *)

\* The part of the types the argument needs.
Types ==
    /\ g_next_id \in Nat \ {0}
    /\ g_ring \in [0..(EDOG_LOG_RING_SIZE - 1) -> [id : Nat, level : Nat]]
    /\ logged \in Seq(Nat) /\ Len(logged) = g_next_id - 1
    /\ sink \in [pc : {"top", "waiting", "send", "ended"}, fd : {"none", "open", "broken"},
                 sent : Nat \ {0}, id : Nat]
    /\ streamed \in Seq(Nat)

\* A slot holds the entry written there last: no older one than any of its ids.
SlotsAreYoung == \A id \in 1..(g_next_id - 1) : g_ring[Slot(id)].id >= id

\* What was streamed is behind the sink's place, the entry in hand is not.
SinkIsAhead ==
    /\ \A k \in DOMAIN streamed : streamed[k] < sink.sent
    /\ sink.pc = "send" => sink.id >= sink.sent

IInv == Types /\ RingIsFaithful /\ SlotsAreYoung /\ SinkIsAhead /\ StreamInOrder

\* A slot is one of the ring's.
LEMMA SlotType ==
    ASSUME NEW id \in Nat
    PROVE  Slot(id) \in 0..(EDOG_LOG_RING_SIZE - 1)
  BY LogAssumptions DEF Slot

\* The initial states satisfy the invariant.
LEMMA InitIInv == Init => IInv
  <1> SUFFICES ASSUME Init PROVE IInv
    OBVIOUS
  <1>1. Types
    BY LogAssumptions DEF Init, Types, NoEntry
  <1>2. RingIsFaithful /\ SlotsAreYoung
    BY LogAssumptions DEF Init, RingIsFaithful, SlotsAreYoung, oldest_id
  <1>3. SinkIsAhead /\ StreamInOrder
    BY DEF Init, SinkIsAhead, StreamInOrder, Increasing
  <1> QED BY <1>1, <1>2, <1>3 DEF IInv

\* Logging an entry overwrites the one that leaves the ring, and no other.
LEMMA vlogIInv ==
    ASSUME IInv, NEW level \in Levels, vlog(level)
    PROVE  IInv'
  <1> DEFINE e == [id |-> g_next_id, level |-> level]
  <1>a. Types /\ level \in Nat /\ EDOG_LOG_RING_SIZE \in Nat \ {0}
    BY LogAssumptions DEF IInv
  <1>b. /\ g_ring' = [g_ring EXCEPT ![Slot(g_next_id)] = e]
        /\ g_next_id' = g_next_id + 1
        /\ logged' = Append(logged, level)
        /\ sink' = sink /\ streamed' = streamed
    BY DEF vlog, thread
  <1>c. e \in [id : Nat, level : Nat] /\ Slot(g_next_id) \in 0..(EDOG_LOG_RING_SIZE - 1)
    BY <1>a, SlotType DEF Types
  <1>d. g_ring'[Slot(g_next_id)] = e
    BY <1>a, <1>b, <1>c DEF Types
  <1>1. Types'
    <2>1. g_ring' \in [0..(EDOG_LOG_RING_SIZE - 1) -> [id : Nat, level : Nat]]
      BY <1>a, <1>b, <1>c DEF Types
    <2>2. logged' \in Seq(Nat) /\ Len(logged') = g_next_id' - 1
      BY <1>a, <1>b DEF Types
    <2> QED BY <1>a, <1>b, <2>1, <2>2 DEF Types
  <1>2. RingIsFaithful'
    <2> SUFFICES ASSUME NEW id \in (oldest_id .. (g_next_id - 1))'
                 PROVE  g_ring'[Slot(id)] = [id |-> id, level |-> logged'[id]]
      BY DEF RingIsFaithful, Slot
    <2>1. id \in Nat /\ id >= 1 /\ id <= g_next_id /\ g_next_id < id + EDOG_LOG_RING_SIZE
      BY <1>a, <1>b DEF Types, oldest_id
    <2>2. CASE id = g_next_id
      <3>1. logged'[id] = level
        BY <1>a, <1>b, <2>2 DEF Types
      <3> QED BY <1>d, <2>2, <3>1
    <2>3. CASE id < g_next_id
      <3>1. Slot(id) # Slot(g_next_id)
        BY <1>a, <2>1, <2>3, SlotsDiffer DEF Types
      <3>2. g_ring'[Slot(id)] = g_ring[Slot(id)]
        BY <1>a, <1>b, <2>1, <3>1, SlotType DEF Types
      <3>3. logged'[id] = logged[id]
        BY <1>a, <1>b, <2>1, <2>3 DEF Types
      <3>4. id \in oldest_id .. (g_next_id - 1)
        BY <1>a, <2>1, <2>3 DEF Types, oldest_id
      <3> QED BY <3>2, <3>3, <3>4 DEF IInv, RingIsFaithful
    <2> QED BY <1>a, <2>1, <2>2, <2>3 DEF Types
  <1>3. SlotsAreYoung'
    <2> SUFFICES ASSUME NEW id \in 1..(g_next_id' - 1)
                 PROVE  g_ring'[Slot(id)].id >= id
      BY DEF SlotsAreYoung, Slot
    <2>0. id \in 1..g_next_id
      BY <1>a, <1>b DEF Types
    <2>1. CASE Slot(id) = Slot(g_next_id)
      BY <1>a, <1>d, <2>0, <2>1 DEF Types
    <2>2. CASE Slot(id) # Slot(g_next_id)
      <3>1. id \in 1..(g_next_id - 1)
        BY <1>a, <2>0, <2>2 DEF Types
      <3>2. g_ring'[Slot(id)] = g_ring[Slot(id)]
        BY <1>a, <1>b, <2>2, <3>1, SlotType DEF Types
      <3> QED BY <3>1, <3>2 DEF IInv, SlotsAreYoung
    <2> QED BY <2>1, <2>2
  <1>4. SinkIsAhead' /\ StreamInOrder'
    BY <1>b DEF IInv, SinkIsAhead, StreamInOrder
  <1> QED BY <1>1, <1>2, <1>3, <1>4 DEF IInv

\* The entry taken from a slot is the one asked for or a younger one.
LEMMA TakenIsYoung ==
    ASSUME IInv, NEW id \in Nat \ {0}, id < g_next_id
    PROVE  g_ring[Slot(id)].id \in Nat /\ g_ring[Slot(id)].id >= id
  <1>1. id \in 1..(g_next_id - 1)
    BY DEF IInv, Types
  <1>2. g_ring[Slot(id)] \in [id : Nat, level : Nat]
    BY SlotType DEF IInv, Types
  <1> QED BY <1>1, <1>2 DEF IInv, SlotsAreYoung

\* The sink's steps change neither the ring nor the order of the stream.
LEMMA SinkIInv ==
    ASSUME IInv, Sink
    PROVE  IInv'
  <1> DEFINE SinkType == [pc : {"top", "waiting", "send", "ended"},
                          fd : {"none", "open", "broken"}, sent : Nat \ {0}, id : Nat]
  <1>a. Types /\ sink \in SinkType /\ EDOG_LOG_RING_SIZE \in Nat \ {0}
    BY LogAssumptions DEF IInv, Types
  <1>b. UNCHANGED <<g_ring, g_next_id, logged>>
    BY DEF Sink, SinkTop, SinkWake, SinkSend, ring
  <1>c. RingIsFaithful' /\ SlotsAreYoung'
    BY <1>b DEF IInv, RingIsFaithful, SlotsAreYoung, oldest_id, Slot
  <1>1. CASE SinkTop
    <2>1. streamed' = streamed
      BY <1>1 DEF SinkTop
    <2>2. sink' \in SinkType /\ sink'.sent >= sink.sent
             /\ (sink'.pc = "send" => sink'.id >= sink'.sent)
      <3> DEFINE sent == FromOldest(sink.sent)
      <3>1. sent \in Nat \ {0} /\ sent >= sink.sent
        BY <1>a DEF FromOldest, oldest_id, Types
      <3>2. CASE sink' = [sink EXCEPT !.pc = "ended", !.fd = "none"]
        <4>1. sink' \in SinkType
          BY <1>a, <3>2
        <4>2. sink'.sent = sink.sent /\ sink'.pc = "ended" /\ sink.sent \in Nat
          BY <1>a, <3>2
        <4> QED BY <4>1, <4>2
      <3>3. CASE /\ sink' = [sink EXCEPT !.fd = IF server = "up" THEN "open" ELSE "none"]
                 /\ sink.pc = "top"
        BY <1>a, <3>3
      <3>4. CASE sink' = [sink EXCEPT !.pc = "waiting", !.sent = sent]
        BY <1>a, <3>1, <3>4
      <3>5. CASE /\ sink' = [sink EXCEPT !.pc = "send", !.sent = sent,
                                         !.id = g_ring[Slot(sent)].id]
                 /\ ~(sent >= g_next_id)
        <4>1. g_ring[Slot(sent)].id \in Nat /\ g_ring[Slot(sent)].id >= sent
          BY <1>a, <3>1, <3>5, TakenIsYoung DEF Types
        <4> HIDE DEF sent
        <4> QED BY <1>a, <3>1, <3>5, <4>1
      <3> QED BY <1>1, <3>2, <3>3, <3>4, <3>5 DEF SinkTop
    <2>3. SinkIsAhead'
      BY <1>a, <2>1, <2>2 DEF IInv, SinkIsAhead, Types
    <2> QED BY <1>a, <1>b, <1>c, <2>1, <2>2, <2>3 DEF IInv, Types, StreamInOrder
  <1>2. CASE SinkWake
    <2>1. streamed' = streamed
      BY <1>2 DEF SinkWake
    <2>2. sink' \in SinkType /\ sink'.sent = sink.sent
             /\ (sink'.pc = "send" => sink'.id >= sink'.sent)
      <3>1. CASE sink.sent < g_next_id
        <4>1. g_ring[Slot(sink.sent)].id \in Nat /\ g_ring[Slot(sink.sent)].id >= sink.sent
          BY <1>a, <3>1, TakenIsYoung
        <4> QED BY <1>2, <1>a, <3>1, <4>1 DEF SinkWake
      <3>2. CASE ~(sink.sent < g_next_id)
        BY <1>2, <1>a, <3>2 DEF SinkWake
      <3> QED BY <3>1, <3>2
    <2>3. SinkIsAhead'
      BY <1>a, <2>1, <2>2 DEF IInv, SinkIsAhead, Types
    <2> QED BY <1>a, <1>b, <1>c, <2>1, <2>2, <2>3 DEF IInv, Types, StreamInOrder
  <1>3. CASE SinkSend
    <2>1. CASE sink.fd = "open"
      <3>1. /\ sink' = [sink EXCEPT !.pc = "top", !.sent = sink.id + 1]
            /\ streamed' = Append(streamed, sink.id)
            /\ sink.id >= sink.sent
        BY <1>3, <2>1 DEF SinkSend, IInv, SinkIsAhead
      <3>2. sink' \in SinkType /\ streamed' \in Seq(Nat)
        <4>1. sink.id \in Nat /\ sink.id + 1 \in Nat \ {0}
          BY <1>a
        <4>2. sink' \in SinkType
          BY <1>a, <3>1, <4>1
        <4>3. streamed' \in Seq(Nat)
          BY <1>a, <3>1, <4>1 DEF Types
        <4> QED BY <4>2, <4>3
      <3>3. \A k \in DOMAIN streamed : streamed[k] < sink.id
        BY <1>a, <3>1 DEF IInv, SinkIsAhead, Types
      <3>4. /\ DOMAIN streamed' = 1..(Len(streamed) + 1)
            /\ \A k \in DOMAIN streamed : streamed'[k] = streamed[k]
            /\ streamed'[Len(streamed) + 1] = sink.id
            /\ DOMAIN streamed = 1..Len(streamed) /\ Len(streamed) \in Nat
        BY <1>a, <3>1 DEF Types
      <3>5. SinkIsAhead'
        <4>1. \A k \in DOMAIN streamed' : streamed'[k] < sink.id + 1
          <5>1. sink.id \in Nat /\ \A k \in DOMAIN streamed : streamed[k] \in Nat
            BY <1>a DEF Types
          <5>2. \A k \in DOMAIN streamed : streamed'[k] < sink.id + 1
            BY <3>3, <3>4, <5>1
          <5>3. streamed'[Len(streamed) + 1] < sink.id + 1
            BY <3>4, <5>1
          <5> QED BY <3>4, <5>2, <5>3
        <4> QED BY <1>a, <3>1, <4>1 DEF SinkIsAhead
      <3>6. StreamInOrder'
        <4> SUFFICES ASSUME NEW i \in DOMAIN streamed', NEW j \in DOMAIN streamed', i < j
                     PROVE  streamed'[i] < streamed'[j]
          BY DEF StreamInOrder, Increasing
        <4>1. i \in DOMAIN streamed
          BY <3>4
        <4>2. CASE j \in DOMAIN streamed
          BY <3>4, <4>1, <4>2 DEF IInv, StreamInOrder, Increasing
        <4>3. CASE j = Len(streamed) + 1
          BY <3>3, <3>4, <4>1, <4>3
        <4> QED BY <3>4, <4>2, <4>3
      <3> QED BY <1>a, <1>b, <1>c, <3>2, <3>5, <3>6 DEF IInv, Types
    <2>2. CASE sink.fd # "open"
      <3>1. sink' = [sink EXCEPT !.pc = "top", !.fd = "none"] /\ streamed' = streamed
        BY <1>3, <2>2 DEF SinkSend
      <3>2. sink' \in SinkType /\ sink'.sent = sink.sent /\ sink'.pc = "top"
        BY <1>a, <3>1
      <3> QED BY <1>a, <1>b, <1>c, <3>1, <3>2 DEF IInv, Types, SinkIsAhead, StreamInOrder
    <2> QED BY <2>1, <2>2
  <1> QED BY <1>1, <1>2, <1>3 DEF Sink

\* Every step preserves the invariant.
LEMMA NextIInv == IInv /\ [Next]_vars => IInv'
  <1> SUFFICES ASSUME IInv, [Next]_vars PROVE IInv'
    OBVIOUS
  <1> DEFINE Same == UNCHANGED <<g_ring, g_next_id, logged, sink, streamed>>
  <1>0. Same => IInv'
    BY DEF IInv, Types, RingIsFaithful, SlotsAreYoung, SinkIsAhead, StreamInOrder, oldest_id,
           Slot
  <1>1. ASSUME NEW level \in Levels, vlog(level) PROVE IInv'
    BY <1>1, vlogIInv
  <1>2. CASE Sink
    BY <1>2, SinkIInv
  <1>3. CASE StopSink
    BY <1>0, <1>3 DEF StopSink, ring
  <1>4. CASE ServerChanges
    <2>1. UNCHANGED <<g_ring, g_next_id, logged, streamed>>
      BY <1>4 DEF ServerChanges, ring
    <2>2. sink' = sink \/ sink' = [sink EXCEPT !.fd = "broken"]
      BY <1>4 DEF ServerChanges
    <2> QED
      BY <2>1, <2>2 DEF IInv, Types, RingIsFaithful, SlotsAreYoung, SinkIsAhead,
                        StreamInOrder, oldest_id, Slot
  <1>5. ASSUME NEW max \in Limits, Logs(max) PROVE IInv'
    BY <1>0, <1>5 DEF Logs, ring, thread
  <1>6. CASE LogsNextId
    BY <1>0, <1>6 DEF LogsNextId, ring, thread
  <1>7. CASE UNCHANGED vars
    BY <1>0, <1>7 DEF vars, ring, thread
  <1> QED BY <1>1, <1>2, <1>3, <1>4, <1>5, <1>6, <1>7 DEF Next

\* The invariant holds.
LEMMA IInvHolds == Spec => []IInv
  BY InitIInv, NextIInv, PTL DEF Spec

\* A reader that takes slot id % size for an id between oldest_id and g_next_id gets that
\* entry, for any ring size and any number of entries (vlog, edog_log_query, sink_thread).
THEOREM RingIsFaithfulHolds == Spec => []RingIsFaithful
  <1>1. IInv => RingIsFaithful
    BY DEF IInv
  <1> QED BY <1>1, IInvHolds, PTL

\* The log server gets every entry at most once and in order, however often the ring goes
\* round while the sink waits or is disconnected (sink_thread).
THEOREM StreamInOrderHolds == Spec => []StreamInOrder
  <1>1. IInv => StreamInOrder
    BY DEF IInv
  <1> QED BY <1>1, IInvHolds, PTL

=============================================================================
