-------------------------------- MODULE Log --------------------------------
(***************************************************************************)
(* The log of src/log.c: a ring of the newest entries that every thread     *)
(* writes to, the sink thread that streams it to a log server, and a client *)
(* that follows it with the logs command (logs_response of src/control.c).   *)
(* g_mutex makes each access to the ring one step; the sink gives it up      *)
(* while it waits, and logs takes it twice.                                  *)
(***************************************************************************)
EXTENDS Naturals, Sequences, SequencesExt

CONSTANTS
    EDOG_LOG_RING_SIZE,
    Levels,      \* levels of recorded entries (numbers)
    Limits,      \* values a client passes as max
    MaxEntries   \* bound: entries logged in a behaviour

ASSUME LogAssumptions ==
    /\ EDOG_LOG_RING_SIZE \in Nat \ {0}
    /\ Levels \subseteq Nat
    /\ Limits \subseteq Nat
    /\ MaxEntries \in Nat

VARIABLES
    g_ring,      \* slot -> [id, level]
    g_next_id,
    g_sink_run,  \* "yes" or "no"
    sink,        \* sink thread: [pc, fd, sent, id], id that of the entry in hand
    server,      \* log server: "up" or "down"
    client,      \* client of logs: [pc, level, min_id]
    logged,      \* history: the levels of all entries, by id
    streamed,    \* history: ids sent to the log server
    replied,     \* history: ids in the replies to the client
    missed       \* history: ids gone from the ring when the client asked for them

ring == <<g_ring, g_next_id, logged>>
thread == <<g_sink_run, sink, server, streamed>>
follower == <<client, replied, missed>>
vars == <<ring, thread, follower>>

Slot(id) == id % EDOG_LOG_RING_SIZE
NoEntry == [id |-> 0, level |-> 0]

\* edog_log_start_sink has created the sink thread.
Init ==
    /\ g_ring = [k \in 0..(EDOG_LOG_RING_SIZE - 1) |-> NoEntry]
    /\ g_next_id = 1
    /\ g_sink_run = "yes"
    /\ sink = [pc |-> "top", fd |-> "none", sent |-> 1, id |-> 0]
    /\ server = "up"
    /\ client \in [pc : {"idle"}, level : Levels, min_id : {0}]
    /\ logged = <<>> /\ streamed = <<>> /\ replied = <<>> /\ missed = {}

vlog(level) ==
    /\ g_next_id <= MaxEntries
    /\ g_ring' = [g_ring EXCEPT ![Slot(g_next_id)] = [id |-> g_next_id, level |-> level]]
    /\ g_next_id' = g_next_id + 1
    /\ logged' = Append(logged, level)
    /\ UNCHANGED <<thread, follower>>

\* A slip in oldest_id: one entry too many is taken to be in the ring.
oldest_id_early ==
    IF g_next_id > EDOG_LOG_RING_SIZE + 1 THEN g_next_id - EDOG_LOG_RING_SIZE - 1 ELSE 1

oldest_id ==
    IF g_next_id > EDOG_LOG_RING_SIZE THEN g_next_id - EDOG_LOG_RING_SIZE ELSE 1

FromOldest(id) == IF id < oldest_id THEN oldest_id ELSE id

-----------------------------------------------------------------------------
(* sink_thread *)

\* A slip in SinkTop: the flag is only looked at without a connection.
SinkTopConnected ==
    /\ sink.pc = "top"
    /\ \/ g_sink_run = "no" /\ sink.fd = "none" /\ sink' = [sink EXCEPT !.pc = "ended"]
       \/ /\ g_sink_run = "yes" /\ sink.fd = "none"
          /\ sink' = [sink EXCEPT !.fd = IF server = "up" THEN "open" ELSE "none"]
       \/ /\ sink.fd # "none"
          /\ LET sent == FromOldest(sink.sent) IN
             sink' = IF sent >= g_next_id
                     THEN [sink EXCEPT !.pc = "waiting", !.sent = sent]
                     ELSE [sink EXCEPT !.pc = "send", !.sent = sent, !.id = g_ring[Slot(sent)].id]
    /\ UNCHANGED <<ring, follower, g_sink_run, server, streamed>>

\* Stop when told to; connect, or sleep a second and try again; else take the next entry
\* that is still in the ring, or wait for one.
SinkTop ==
    /\ sink.pc = "top"
    /\ \/ g_sink_run = "no" /\ sink' = [sink EXCEPT !.pc = "ended", !.fd = "none"]
       \/ /\ g_sink_run = "yes" /\ sink.fd = "none"
          /\ sink' = [sink EXCEPT !.fd = IF server = "up" THEN "open" ELSE "none"]
       \/ /\ g_sink_run = "yes" /\ sink.fd # "none"
          /\ LET sent == FromOldest(sink.sent) IN
             sink' = IF sent >= g_next_id
                     THEN [sink EXCEPT !.pc = "waiting", !.sent = sent]
                     ELSE [sink EXCEPT !.pc = "send", !.sent = sent, !.id = g_ring[Slot(sent)].id]
    /\ UNCHANGED <<ring, follower, g_sink_run, server, streamed>>

\* Signalled, or a second has passed.  The ring may have gone round in the meantime.
SinkWake ==
    /\ sink.pc = "waiting"
    /\ sink' = IF sink.sent < g_next_id
               THEN [sink EXCEPT !.pc = "send", !.id = g_ring[Slot(sink.sent)].id]
               ELSE [sink EXCEPT !.pc = "top"]
    /\ UNCHANGED <<ring, follower, g_sink_run, server, streamed>>

\* A slip in SinkSend: the next entry is counted from sent, not from the entry in hand.
SinkSendCounts ==
    /\ sink.pc = "send"
    /\ IF sink.fd = "open"
       THEN /\ sink' = [sink EXCEPT !.pc = "top", !.sent = sink.sent + 1]
            /\ streamed' = Append(streamed, sink.id)
       ELSE sink' = [sink EXCEPT !.pc = "top", !.fd = "none"] /\ UNCHANGED streamed
    /\ UNCHANGED <<ring, follower, g_sink_run, server>>

\* A slip in SinkSend: a broken connection is kept.
SinkSendKeeps ==
    /\ sink.pc = "send"
    /\ IF sink.fd = "open"
       THEN /\ sink' = [sink EXCEPT !.pc = "top", !.sent = sink.id + 1]
            /\ streamed' = Append(streamed, sink.id)
       ELSE sink' = [sink EXCEPT !.pc = "top"] /\ UNCHANGED streamed
    /\ UNCHANGED <<ring, follower, g_sink_run, server>>

\* The entry is sent, or the connection is closed and the entry sent again over the next.
SinkSend ==
    /\ sink.pc = "send"
    /\ IF sink.fd = "open"
       THEN /\ sink' = [sink EXCEPT !.pc = "top", !.sent = sink.id + 1]
            /\ streamed' = Append(streamed, sink.id)
       ELSE sink' = [sink EXCEPT !.pc = "top", !.fd = "none"] /\ UNCHANGED streamed
    /\ UNCHANGED <<ring, follower, g_sink_run, server>>

\* edog_log_stop_sink, which then joins the thread.
StopSink ==
    /\ g_sink_run = "yes"
    /\ g_sink_run' = "no"
    /\ UNCHANGED <<ring, follower, sink, server, streamed>>

\* The log server goes down, taking the connection with it, or comes back.
ServerChanges ==
    /\ server' = IF server = "up" THEN "down" ELSE "up"
    /\ sink' = IF server = "up" /\ sink.fd = "open" THEN [sink EXCEPT !.fd = "broken"] ELSE sink
    /\ UNCHANGED <<ring, follower, g_sink_run, streamed>>

-----------------------------------------------------------------------------
(* logs_response: the client asks with the next_id of the last reply as min_id. *)

\* edog_log_query: the ids the reply lists.
edog_log_query(min_id, min_level, max) ==
    LET from == FromOldest(min_id)
        entries == [k \in 1..(IF from < g_next_id THEN g_next_id - from ELSE 0) |->
                        g_ring[Slot(from + k - 1)]]
        found == SelectSeq(entries, LAMBDA e : e.level >= min_level)
        n == IF Len(found) < max THEN Len(found) ELSE max
    IN  [k \in 1..n |-> found[k].id]

LimitOf(max) ==
    IF max < 1 THEN 1 ELSE IF max > EDOG_LOG_RING_SIZE THEN EDOG_LOG_RING_SIZE ELSE max

\* A slip in Logs: next_id is the last id of the reply.
LogsRepeats(max) ==
    /\ client.pc = "idle"
    /\ LET ids == edog_log_query(client.min_id, client.level, LimitOf(max)) IN
       /\ replied' = replied \o ids
       /\ client' = IF ids # <<>> THEN [client EXCEPT !.min_id = Last(ids)]
                    ELSE [client EXCEPT !.pc = "next_id"]
    /\ missed' = missed \cup (client.min_id .. (oldest_id - 1))
    /\ UNCHANGED <<ring, thread>>

\* The entries are copied; the next_id of a reply that lists any follows from the last.
Logs(max) ==
    /\ client.pc = "idle"
    /\ LET ids == edog_log_query(client.min_id, client.level, LimitOf(max)) IN
       /\ replied' = replied \o ids
       /\ client' = IF ids # <<>> THEN [client EXCEPT !.min_id = Last(ids) + 1]
                    ELSE [client EXCEPT !.pc = "next_id"]
    /\ missed' = missed \cup (client.min_id .. (oldest_id - 1))
    /\ UNCHANGED <<ring, thread>>

\* The next_id of an empty reply is read afterwards, with the lock taken again.
LogsNextId ==
    /\ client.pc = "next_id"
    /\ client' = [client EXCEPT !.pc = "idle", !.min_id = g_next_id]
    /\ UNCHANGED <<ring, thread, replied, missed>>

-----------------------------------------------------------------------------
Sink == SinkTop \/ SinkWake \/ SinkSend

Next ==
    \/ \E level \in Levels : vlog(level)
    \/ Sink \/ StopSink \/ ServerChanges
    \/ (\E max \in Limits : Logs(max)) \/ LogsNextId

Spec == Init /\ [][Next]_vars

(* The sink thread keeps running; nothing is assumed of the other threads, the client or   *)
(* the log server.                                                                        *)
FairSpec == Spec /\ WF_vars(Sink)

-----------------------------------------------------------------------------
(* The variables have their types; nothing is sent that was not logged.                  *)
TypeOK ==
    /\ g_next_id \in 1..(MaxEntries + 1) /\ Len(logged) = g_next_id - 1
    /\ g_ring \in [0..(EDOG_LOG_RING_SIZE - 1) -> [id : 0..MaxEntries, level : {0} \cup Levels]]
    /\ g_sink_run \in {"yes", "no"} /\ server \in {"up", "down"}
    /\ sink \in [pc : {"top", "waiting", "send", "ended"}, fd : {"none", "open", "broken"},
                 sent : 1..(MaxEntries + 1), id : 0..MaxEntries]
    /\ client \in [pc : {"idle", "next_id"}, level : Levels, min_id : 0..(MaxEntries + 1)]
    /\ streamed \in Seq(1..MaxEntries) /\ replied \in Seq(1..MaxEntries)
    /\ missed \subseteq 0..MaxEntries

(* The ring holds the newest EDOG_LOG_RING_SIZE entries, each where its id says           *)
(* (log.c:25): whatever a reader takes from slot id % size, between oldest_id and          *)
(* g_next_id, is the entry with that id.                                                  *)
RingIsFaithful ==
    \A id \in oldest_id .. (g_next_id - 1) :
        g_ring[Slot(id)] = [id |-> id, level |-> logged[id]]

Increasing(s) == \A i, j \in DOMAIN s : i < j => s[i] < s[j]

(* The log server gets every entry at most once and in order, although the ring goes round *)
(* while the sink waits or is disconnected (log.c:229, 262).                               *)
StreamInOrder == Increasing(streamed)

(* So does a client that passes each next_id on as min_id (control.c:221).                 *)
RepliesInOrder == Increasing(replied)

(* Once the log server stays up, the sink catches up with every entry, unless it is told   *)
(* to stop; and then it ends, so that edog_log_stop_sink returns.                           *)
SinkCatchesUp ==
    <>[](server = "up") =>
        \A id \in 1..MaxEntries : (g_next_id > id) ~> (sink.sent > id \/ g_sink_run = "no")
SinkEnds == (g_sink_run = "no") ~> (sink.pc = "ended")

(* docs/PROTOCOL.md:99 calls next_id "the value to pass as `min_id` next time": a client    *)
(* that does so gets every entry of its level that was in the ring when it asked.           *)
FollowerMissesNothing ==
    \A id \in 1..(client.min_id - 1) :
        logged[id] >= client.level => id \in missed \cup ToSet(replied)

=============================================================================
