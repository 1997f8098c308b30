----------------------------- MODULE RawTxSession -----------------------------
(***************************************************************************)
(* Sessions of raw 802.11 transmission (wifi_raw_tx_session.c), each with  *)
(* its queue of packets (wifi_raw_tx_queue.c), the lane that lets one of   *)
(* them use the driver (wifi_raw_tx_lane.c) and the pump that starts their *)
(* workers without the script's help (wifi_raw_tx_pump.c).  Calls of the   *)
(* script and steps of the workers hold a session's mutex one at a time;   *)
(* a close can be requested between any two of them.  What the driver      *)
(* says of a packet comes from RawTxBroker.                                *)
(***************************************************************************)
EXTENDS Naturals, Sequences, FiniteSets, SequencesExt, FiniteSetsExt

CONSTANTS
    Sessions,            \* slots of s_sessions, numbers
    Rated,               \* sessions with a temporary rate: they keep the lane
    Capacity, CapacityBytes, Window,
    DropOldest,          \* overflow: drop-oldest-batch, not reject-newest
    Batches,             \* batches of packets the script may queue: sequences of lengths
    Polls,               \* the script's loop services the sessions, not the pump alone
    MaxPackets, MaxFutures, MaxFaults    \* bounds

VARIABLES
    ses,       \* sessions
    q,         \* their queues: pending and in flight packets, last sequence, closed, totals
    fut,       \* Futures: sends (result records) and flushes (watches)
    lane,      \* the active session or 0, and the next identity
    w,         \* workers: program counter and locals, by session
    nat,       \* what the driver knows of a packet, by session and sequence
    pump,      \* queued, the sessions its worker has to service, timer armed
    fate,      \* how a packet ended, by session and sequence
    faults

vars == <<ses, q, fut, lane, w, nat, pump, fate, faults>>

Seqs == 1 .. MaxPackets
Futures == 1 .. MaxFutures
Outcomes == {"success", "failed", "rejected", "aborted", "dropped"}
Totals == [admitted |-> 0, submitted |-> 0, settled |-> 0, by |-> [o \in Outcomes |-> 0]]
NoSession == [state |-> "none", refs |-> 0, handle |-> FALSE, hold |-> FALSE, close |-> FALSE, closed |-> FALSE, open |-> FALSE,
              faulted |-> FALSE, busy |-> FALSE, stop |-> FALSE, lease |-> FALSE, lane |-> 0, acquired |-> FALSE,
              later |-> FALSE, window |-> [i \in 1 .. Window |-> 0]]
NoQueue == [pending |-> <<>>, flying |-> {}, last |-> 0, closed |-> FALSE, totals |-> Totals,
            batch |-> [p \in Seqs |-> 0]]    \* the batch a packet came with
NoFuture == [kind |-> "none", session |-> 0, seq |-> 0, result |-> "pending", pending |-> 0, totals |-> Totals]
NoWorker == [at |-> "none", opening |-> FALSE, closing |-> FALSE, error |-> FALSE, i |-> 0, ticket |-> 0]

Init ==
    /\ ses = [s \in Sessions |-> NoSession] /\ q = [s \in Sessions |-> NoQueue]
    /\ fut = [f \in Futures |-> NoFuture] /\ lane = [active |-> 0, next |-> 1]
    /\ w = [s \in Sessions |-> NoWorker] /\ nat = [s \in Sessions |-> [p \in Seqs |-> "none"]]
    /\ pump = [queued |-> FALSE, todo |-> {}, at |-> "idle", timer |-> FALSE]
    /\ fate = [s \in Sessions |-> [p \in Seqs |-> "none"]] /\ faults = 0

Fault == faults < MaxFaults /\ faults' = faults + 1
Live(s) == ses[s].state = "live"
Bytes(s) == FoldSeq(LAMBDA e, n : e.size + n, 0, q[s].pending) + FoldSet(LAMBDA e, n : e.size + n, 0, q[s].flying)
Held(s) == Len(q[s].pending) + Cardinality(q[s].flying)
SumSizes(b) == FoldSeq(LAMBDA e, n : e + n, 0, b)
\* A loop that services at any time does all the pump could.
Waked == IF Polls THEN pump ELSE [pump EXCEPT !.queued = TRUE]
-------------------------------------------------------------------------------
(* The queue: pure functions of a queue and of the flushes that watch it. *)

\* count_terminal.
Counted(t, o) == [t EXCEPT !.settled = @ + 1, !.by[o] = @ + 1]

\* settle: the totals, and every flush whose fence is not before the packet.
\* Mutation: a flush counts packets that came after it.
Settled_all(s, t, fs, p, o) == <<Counted(t, o), [f \in Futures |-> IF fs[f].kind = "flush" /\ fs[f].session = s
                                   THEN [fs[f] EXCEPT !.pending = IF @ > 0 THEN @ - 1 ELSE 0, !.totals = Counted(@, o)] ELSE fs[f]]>>
Settled(s, t, fs, p, o) ==
    <<Counted(t, o),
      [f \in Futures |-> IF fs[f].kind = "flush" /\ fs[f].session = s /\ p <= fs[f].seq
                         THEN [fs[f] EXCEPT !.pending = @ - 1, !.totals = Counted(@, o)] ELSE fs[f]]>>
SettledMany(s, t, fs, ps) == FoldSeq(LAMBDA e, a : Settled(s, a[1], a[2], e.seq, "dropped"), <<t, fs>>, ps)

\* session_result_publish: a result is settled once; only an uncertain one may
\* still turn out to have ended with the driver.

Published(s, fs, p, kind) ==
    [f \in Futures |-> IF /\ fs[f].kind = "send" /\ fs[f].session = s /\ fs[f].seq = p
                          /\ \/ fs[f].result = "pending"
                             \/ fs[f].result = "uncertain" /\ kind = "terminated"
                       THEN [fs[f] EXCEPT !.result = kind] ELSE fs[f]]
PublishedDrops(s, fs, ps) == FoldSeq(LAMBDA e, a : Published(s, a, e.seq, "dropped"), fs, ps)
Fated(s, ps, o) == [fate EXCEPT ![s] = [p \in Seqs |-> IF \E i \in 1 .. Len(ps) : ps[i].seq = p THEN o ELSE @[p]]]

\* evict_batch: the oldest batches of which nothing has been taken yet, as many
\* as the new packets need.
Evicted(s, n, size) ==
    LET unstarted == SelectSeq(q[s].pending, LAMBDA e : ~e.started)
        Upto(b) == SelectSeq(unstarted, LAMBDA e : e.batch <= b)
        Fits(b) == LET u == Upto(b) IN
                   /\ Held(s) - Len(u) + n <= Capacity
                   /\ Bytes(s) - FoldSeq(LAMBDA e, k : e.size + k, 0, u) + size <= CapacityBytes
        b0 == Min({b \in {0} \cup {unstarted[i].batch : i \in 1 .. Len(unstarted)} : Fits(b)})
    IN Upto(b0)

\* esp32_mquickjs_wifi_raw_tx_queue_admit: whether there is room.
Room(s, n, size) == Held(s) + n <= Capacity /\ Bytes(s) + size <= CapacityBytes
Evictable(s, n, size) ==
    LET u == SelectSeq(q[s].pending, LAMBDA e : ~e.started) IN
    /\ DropOldest /\ size <= CapacityBytes /\ Held(s) - Len(u) + n <= Capacity
    /\ Bytes(s) - FoldSeq(LAMBDA e, k : e.size + k, 0, u) + size <= CapacityBytes

\* The packets of a batch behind what stays of the queue.
Admitted(s, b) ==
    LET gone == Evicted(s, Len(b), SumSizes(b))
        first == q[s].last + 1
        new == [i \in 1 .. Len(b) |-> [seq |-> q[s].last + i, batch |-> first, size |-> b[i], started |-> FALSE]]
        kept == SelectSeq(q[s].pending, LAMBDA e : ~\E i \in 1 .. Len(gone) : gone[i] = e)
    IN [gone |-> gone, pending |-> kept \o new]

\* esp32_mquickjs_wifi_raw_tx_queue_take.
Taken(s) ==
    LET e == Head(q[s].pending)
        rest == Tail(q[s].pending)
    IN [q[s] EXCEPT !.pending = [i \in 1 .. Len(rest) |-> [rest[i] EXCEPT !.started = @ \/ rest[i].batch = e.batch]],
                    !.flying = @ \cup {[seq |-> e.seq, batch |-> e.batch, size |-> e.size, accepted |-> FALSE]}]
Flying(s, p) == CHOOSE e \in q[s].flying : e.seq = p

\* esp32_mquickjs_wifi_raw_tx_queue_accept.
Accepted(s, p) ==
    LET e == Flying(s, p) IN
    [q[s] EXCEPT !.flying = (@ \ {e}) \cup {[e EXCEPT !.accepted = TRUE]}, !.totals.submitted = @ + 1]
FlushAccepted(s, p) == [f \in Futures |-> IF fut[f].kind = "flush" /\ fut[f].session = s /\ p <= fut[f].seq
                                          THEN [fut[f] EXCEPT !.totals.submitted = @ + 1] ELSE fut[f]]
-------------------------------------------------------------------------------
(* The script's calls, and the ends of its Futures. *)

\* esp32_mquickjs_wifi_raw_tx_session_new: the caller and the clean-up hold it.
session_new(s) ==
    /\ ses[s].state = "none" /\ \A r \in Sessions : r < s => ses[r].state # "none"
    /\ ses' = [ses EXCEPT ![s] = [NoSession EXCEPT !.state = "live", !.refs = 2, !.handle = TRUE, !.hold = TRUE]]
    /\ pump' = Waked
    /\ UNCHANGED <<q, fut, lane, w, nat, fate, faults>>

\* esp32_mquickjs_wifi_raw_tx_session_request_close.
request_close(s) ==
    /\ Live(s) /\ ses[s].handle /\ ~ses[s].close
    /\ ses' = [ses EXCEPT ![s].close = TRUE] /\ pump' = Waked
    /\ UNCHANGED <<q, fut, lane, w, nat, fate, faults>>

\* esp32_mquickjs_wifi_raw_tx_session_release: n references are dropped; the
\* last one of a closed session frees it.
Released(r, n) ==
    IF r.refs > n THEN [r EXCEPT !.refs = @ - n]
    ELSE IF r.closed THEN [r EXCEPT !.refs = 0, !.state = "freed"] ELSE [r EXCEPT !.refs = 1]

\* handle_release: by the close that has seen the session closed, or by the
\* collector, which asks for the close first.
handle_release(s) ==
    /\ Live(s) /\ ses[s].handle
    /\ ses' = [ses EXCEPT ![s] = [Released([ses[s] EXCEPT !.close = TRUE], 1) EXCEPT !.handle = FALSE]]
    /\ pump' = IF ses[s].closed THEN pump ELSE Waked
    /\ UNCHANGED <<q, fut, lane, w, nat, fate, faults>>

\* session_admit_locked: a batch of packets, or one with a Future for its result.
MayAdmit(s, b) ==
    /\ Live(s) /\ ses[s].handle /\ ses[s].open /\ ~ses[s].faulted /\ ~ses[s].close
    /\ q[s].last + Len(b) <= MaxPackets
    /\ Room(s, Len(b), SumSizes(b)) \/ Evictable(s, Len(b), SumSizes(b))
Admit(s, b, fs) ==
    LET a == Admitted(s, b)
        t == [q[s].totals EXCEPT !.admitted = @ + Len(b)]
        settled == SettledMany(s, t, fs, a.gone)
    IN /\ q' = [q EXCEPT ![s].pending = a.pending, ![s].last = @ + Len(b), ![s].totals = settled[1],
                           ![s].batch = [p \in Seqs |-> IF p \in q[s].last + 1 .. q[s].last + Len(b) THEN q[s].last + 1 ELSE @[p]]]
       /\ fut' = PublishedDrops(s, settled[2], a.gone)
       /\ fate' = Fated(s, a.gone, "dropped")
       /\ pump' = Waked

session_admit(s, b) ==
    /\ MayAdmit(s, b) /\ Admit(s, b, fut)
    /\ ses' = [ses EXCEPT ![s].later = FALSE]
    /\ UNCHANGED <<lane, w, nat, faults>>

Unused(f) == fut[f].kind = "none" /\ \A g \in Futures : g < f => fut[g].kind # "none"

session_admit_result(s, f) ==
    /\ Unused(f) /\ MayAdmit(s, <<1>>)
    /\ Admit(s, <<1>>, [fut EXCEPT ![f] = [NoFuture EXCEPT !.kind = "send", !.session = s, !.seq = q[s].last + 1]])
    /\ ses' = [ses EXCEPT ![s].refs = @ + 1, ![s].later = FALSE]
    /\ UNCHANGED <<lane, w, nat, faults>>

\* esp32_mquickjs_wifi_raw_tx_session_flush_begin.
session_flush_begin(s, f) ==
    /\ Unused(f) /\ Live(s) /\ ses[s].handle
    /\ fut' = [fut EXCEPT ![f] = [NoFuture EXCEPT !.kind = "flush", !.session = s, !.seq = q[s].last,
                  !.pending = q[s].totals.admitted - q[s].totals.settled, !.totals = q[s].totals]]
    /\ ses' = [ses EXCEPT ![s].refs = @ + 1] /\ pump' = Waked
    /\ UNCHANGED <<q, lane, w, nat, fate, faults>>

\* esp32_mquickjs_wifi_raw_tx_session_periodic_acquire: a periodic job holds the
\* session, and keeps it from closing until it is gone.
session_periodic_acquire(s, f) ==
    /\ Unused(f) /\ Live(s) /\ ses[s].handle /\ ses[s].open /\ ~ses[s].faulted /\ ~ses[s].close
    /\ fut' = [fut EXCEPT ![f] = [NoFuture EXCEPT !.kind = "job", !.session = s]]
    /\ ses' = [ses EXCEPT ![s].refs = @ + 1]
    /\ UNCHANGED <<q, lane, w, nat, pump, fate, faults>>

Jobs(s) == {f \in Futures : fut[f].kind = "job" /\ fut[f].session = s}
Users(s) == {f \in Futures : fut[f].kind \in {"send", "flush", "job"} /\ fut[f].session = s}

\* session_future_destroy: the Future has its result, was cancelled or timed
\* out, and a job has ended: the record or the watch is taken off the session.
session_future_destroy(f) ==
    /\ fut[f].kind \in {"send", "flush", "job"}
    /\ fut' = [fut EXCEPT ![f] = [NoFuture EXCEPT !.kind = "done"]]
    /\ ses' = [ses EXCEPT ![fut[f].session] = Released(@, 1)]
    /\ UNCHANGED <<q, lane, w, nat, pump, fate, faults>>
-------------------------------------------------------------------------------
(* The service, by the pump's worker or by the script's loop. *)

InFlight(s) == q[s].flying # {}
Tokens(s) == {i \in 1 .. Window : ses[s].window[i] # 0}
Ready(s) ==
    \/ q[s].pending # <<>> /\ Cardinality(q[s].flying) < Window /\ ~ses[s].faulted
    \/ \E i \in Tokens(s) : nat[s][ses[s].window[i]] # "active"

\* esp32_mquickjs_wifi_raw_tx_lane_acquire: the oldest request, when no one is
\* active.

LaneGrants(s, id) ==
    \/ lane.active = s
    \/ lane.active = 0 /\ \A r \in Sessions \ {s} : ses[r].lane # 0 => ses[r].lane > id

Work(s) ==
    \/ ~ses[s].open \/ q[s].pending # <<>> \/ ses[s].close \/ Tokens(s) # {}
    \/ ses[s].lane # 0 /\ (s \notin Rated \/ ~ses[s].acquired)
Serviceable(s) == Live(s) /\ Work(s) /\ ~ses[s].busy /\ ~ses[s].later /\ ~ses[s].closed

\* esp32_mquickjs_wifi_raw_tx_sessions_service, for one session.
Service(s) ==
    IF ~Serviceable(s) THEN UNCHANGED <<ses, lane, w>>
    ELSE LET wants == ~ses[s].close /\ ses[s].lane # 0 /\ ~ses[s].acquired
             got == wants /\ LaneGrants(s, ses[s].lane)
             submit == /\ wants => got
                       /\ (~ses[s].close /\ InFlight(s)) => Ready(s)
         IN /\ lane' = IF got THEN [lane EXCEPT !.active = s] ELSE lane
            /\ ses' = [ses EXCEPT ![s].acquired = @ \/ got, ![s].busy = submit, ![s].refs = IF submit THEN @ + 1 ELSE @]
            /\ w' = IF submit THEN [w EXCEPT ![s] = [NoWorker EXCEPT !.at = "begin"]] ELSE w

runtime_service(s) ==
    /\ Polls /\ Serviceable(s) /\ Service(s)
    /\ UNCHANGED <<q, fut, nat, pump, fate, faults>>

\* pump_worker: every session, then the flag, then the retry timer.
pump_start ==
    /\ pump.queued /\ pump.at = "idle"
    /\ pump' = [pump EXCEPT !.at = "service", !.todo = {s \in Sessions : Live(s)}]
    /\ UNCHANGED <<ses, q, fut, lane, w, nat, fate, faults>>

pump_service ==
    /\ pump.at = "service" /\ pump.todo # {}
    /\ LET s == Min(pump.todo) IN
       /\ Service(s) /\ pump' = [pump EXCEPT !.todo = @ \ {s}]
    /\ UNCHANGED <<q, fut, nat, fate, faults>>

pump_served ==
    /\ pump.at = "service" /\ pump.todo = {}
    /\ pump' = [pump EXCEPT !.at = "retry", !.queued = FALSE]
    /\ UNCHANGED <<ses, q, fut, lane, w, nat, fate, faults>>

\* esp32_mquickjs_wifi_raw_tx_sessions_need_service.
NeedService ==
    \E s \in Sessions : /\ Live(s) /\ ~ses[s].closed
                        /\ ses[s].busy \/ ~ses[s].open \/ q[s].pending # <<>> \/ InFlight(s) \/ ses[s].close

pump_end ==
    /\ pump.at = "retry"
    /\ pump' = [pump EXCEPT !.at = "idle", !.timer = @ \/ NeedService]
    /\ UNCHANGED <<ses, q, fut, lane, w, nat, fate, faults>>

\* pump_retry.
pump_retry ==
    /\ pump.timer /\ pump' = [pump EXCEPT !.timer = FALSE, !.queued = TRUE]
    /\ UNCHANGED <<ses, q, fut, lane, w, nat, fate, faults>>

\* esp32_mquickjs_wifi_raw_tx_pump_wake when the worker queue is full: the timer.
pump_refused ==
    /\ pump.queued /\ pump.at = "idle" /\ Fault
    /\ pump' = [pump EXCEPT !.queued = FALSE, !.timer = TRUE]
    /\ UNCHANGED <<ses, q, fut, lane, w, nat, fate>>

\* The time of the next clean-up has come.
retry_due(s) ==
    /\ ses[s].later /\ ses' = [ses EXCEPT ![s].later = FALSE]
    /\ UNCHANGED <<q, fut, lane, w, nat, pump, fate, faults>>
-------------------------------------------------------------------------------
(* session_worker. *)

\* session_drop_queued.
Dropped(s) ==
    LET settled == SettledMany(s, q[s].totals, fut, q[s].pending) IN
    /\ q' = [q EXCEPT ![s].pending = <<>>, ![s].closed = TRUE, ![s].totals = settled[1]]
    /\ fut' = PublishedDrops(s, settled[2], q[s].pending)
    /\ fate' = Fated(s, q[s].pending, "dropped")
At(s, pc) == w[s].at = pc
Goto(s, pc) == w' = [w EXCEPT ![s].at = pc]

\* The lane: a request if there is work, and the grant if it is the oldest.
worker_begin(s) ==
    /\ At(s, "begin")
    /\ LET r == ses[s]
           opening == ~r.open
           asks == (opening \/ q[s].pending # <<>>) /\ ~r.close /\ r.lane = 0
           id == IF asks THEN lane.next ELSE r.lane
           got == id # 0 /\ ~r.acquired /\ ~r.close /\ LaneGrants(s, id)
       IN /\ lane' = [active |-> IF got THEN s ELSE lane.active, next |-> IF asks THEN lane.next + 1 ELSE lane.next]
          /\ ses' = [ses EXCEPT ![s].lane = id, ![s].acquired = @ \/ got]
          /\ w' = [w EXCEPT ![s] = [NoWorker EXCEPT !.at = "open", !.opening = opening, !.closing = r.close]]
          /\ IF r.close THEN Dropped(s) ELSE UNCHANGED <<q, fut, fate>>
    /\ UNCHANGED <<nat, pump, faults>>

\* session_fault.
Faulted(r) == [r EXCEPT !.faulted = TRUE, !.close = TRUE]

\* The radio is acquired by a session that opens.
worker_open(s) ==
    /\ At(s, "open")
    /\ LET opens == w[s].opening /\ ~w[s].closing /\ ses[s].acquired IN
       \/ /\ opens /\ UNCHANGED faults
          /\ ses' = [ses EXCEPT ![s].lease = TRUE]
          /\ w' = [w EXCEPT ![s].at = "packet", ![s].opening = FALSE, ![s].i = 1]
       \/ /\ opens /\ Fault
          /\ ses' = [ses EXCEPT ![s] = Faulted(@)] /\ Goto(s, "cleanup")
       \/ /\ ~opens /\ UNCHANGED <<ses, faults>>
          /\ w' = [w EXCEPT ![s].at = IF ~w[s].opening /\ ses[s].acquired THEN "packet" ELSE "cleanup", ![s].i = 1]
    /\ UNCHANGED <<q, fut, lane, nat, pump, fate>>

NextPacket(s) == [w EXCEPT ![s].at = IF w[s].i = Window THEN "cleanup" ELSE "packet", ![s].i = @ + 1, ![s].ticket = 0]

\* session_packet_step up to the queue's next packet.
packet_take(s) ==
    /\ At(s, "packet") /\ w[s].i <= Window
    /\ LET free == ses[s].window[w[s].i] = 0
           take == free /\ ~ses[s].close /\ ~ses[s].faulted /\ ~q[s].closed /\ q[s].pending # <<>>
                   /\ Cardinality(q[s].flying) < Window
       IN IF take THEN /\ q' = [q EXCEPT ![s] = Taken(s)]
                       /\ w' = [w EXCEPT ![s].at = "submit", ![s].ticket = Head(q[s].pending).seq]
          ELSE UNCHANGED q /\ w' = IF free THEN NextPacket(s) ELSE [w EXCEPT ![s].at = "observe"]
    /\ UNCHANGED <<ses, fut, lane, nat, pump, fate, faults>>

\* esp32_mquickjs_wifi_raw_tx_queue_finish, with the result of the packet.
Finish(s, p, outcome, kind) ==
    LET settled == Settled(s, q[s].totals, fut, p, outcome) IN
    /\ q' = [q EXCEPT ![s].flying = @ \ {Flying(s, p)}, ![s].totals = settled[1]]
    /\ fut' = Published(s, settled[2], p, kind)
    /\ fate' = [fate EXCEPT ![s][p] = outcome]

\* The packet is given to the driver, unless a close has been requested: it is
\* accepted, refused, or refused after the driver may have taken it.
packet_submit(s) ==
    /\ At(s, "submit")
    /\ LET p == w[s].ticket IN
       \/ /\ ses[s].close
          /\ Finish(s, p, "aborted", "aborted") /\ w' = NextPacket(s)
          /\ UNCHANGED <<ses, nat, faults>>
       \/ /\ ~ses[s].close /\ UNCHANGED <<fate, faults>>
          /\ q' = [q EXCEPT ![s] = Accepted(s, p)] /\ fut' = FlushAccepted(s, p)
          /\ nat' = [nat EXCEPT ![s][p] = "active"]
          /\ ses' = [ses EXCEPT ![s].window[w[s].i] = p] /\ Goto(s, "observe")
       \/ /\ ~ses[s].close /\ Fault
          /\ Finish(s, p, "rejected", "rejected")
          /\ ses' = [ses EXCEPT ![s] = Faulted(@)] /\ w' = NextPacket(s) /\ UNCHANGED nat
       \/ /\ ~ses[s].close /\ Fault /\ UNCHANGED <<q, fate>>
          /\ nat' = [nat EXCEPT ![s][p] = "unsure"] /\ fut' = Published(s, fut, p, "uncertain")
          /\ ses' = [ses EXCEPT ![s] = [Faulted(@) EXCEPT !.window[w[s].i] = p]] /\ w' = NextPacket(s)
    /\ UNCHANGED <<lane, pump>>

\* The driver's completion of a packet is taken; one that cannot be told from
\* others faults the session and leaves the packet with the driver.
packet_observe(s) ==
    /\ At(s, "observe")
    /\ LET p == ses[s].window[w[s].i]
           Retired(r) == [r EXCEPT !.window[w[s].i] = 0]
       IN \/ /\ nat[s][p] = "active" /\ UNCHANGED <<ses, q, fut, nat, fate>>
          \/ /\ nat[s][p] = "unsure" /\ UNCHANGED <<q, nat, fate>>
             /\ fut' = Published(s, fut, p, "uncertain") /\ ses' = [ses EXCEPT ![s] = Faulted(@)]
          \/ /\ nat[s][p] \in {"success", "failed"}
             /\ Finish(s, p, nat[s][p], "completed")
             /\ ses' = [ses EXCEPT ![s] = Retired(@)] /\ nat' = [nat EXCEPT ![s][p] = "none"]
          \/ /\ nat[s][p] = "terminated"
             /\ Finish(s, p, "aborted", "terminated")
             /\ ses' = [ses EXCEPT ![s] = Faulted(Retired(@))] /\ nat' = [nat EXCEPT ![s][p] = "none"]
    /\ w' = NextPacket(s)
    /\ UNCHANGED <<lane, pump, faults>>

\* The clean-up of a session that closes, and the lane when the window is empty.
worker_cleanup(s) ==
    /\ At(s, "cleanup")
    /\ LET r == ses[s]
           closing == r.close
           busy == Tokens(s) # {}
           releases == closing /\ ~busy /\ (r.lease \/ r.stop)
       IN /\ IF closing THEN Dropped(s) ELSE UNCHANGED <<q, fut, fate>>
          /\ \E failed \in (IF releases THEN BOOLEAN ELSE {FALSE}) :
             LET stop == IF releases THEN failed ELSE r.stop
                 leaves == ~busy /\ ~stop /\ r.lane # 0 /\ (s \notin Rated \/ closing) /\ (r.acquired \/ closing)
             IN /\ IF failed THEN Fault ELSE UNCHANGED faults
                /\ ses' = [ses EXCEPT ![s].lease = IF releases THEN FALSE ELSE @, ![s].stop = stop,
                                      ![s].lane = IF leaves THEN 0 ELSE @, ![s].acquired = IF leaves THEN FALSE ELSE @]
                /\ lane' = IF leaves /\ r.acquired THEN [lane EXCEPT !.active = 0] ELSE lane
                /\ w' = [w EXCEPT ![s].at = "publish", ![s].error = failed \/ (closing /\ busy)]
    /\ UNCHANGED <<nat, pump>>

\* A session that has nothing left is closed; its clean-up reference and the
\* worker's own go.

Closable(s) == /\ ses[s].close /\ q[s].closed /\ Tokens(s) = {} /\ ~ses[s].lease /\ ses[s].lane = 0
               /\ ~ses[s].stop /\ ~w[s].error /\ Jobs(s) = {}

worker_publish(s) ==
    /\ At(s, "publish")
    /\ LET closes == Closable(s)
           r == [ses[s] EXCEPT !.open = ~w[s].opening, !.busy = FALSE, !.later = w[s].error,
                               !.closed = @ \/ closes, !.hold = @ /\ ~closes]
       IN ses' = [ses EXCEPT ![s] = Released(r, IF closes /\ ses[s].hold THEN 2 ELSE 1)]
    /\ w' = [w EXCEPT ![s] = NoWorker] /\ pump' = Waked
    /\ UNCHANGED <<q, fut, lane, nat, fate, faults>>
-------------------------------------------------------------------------------
(* The driver, and the recovery of the radio. *)

driver_completes(s, p) ==
    /\ nat[s][p] = "active"
    /\ \E x \in {"success", "failed"} : nat' = [nat EXCEPT ![s][p] = x]
    /\ pump' = Waked
    /\ UNCHANGED <<ses, q, fut, lane, w, fate, faults>>

driver_unsure(s, p) ==
    /\ nat[s][p] = "active" /\ Fault
    /\ nat' = [nat EXCEPT ![s][p] = "unsure"] /\ pump' = Waked
    /\ UNCHANGED <<ses, q, fut, lane, w, fate>>

radio_recovers(s) ==
    /\ \E p \in Seqs : nat[s][p] = "unsure"
    /\ nat' = [nat EXCEPT ![s] = [p \in Seqs |-> IF @[p] \in {"active", "unsure"} THEN "terminated" ELSE @[p]]]
    /\ UNCHANGED <<ses, q, fut, lane, w, pump, fate, faults>>

Worker(s) ==
    \/ worker_begin(s) \/ worker_open(s) \/ packet_take(s) \/ packet_submit(s) \/ packet_observe(s)
    \/ worker_cleanup(s) \/ worker_publish(s)
Pump == pump_start \/ pump_service \/ pump_served \/ pump_end \/ pump_retry

Next ==
    \/ \E s \in Sessions : \/ session_new(s) \/ request_close(s) \/ handle_release(s)
                           \/ runtime_service(s) \/ retry_due(s) \/ Worker(s) \/ radio_recovers(s)
    \/ \E s \in Sessions, b \in Batches : session_admit(s, b)
    \/ \E s \in Sessions, f \in Futures : session_admit_result(s, f) \/ session_flush_begin(s, f) \/ session_periodic_acquire(s, f)
    \/ \E f \in Futures : session_future_destroy(f)
    \/ \E s \in Sessions, p \in Seqs : driver_completes(s, p) \/ driver_unsure(s, p)
    \/ Pump \/ pump_refused

\* Worker threads, the timers, and the driver, whose callback always comes.
Weak(k) ==
    CASE k = 1 -> \E s \in Sessions : Worker(s)
      [] k = 2 -> Pump
      [] k = 3 -> \E s \in Sessions : retry_due(s)
      [] k = 4 -> \E s \in Sessions, p \in Seqs : driver_completes(s, p)

Spec == Init /\ [][Next]_vars
FairSpec == Spec /\ \A k \in 1 .. 4 : WF_vars(Weak(k))
-------------------------------------------------------------------------------
Upto(s, n) == {p \in 1 .. n : p <= q[s].last}

\* A flush counts exactly the packets admitted before it: those that have not
\* ended are pending, the others are counted by how they ended, whatever was
\* queued, dropped or completed out of order since.
FlushesExact ==
    \A f \in Futures : fut[f].kind = "flush" =>
        LET s == fut[f].session
            before == Upto(s, fut[f].seq)
        IN /\ fut[f].pending = Cardinality({p \in before : fate[s][p] = "none"})
           /\ \A o \in Outcomes : fut[f].totals.by[o] = Cardinality({p \in before : fate[s][p] = o})

\* Packets that wait or fly have not ended, and all others have; bytes and
\* packets stay within the limits.
QueueExact ==
    \A s \in Sessions :
        LET there == {q[s].pending[i].seq : i \in 1 .. Len(q[s].pending)} \cup {e.seq : e \in q[s].flying} IN
        /\ there = {p \in 1 .. q[s].last : fate[s][p] = "none"}
        /\ Held(s) <= Capacity /\ Bytes(s) <= CapacityBytes /\ Cardinality(q[s].flying) <= Window

\* A batch is evicted as a whole or not at all: a packet is dropped while its
\* session goes on only if all of its batch is.
BatchesWhole ==
    \A s \in Sessions : ~q[s].closed =>
        \A p, r \in 1 .. q[s].last : (q[s].batch[p] = q[s].batch[r] /\ fate[s][p] = "dropped") => fate[s][r] = "dropped"

\* The result of a send is the end of its own packet, and is there as soon as
\* the packet has ended.
ResultsExact ==
    \A f \in Futures : fut[f].kind = "send" =>
        LET o == fate[fut[f].session][fut[f].seq] IN
        /\ fut[f].result \in {"pending", "uncertain"} <=> o = "none"
        /\ fut[f].result = "completed" => o \in {"success", "failed"}
        /\ fut[f].result = "dropped" <=> o = "dropped"
        /\ fut[f].result = "rejected" <=> o = "rejected"
        /\ fut[f].result \in {"aborted", "terminated"} <=> o = "aborted"

\* At most one session uses the driver: packets of one that fly or are being
\* submitted, or a radio that is being acquired, mean that it has the lane.
LaneExclusive ==
    \A s \in Sessions :
        /\ ses[s].acquired <=> lane.active = s
        /\ (Tokens(s) # {} \/ w[s].at \in {"submit", "observe"}) => lane.active = s

\* References are exact, a freed session has neither users nor work, and what
\* its queue's deinit asserts holds.
ReferencesExact ==
    \A s \in Sessions :
        LET futures == Cardinality(Users(s))
            Bit(x) == IF x THEN 1 ELSE 0
        IN /\ Live(s) => ses[s].refs = Bit(ses[s].handle) + Bit(ses[s].hold) + Bit(ses[s].busy) + futures
           /\ ses[s].closed => /\ Held(s) = 0 /\ q[s].closed /\ ~ses[s].lease /\ ses[s].lane = 0 /\ lane.active # s
                               /\ \A p \in Seqs : nat[s][p] = "none"
           /\ ses[s].state = "freed" => ses[s].closed /\ ~ses[s].busy /\ futures = 0

Unsure(s) == \E p \in Seqs : nat[s][p] \in {"unsure", "terminated"}

\* Without the script's loop: a session that is to close does, and a packet that
\* was admitted ends, unless the driver has lost track of one or a job holds
\* the session.
Owed(s, p) == IF p = 0 THEN Live(s) /\ ses[s].close ELSE q[s].last = p
Paid(s, p) ==
    \/ Unsure(s)
    \/ p = 0 /\ (ses[s].closed \/ Jobs(s) # {})
    \/ p \in Seqs /\ fate[s][p] # "none"
SessionsServed == \A s \in Sessions, p \in Seqs \union {0} : Owed(s, p) ~> Paid(s, p)

RawTxSessionSafe == FlushesExact /\ QueueExact /\ BatchesWhole /\ ResultsExact /\ LaneExclusive /\ ReferencesExact
===============================================================================
