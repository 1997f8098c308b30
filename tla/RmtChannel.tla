----------------------------- MODULE RmtChannel -----------------------------
(***************************************************************************)
(* An RMT channel and the symbol buffers it sends and receives (rmt.c,     *)
(* rmt_channel_resources.c).  The runtime task starts, aborts and          *)
(* destroys operations; the interrupt of the channel completes them.       *)
(***************************************************************************)
EXTENDS Naturals, FiniteSets

CONSTANTS Buffers,                             \* symbol buffers a script makes
          MaxOpens, MaxOps, MaxFaults          \* bounds

VARIABLES
    ch,     \* the slot of the channel
    obj,    \* generation the script's channel object is bound to, 0 if none
    buf,    \* symbol buffers
    op,     \* transmit and receive operations, in the order of capture
    hw,     \* the operation whose buffer the hardware reads or writes, 0 if none
    abort,  \* the abort the runtime task is in: [op, for]
    count   \* [opens, faults]

vars == <<ch, obj, buf, op, hw, abort, count>>

Ids == 1 .. MaxOps
NoAbort == [op |-> 0, for |-> "none"]
NoChannel == [allocated |-> FALSE, generation |-> 0, direction |-> "none", handle |-> FALSE,
              encoder |-> FALSE, running |-> FALSE, release_pending |-> FALSE,
              reservations |-> 0, active |-> 0]
\* symbols: the memory exists; object: the script can reach it.
NoBuffer == [symbols |-> FALSE, object |-> FALSE, length |-> 0, leases |-> 0, close_pending |-> FALSE]
NoOp == [phase |-> "none", kind |-> "none", generation |-> 0, buffer |-> 0, now |-> FALSE,
         started |-> FALSE, completed |-> FALSE, result |-> "none"]

Init ==
    /\ ch = NoChannel /\ obj = 0 /\ hw = 0 /\ abort = NoAbort
    /\ buf = [b \in Buffers |-> NoBuffer]
    /\ op = [o \in Ids |-> NoOp]
    /\ count = [opens |-> 0, faults |-> 0]

Faults(n) == count.faults + n <= MaxFaults /\ count' = [count EXCEPT !.faults = @ + n]
Free == abort = NoAbort     \* the runtime task is between calls
Busy == ch.active # 0
Idle(c) == c.active = 0 /\ c.reservations = 0
-------------------------------------------------------------------------------
(* The channel. *)

\* channel_resources_deinit ends at the first refusal: of the disable, of the
\* encoder or of the channel.
CleanupFailed(c) ==
    {[d EXCEPT !.release_pending = TRUE] :
        d \in {c, [c EXCEPT !.running = FALSE], [c EXCEPT !.running = FALSE, !.encoder = FALSE]}}
rmt_channel_cleanup(c) ==
    IF ~c.allocated \/ ~Idle(c) THEN {[ch |-> c, faults |-> 0]}
    ELSE {[ch |-> NoChannel, faults |-> 0]} \union {[ch |-> d, faults |-> 1] : d \in CleanupFailed(c)}
Outcome(S) == \E r \in S : ch' = r.ch /\ Faults(r.faults)

Bound == obj # 0 /\ ch.allocated /\ ch.generation = obj

Opened(dir) ==
    [NoChannel EXCEPT !.allocated = TRUE, !.generation = count.opens + 1, !.direction = dir,
                      !.handle = TRUE, !.encoder = dir = "tx"]
\* rmt.open: a slot whose release is pending is released first; what a failed
\* open could not delete stays allocated and pending.
js_rmt_open(dir) ==
    /\ Free /\ count.opens < MaxOpens /\ ~Bound
    /\ ch.allocated => ch.release_pending /\ Idle(ch)
    /\ LET new == Opened(dir) IN
       \/ ch' = new /\ obj' = new.generation /\ count' = [count EXCEPT !.opens = @ + 1]
       \/ ch' = NoChannel /\ Faults(1) /\ UNCHANGED obj
       \/ /\ \E c \in CleanupFailed([new EXCEPT !.generation = 0]) : ch' = c
          /\ Faults(2) /\ UNCHANGED obj
    /\ UNCHANGED <<buf, op, hw, abort>>

\* The release that is tried first; after a failed one no slot is free.
js_rmt_open_pending ==
    /\ Free /\ ch.allocated /\ ch.release_pending /\ Idle(ch)
    /\ Outcome(rmt_channel_cleanup(ch))
    /\ UNCHANGED <<obj, buf, op, hw, abort>>

js_rmt_channel_start ==
    /\ Free /\ Bound /\ ~ch.running
    /\ \/ ch' = [ch EXCEPT !.running = TRUE] /\ UNCHANGED count
       \/ Faults(1) /\ UNCHANGED ch
    /\ UNCHANGED <<obj, buf, op, hw, abort>>

js_rmt_channel_stop ==
    /\ Free /\ Bound /\ ch.running /\ Idle(ch)
    /\ \/ ch' = [ch EXCEPT !.running = FALSE] /\ UNCHANGED count
       \/ Faults(1) /\ UNCHANGED ch
    /\ UNCHANGED <<obj, buf, op, hw, abort>>

\* rmt_request_close aborts what is active and leaves the rest to it.
rmt_request_close ==
    LET c == [ch EXCEPT !.release_pending = TRUE] IN
    /\ Outcome(rmt_channel_cleanup(c))
    /\ abort' = IF Busy THEN [op |-> ch.active, for |-> "close"] ELSE abort

\* RMTChannel.close: a channel the driver does not release keeps its object.
js_rmt_channel_close ==
    /\ Free /\ Bound
    /\ rmt_request_close
    /\ obj' = IF Idle(ch) /\ ch'.allocated THEN obj ELSE 0
    /\ UNCHANGED <<buf, op, hw>>

\* Operations root the channel and the buffer they use.
Owns(o) == op[o].phase \in {"queued", "active"}
js_rmt_channel_finalizer ==
    /\ Free /\ Bound /\ \A o \in Ids : ~Owns(o)
    /\ rmt_request_close /\ obj' = 0
    /\ UNCHANGED <<buf, op, hw>>

deinit_rmt_runtime ==
    /\ Free /\ ch.allocated /\ obj = 0 /\ \A o \in Ids : ~Owns(o)
    /\ rmt_request_close
    /\ UNCHANGED <<obj, buf, op, hw>>
-------------------------------------------------------------------------------
(* Symbol buffers. *)

js_rmt_create_symbols(b) ==
    /\ Free /\ buf[b] = NoBuffer
    /\ buf' = [buf EXCEPT ![b].symbols = TRUE, ![b].object = TRUE]
    /\ UNCHANGED <<ch, obj, op, hw, abort, count>>

\* push, set and clear are refused while the buffer is lent.
js_rmt_symbol_buffer_edit(b) ==
    /\ Free /\ buf[b].object /\ buf[b].symbols /\ buf[b].leases = 0
    /\ \E n \in {0, 1} : buf' = [buf EXCEPT ![b].length = n]
    /\ UNCHANGED <<ch, obj, op, hw, abort, count>>

\* rmt_symbol_buffer_release, which waits for the operation that uses it.
Returned(x) == IF x.close_pending /\ x.leases = 0 THEN [x EXCEPT !.symbols = FALSE, !.length = 0] ELSE x
\* close, or the finalizer, which the operation's reference keeps away.
js_rmt_symbol_buffer_close(b) ==
    /\ Free /\ buf[b].object
    /\ buf' = [buf EXCEPT ![b] = Returned([buf[b] EXCEPT !.object = FALSE, !.close_pending = TRUE])]
    /\ UNCHANGED <<ch, obj, op, hw, abort, count>>
-------------------------------------------------------------------------------
(* Operations. *)

Live(o) == ch.allocated /\ ch.generation = op[o].generation
First(o) == \A p \in Ids : p # o /\ Owns(p) => op[p].phase = "queued" /\ p > o

\* rmt_prepare_common: the channel is reserved and the buffer lent; options that
\* do not parse give both back.  now: a timeout of zero.
rmt_prepare_common(o, kind, b, now) ==
    /\ Free /\ op[o].phase = "none" /\ \A p \in 1 .. o - 1 : op[p].phase # "none"
    /\ Bound /\ ch.direction = kind /\ ch.running
    /\ buf[b].object /\ buf[b].symbols /\ buf[b].leases = 0
    /\ op' = [op EXCEPT ![o] = [NoOp EXCEPT !.phase = "queued", !.kind = kind, !.buffer = b,
                                            !.now = now, !.generation = ch.generation]]
    /\ ch' = [ch EXCEPT !.reservations = @ + 1]
    /\ buf' = [buf EXCEPT ![b].leases = @ + 1, ![b].length = IF kind = "rx" THEN 0 ELSE @]
    /\ UNCHANGED <<obj, hw, abort, count>>
rmt_transmit_prepare(o, b, now) == buf[b].length > 0 /\ rmt_prepare_common(o, "tx", b, now)
rmt_receive_prepare(o, b, now) == rmt_prepare_common(o, "rx", b, now)

\* rmt_operation_destroy: the buffer goes back, and the last operation releases
\* a channel that waits for it.
Released(c, o, started) ==
    LET d == [c EXCEPT !.reservations = @ - 1, !.active = IF started THEN 0 ELSE @]
    IN IF d.release_pending THEN rmt_channel_cleanup(d) ELSE {[ch |-> d, faults |-> 0]}
Destroy(o, extra) ==
    /\ op' = [op EXCEPT ![o] = [NoOp EXCEPT !.phase = "gone"]]
    /\ buf' = [buf EXCEPT ![op[o].buffer] = Returned([@ EXCEPT !.leases = @ - 1])]
    /\ IF Live(o) THEN Outcome({[r EXCEPT !.faults = @ + extra] : r \in Released(ch, o, op[o].started)})
       ELSE UNCHANGED <<ch, count>>

rmt_operation_start(o) ==
    /\ Free /\ op[o].phase = "queued" /\ First(o)
    /\ IF ~Live(o) \/ (~ch.release_pending /\ (~ch.running \/ Busy))
       THEN Destroy(o, 0) /\ UNCHANGED <<hw, abort>>
       ELSE IF ch.release_pending
       THEN /\ op' = [op EXCEPT ![o].phase = "active", ![o].completed = TRUE, ![o].result = "cancelled"]
            /\ UNCHANGED <<ch, buf, hw, abort, count>>
       ELSE \/ /\ op' = [op EXCEPT ![o].phase = "active", ![o].started = TRUE]
               /\ ch' = [ch EXCEPT !.active = o] /\ hw' = o
               /\ abort' = IF op[o].now THEN [op |-> o, for |-> "timeout"] ELSE abort
               /\ UNCHANGED <<buf, count>>
            \/ Destroy(o, 1) /\ UNCHANGED <<hw, abort>>   \* the driver refuses
    /\ UNCHANGED obj

\* rmt_on_transmit_done, rmt_on_receive_done: under the lock, and only for an
\* operation nobody completed before.
rmt_on_done ==
    /\ hw # 0 /\ ch.running
    /\ hw' = 0
    /\ op' = IF ch.active # 0 /\ ~op[ch.active].completed
             THEN [op EXCEPT ![ch.active].completed = TRUE, ![ch.active].result = "done"] ELSE op
    /\ UNCHANGED <<ch, obj, buf, abort, count>>

\* rmt_operation_cancel looks first; the interrupt may come before it aborts.
rmt_operation_cancel(o) ==
    /\ Free /\ op[o].phase = "active" /\ ~op[o].completed /\ op[o].started /\ Live(o)
    /\ abort' = [op |-> o, for |-> "cancel"]
    /\ UNCHANGED <<ch, obj, buf, op, hw, count>>

\* rmt_abort_active: disable, and enable again unless the channel is closed.
Aborted(c) ==
    {[ch |-> [c EXCEPT !.running = ~c.release_pending], faults |-> 0, off |-> TRUE],
     [ch |-> c, faults |-> 1, off |-> FALSE]}
    \union IF c.release_pending THEN {}
           ELSE {[ch |-> [c EXCEPT !.running = FALSE], faults |-> 1, off |-> TRUE]}
\* Then rmt_complete_cancelled, which the interrupt may have anticipated.
rmt_abort_active ==
    /\ ~Free
    /\ \E r \in IF ch.running THEN Aborted(ch) ELSE {[ch |-> ch, faults |-> 0, off |-> FALSE]} :
          /\ ch' = r.ch /\ Faults(r.faults)
          /\ hw' = IF r.off THEN 0 ELSE hw
          /\ op' = IF r.off /\ ~op[abort.op].completed
                   THEN [op EXCEPT ![abort.op].completed = TRUE,
                             ![abort.op].result = IF abort.for = "timeout" THEN "timeout" ELSE "cancelled"]
                   ELSE op
    /\ abort' = NoAbort
    /\ UNCHANGED <<obj, buf>>

\* finish, which sets the length of what was received, and destroy.
rmt_operation_finish(o) ==
    /\ Free /\ op[o].phase = "active" /\ op[o].completed
    /\ Destroy(o, 0)
    /\ UNCHANGED <<obj, hw, abort>>
rmt_operation_destroy(o) ==
    /\ Free /\ op[o].phase = "queued"
    /\ Destroy(o, 0)
    /\ UNCHANGED <<obj, hw, abort>>

Next ==
    \/ \E dir \in {"tx", "rx"} : js_rmt_open(dir)
    \/ js_rmt_open_pending \/ js_rmt_channel_start \/ js_rmt_channel_stop
    \/ js_rmt_channel_close \/ js_rmt_channel_finalizer \/ deinit_rmt_runtime
    \/ \E b \in Buffers : \/ js_rmt_create_symbols(b) \/ js_rmt_symbol_buffer_edit(b)
                          \/ js_rmt_symbol_buffer_close(b)
    \/ \E o \in Ids : \/ \E b \in Buffers, now \in BOOLEAN :
                            rmt_transmit_prepare(o, b, now) \/ rmt_receive_prepare(o, b, now)
                      \/ rmt_operation_start(o) \/ rmt_operation_cancel(o)
                      \/ rmt_operation_finish(o) \/ rmt_operation_destroy(o)
    \/ rmt_on_done \/ rmt_abort_active

Spec == Init /\ [][Next]_vars
-------------------------------------------------------------------------------
\* While the hardware uses the symbols of an operation, they are there and lent
\* to it, the operation is the active one, and its channel exists.
SymbolsHeld ==
    hw # 0 => LET b == op[hw].buffer IN
              /\ op[hw].phase = "active" /\ ch.active = hw /\ Live(hw) /\ ch.handle
              /\ buf[b].symbols /\ buf[b].leases = 1
              /\ op[hw].kind = "tx" => buf[b].length > 0

\* A completed operation has one result, and the hardware has left its symbols,
\* whether the interrupt or an abort completed it.
CompletedOnce ==
    \A o \in Ids : op[o].completed => hw # o /\ op[o].result # "none"

\* Reservations and leases are those of the operations.
ReservationsExact ==
    /\ ch.reservations = Cardinality({o \in Ids : Owns(o)})
    /\ \A b \in Buffers : buf[b].leases = Cardinality({o \in Ids : Owns(o) /\ op[o].buffer = b})
    /\ \A o \in Ids : ch.active = o <=> op[o].started

\* A channel or buffer that was closed is released with the last operation.
ReleasedAtLast ==
    /\ count.faults = 0 => (ch.release_pending => ch.reservations > 0)
    /\ ch.allocated /\ obj # ch.generation => ch.release_pending
    /\ \A b \in Buffers : buf[b].symbols => buf[b].object \/ buf[b].leases > 0

RmtSafe == SymbolsHeld /\ CompletedOnce /\ ReservationsExact /\ ReleasedAtLast
=============================================================================
