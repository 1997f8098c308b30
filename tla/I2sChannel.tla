----------------------------- MODULE I2sChannel -----------------------------
(***************************************************************************)
(* An I2S port (i2s.c, i2s_channel_resources.c, i2s_timer_resources.c):    *)
(* channels for reception and transmission, reads and writes that wait for *)
(* the driver's interrupts or a timer, and a release that waits for them.  *)
(***************************************************************************)
EXTENDS Naturals, FiniteSets

CONSTANTS Directions,                        \* those a script may open: "rx", "tx"
          MaxOpens, MaxOps, MaxFaults        \* bounds

VARIABLES
    port,   \* the slot of the port
    obj,    \* generation the script's channel object is bound to, 0 if none
    op,     \* reads and writes, in the order of capture
    ready,  \* directions in which the driver can move a buffer
    count   \* [opens, faults]

vars == <<port, obj, op, ready, count>>

Ids == 1 .. MaxOps
Need == 2   \* buffers an operation moves

NoPort == [allocated |-> FALSE, generation |-> 0, direction |-> {}, running |-> FALSE,
           handles |-> {}, enabled |-> {}, timers |-> {}, dma |-> FALSE, lease |-> FALSE,
           release_pending |-> FALSE, reservations |-> 0,
           target |-> [d \in Directions |-> 0], cancel_requested |-> {}]
NoOp == [phase |-> "none", dir |-> "none", generation |-> 0, timed |-> FALSE, started |-> FALSE,
         stepping |-> FALSE, woken |-> FALSE, due |-> FALSE, moved |-> 0,
         completed |-> FALSE, cancelled |-> FALSE]

Init ==
    /\ port = NoPort /\ obj = 0 /\ ready = {}
    /\ op = [o \in Ids |-> NoOp]
    /\ count = [opens |-> 0, faults |-> 0]

Faults(n) == count.faults + n <= MaxFaults /\ count' = [count EXCEPT !.faults = @ + n]

Busy(p) == \E d \in Directions : p.target[d] # 0
Idle(p) == ~Busy(p) /\ p.reservations = 0
\* i2s_channels_fully_enabled
Running(p) == [p EXCEPT !.running = p.handles # {} /\ p.handles \subseteq p.enabled]
-------------------------------------------------------------------------------
(* Channels and clean-up. *)

\* channel_resources_start: transmission first; a failed reception takes
\* transmission back, unless the driver refuses that too.
Start(p) ==
    {[port |-> [p EXCEPT !.enabled = p.handles], faults |-> 0], [port |-> p, faults |-> 1]}
    \union IF p.handles = {"rx", "tx"} /\ p.enabled = {}
           THEN {[port |-> [p EXCEPT !.enabled = {"tx"}], faults |-> 2]} ELSE {}

\* channel_resources_stop: reception first, the first refusal ends it.
StopRefused(p) == {e \in {p.enabled, p.enabled \ {"rx"}} : e # {}}
Stop(p) ==
    {[port |-> [p EXCEPT !.enabled = {}], faults |-> 0]}
    \union {[port |-> [p EXCEPT !.enabled = e], faults |-> 1] : e \in StopRefused(p)}

\* i2s_cleanup_slot where it can fail: a channel that does not stop; one that is
\* not deleted, reception first, timers gone; the account of DMA memory.
CleanupFailed(p) ==
    {[Running([p EXCEPT !.enabled = e]) EXCEPT !.release_pending = TRUE] : e \in StopRefused(p)}
    \union {[p EXCEPT !.enabled = {}, !.running = FALSE, !.timers = {}, !.handles = h,
                      !.release_pending = TRUE] :
               h \in {x \in {p.handles, p.handles \ {"rx"}} : x # {} \/ p.dma}}
CleanupSlot(p) ==
    IF ~p.allocated \/ ~Idle(p) THEN {[port |-> p, faults |-> 0]}
    ELSE {[port |-> NoPort, faults |-> 0]}
         \union {[port |-> q, faults |-> 1] : q \in CleanupFailed(p)}

\* One of the outcomes, which counts the faults it takes.
Outcome(S) == \E r \in S : port' = r.port /\ Faults(r.faults)
-------------------------------------------------------------------------------
(* The channel seen from JavaScript. *)

Bound == obj # 0 /\ port.allocated /\ port.generation = obj

\* What the options of i2s.open come to: the directions, and whether reads and
\* writes have a timeout by default, for which timers are made.
Options == (SUBSET Directions \ {{}}) \X BOOLEAN
Opened(dirs, timed) ==
    [NoPort EXCEPT !.allocated = TRUE, !.generation = count.opens + 1, !.direction = dirs,
                   !.handles = dirs, !.timers = IF timed THEN dirs ELSE {},
                   !.dma = TRUE, !.lease = TRUE]

\* i2s.open: a port whose release is pending is released first.  Any part may
\* fail and what was made is cleaned up, which may fail in turn.
js_i2s_open(dirs, timed) ==
    /\ count.opens < MaxOpens /\ ~Bound
    /\ port.allocated => port.release_pending /\ Idle(port)
    /\ LET new == Opened(dirs, timed) IN
       \/ /\ port' = new /\ obj' = new.generation
          /\ count' = [count EXCEPT !.opens = @ + 1]
       \/ /\ port' = NoPort /\ Faults(1) /\ UNCHANGED obj
       \/ /\ \E q \in CleanupFailed(new) : port' = q
          /\ count.faults + 2 <= MaxFaults
          /\ count' = [opens |-> count.opens + 1, faults |-> count.faults + 2]
          /\ UNCHANGED obj
    /\ UNCHANGED <<op, ready>>

\* The release that is tried first fails: no port is available.  The object of
\* a channel whose close failed is then bound to what remains, or to nothing.
js_i2s_open_pending ==
    /\ port.allocated /\ port.release_pending /\ Idle(port)
    /\ Outcome(CleanupSlot(port))
    /\ UNCHANGED <<obj, op, ready>>

js_i2s_channel_start ==
    /\ Bound /\ ~port.running
    /\ Outcome({[r EXCEPT !.port = Running(@)] : r \in Start(port)})
    /\ UNCHANGED <<obj, op, ready>>

js_i2s_channel_stop ==
    /\ Bound /\ (port.running \/ port.enabled # {})
    /\ Idle(port)
    /\ Outcome({[r EXCEPT !.port = Running(@)] : r \in Stop(port)})
    /\ UNCHANGED <<obj, op, ready>>

\* i2s_request_close: pending operations are told and woken; without any the
\* port is cleaned up now.
Told == {d \in Directions : port.target[d] # 0}
RequestClose ==
    /\ Outcome(CleanupSlot([port EXCEPT !.release_pending = TRUE, !.cancel_requested = @ \union Told]))
    /\ op' = [o \in Ids |-> IF \E d \in Told : port.target[d] = o
                            THEN [op[o] EXCEPT !.woken = TRUE] ELSE op[o]]

\* I2SChannel.close: a port the driver does not release keeps its object.
js_i2s_channel_close ==
    /\ Bound
    /\ RequestClose
    /\ obj' = IF Idle(port) /\ port'.allocated THEN obj ELSE 0
    /\ UNCHANGED ready

\* Operations root their channel.
Owns(o) == op[o].phase \in {"queued", "active"}
js_i2s_channel_finalizer ==
    /\ Bound /\ \A o \in Ids : ~Owns(o)
    /\ RequestClose /\ obj' = 0
    /\ UNCHANGED ready

\* The end of the context, and the beginning of the next one.
deinit_i2s_runtime ==
    /\ port.allocated /\ obj = 0 /\ \A o \in Ids : ~Owns(o)
    /\ RequestClose
    /\ UNCHANGED <<obj, ready>>
-------------------------------------------------------------------------------
(* Reads and writes: i2s_read_* and i2s_write_* differ in the direction. *)

Live(o) == port.allocated /\ port.generation = op[o].generation
\* i2s_future_resource_key: one lane for each direction of a port.
First(o) ==
    \A p \in Ids : p # o /\ Owns(p) /\ op[p].dir = op[o].dir => op[p].phase = "queued" /\ p > o

Prepare(o, d, timed) ==
    /\ op[o].phase = "none" /\ \A p \in 1 .. o - 1 : op[p].phase # "none"
    /\ Bound /\ d \in port.direction /\ port.running
    /\ op' = [op EXCEPT ![o] = [NoOp EXCEPT !.phase = "queued", !.dir = d, !.timed = timed,
                                            !.generation = port.generation]]
    /\ port' = [port EXCEPT !.reservations = @ + 1]
    /\ UNCHANGED <<obj, ready, count>>

Gone(o) == op' = [op EXCEPT ![o] = [NoOp EXCEPT !.phase = "gone"]]
\* i2s_read_destroy: the last operation releases a port that waits for it.
Release(p, o, started) ==
    LET d == op[o].dir
        q == [p EXCEPT !.reservations = @ - 1, !.target[d] = IF started THEN 0 ELSE @,
                       !.cancel_requested = IF started THEN @ \ {d} ELSE @]
    IN IF q.release_pending THEN CleanupSlot(q) ELSE {[port |-> q, faults |-> 0]}
Destroy(o, extra) ==
    /\ Gone(o)
    /\ IF Live(o) THEN Outcome({[r EXCEPT !.faults = @ + extra] : r \in Release(port, o, op[o].started)})
       ELSE UNCHANGED <<port, count>>

\* i2s_read_start: publish the target of wakes, start the timer, then step.  A
\* timer that does not start, or was never made, fails the operation.
StartOp(o) ==
    /\ op[o].phase = "queued" /\ First(o)
    /\ LET d == op[o].dir IN
       IF ~Live(o) \/ ~port.running \/ (~port.release_pending /\ port.target[d] # 0)
       THEN Destroy(o, 0)
       ELSE IF port.release_pending
       THEN /\ op' = [op EXCEPT ![o].phase = "active", ![o].completed = TRUE, ![o].cancelled = TRUE]
            /\ UNCHANGED <<port, count>>
       ELSE \/ /\ op[o].timed => d \in port.timers
               /\ op' = [op EXCEPT ![o].phase = "active", ![o].started = TRUE, ![o].stepping = TRUE]
               /\ port' = [port EXCEPT !.target[d] = o, !.cancel_requested = @ \ {d}]
               /\ UNCHANGED count
            \/ op[o].timed /\ Destroy(o, IF d \in port.timers THEN 1 ELSE 0)
    /\ UNCHANGED <<obj, ready>>

\* i2s_read_step, from start and from every poll after a wake.
Step(o) ==
    /\ op[o].stepping \/ op[o].woken
    /\ op[o].phase = "active" /\ ~op[o].completed
    /\ LET d == op[o].dir
           q == [op[o] EXCEPT !.stepping = FALSE, !.woken = FALSE]
           moved == q.moved + (IF d \in ready THEN 1 ELSE 0)
       IN \/ /\ Live(o) /\ d \in port.cancel_requested
             /\ op' = [op EXCEPT ![o] = [q EXCEPT !.completed = TRUE, !.cancelled = TRUE]]
             /\ UNCHANGED <<ready, count>>
          \/ /\ ~(Live(o) /\ d \in port.cancel_requested) /\ ~(Live(o) /\ port.running)
             /\ op' = [op EXCEPT ![o] = [q EXCEPT !.completed = TRUE]]
             /\ UNCHANGED <<ready, count>>
          \/ /\ Live(o) /\ d \notin port.cancel_requested /\ port.running
             /\ \/ /\ op' = [op EXCEPT ![o] = [q EXCEPT !.moved = moved,
                                 !.completed = moved = Need \/ ~q.timed \/ q.due]]
                   /\ ready' = ready \ {d} /\ UNCHANGED count
                \/ /\ op' = [op EXCEPT ![o] = [q EXCEPT !.completed = TRUE]]   \* the driver fails
                   /\ Faults(1) /\ UNCHANGED ready
    /\ UNCHANGED <<port, obj>>

Cancel(o) ==
    /\ op[o].phase = "active" /\ ~op[o].completed /\ ~op[o].stepping
    /\ op' = [op EXCEPT ![o].completed = TRUE, ![o].cancelled = TRUE]
    /\ UNCHANGED <<port, obj, ready, count>>

\* finish and destroy of a completed operation, or destroy of one that waits.
End(o) ==
    /\ op[o].phase = "queued" \/ op[o].completed
    /\ Destroy(o, 0)
    /\ UNCHANGED <<obj, ready>>

Reads(o) == op[o].dir = "rx"
Writes(o) == op[o].dir = "tx"
i2s_read_prepare(o, timed) == Prepare(o, "rx", timed)
i2s_write_prepare(o, timed) == Prepare(o, "tx", timed)
i2s_read_start(o) == Reads(o) /\ StartOp(o)
i2s_write_start(o) == Writes(o) /\ StartOp(o)
i2s_read_step(o) == Reads(o) /\ Step(o)
i2s_write_step(o) == Writes(o) /\ Step(o)
i2s_read_cancel(o) == Reads(o) /\ Cancel(o)
i2s_write_cancel(o) == Writes(o) /\ Cancel(o)
i2s_read_destroy(o) == Reads(o) /\ End(o)
i2s_write_destroy(o) == Writes(o) /\ End(o)
-------------------------------------------------------------------------------
(* Interrupts and timers, which reach the operation through the target. *)

Wake(d) == op' = [o \in Ids |-> IF port.target[d] = o THEN [op[o] EXCEPT !.woken = TRUE] ELSE op[o]]

\* The DMA engine finishes a buffer: i2s_on_receive, i2s_on_sent.
i2s_on_buffer(d) ==
    /\ d \in port.enabled /\ d \notin ready
    /\ ready' = ready \union {d} /\ Wake(d)
    /\ UNCHANGED <<port, obj, count>>

\* The deadline of an operation passes; its timer fires no earlier.
Deadline(o) ==
    /\ op[o].started /\ op[o].timed /\ ~op[o].due /\ ~op[o].completed
    /\ op' = [op EXCEPT ![o].due = TRUE]
    /\ UNCHANGED <<port, obj, ready, count>>
i2s_timeout(o) ==
    /\ op[o].due /\ ~op[o].woken /\ op[o].dir \in port.timers /\ port.target[op[o].dir] # 0
    /\ Wake(op[o].dir)
    /\ UNCHANGED <<port, obj, ready, count>>

Next ==
    \/ \E x \in Options : js_i2s_open(x[1], x[2])
    \/ js_i2s_open_pending \/ js_i2s_channel_start \/ js_i2s_channel_stop
    \/ js_i2s_channel_close \/ js_i2s_channel_finalizer \/ deinit_i2s_runtime
    \/ \E d \in Directions : i2s_on_buffer(d)
    \/ \E o \in Ids : \/ \E timed \in BOOLEAN : i2s_read_prepare(o, timed) \/ i2s_write_prepare(o, timed)
                      \/ i2s_read_start(o) \/ i2s_write_start(o)
                      \/ i2s_read_step(o) \/ i2s_write_step(o)
                      \/ i2s_read_cancel(o) \/ i2s_write_cancel(o)
                      \/ i2s_read_destroy(o) \/ i2s_write_destroy(o)
                      \/ Deadline(o) \/ i2s_timeout(o)

Spec == Init /\ [][Next]_vars
-------------------------------------------------------------------------------
\* An operation that may call the driver has its channel, and the channel runs,
\* whatever is closed, stopped or dropped meanwhile.
ChannelsHeld ==
    \A o \in Ids : op[o].started /\ ~op[o].completed =>
        Live(o) /\ port.running /\ op[o].dir \in port.handles \intersect port.enabled

\* Reservations are those of the operations, and interrupts wake the operation
\* that was started on the direction, never one that has gone.
TargetsExact ==
    /\ port.reservations = Cardinality({o \in Ids : Owns(o)})
    /\ \A d \in Directions, o \in Ids : port.target[d] = o <=> (op[o].started /\ op[o].dir = d)
    /\ port.cancel_requested \subseteq {d \in Directions : port.target[d] # 0}

\* No wake is lost: an operation that could go on, or was told to end, is going
\* to be polled.
WakesKept ==
    \A o \in Ids : /\ op[o].started /\ ~op[o].completed
                   /\ op[o].dir \in ready \union port.cancel_requested
                   => op[o].woken \/ op[o].stepping

\* A port that was closed or dropped is released with its last operation, unless
\* the driver refused; what is not released keeps the lease of the port.
ReleasedAtLast ==
    /\ count.faults = 0 => (port.release_pending => port.reservations > 0)
    /\ port.allocated = port.lease
    /\ port.allocated /\ obj # port.generation => port.release_pending

I2sSafe == ChannelsHeld /\ TargetsExact /\ WakesKept /\ ReleasedAtLast
=============================================================================
