------------------------------- MODULE SpiBus -------------------------------
(***************************************************************************)
(* An SPI bus and its devices (spi.c) with the DMA bookkeeping of          *)
(* dma_transfer.c: a completion queue of at most two transactions, a       *)
(* staging workspace of two slots that belongs to the bus, a cursor over   *)
(* the source.  The runtime task runs spi_future_step; the SPI hardware    *)
(* completes transactions beside it and may be late or never come back.    *)
(***************************************************************************)
EXTENDS Naturals, Sequences, FiniteSets

CONSTANTS
    Devices,     \* ESP32_MQUICKJS_SPI_DEVICE_SLOT_COUNT
    Depth,       \* queue_depth: spi_clamp_queue_depth leaves 1 or 2
    Kinds,       \* a subset of {"direct", "staged", "transfer"}
    Sizes,       \* how many transactions an operation may need
    MaxOpens, MaxOps, MaxFaults   \* bounds

VARIABLES
    bus,         \* the slot of the host
    dev,         \* s_spi_device_slots
    refs,        \* live JavaScript objects: [bus, dev], generations or 0
    op,          \* Futures, in the order of capture
    hw,          \* transactions the hardware has ended, not yet fetched
    at,          \* [op, stage]: where spi_future_step is, op = 0 outside
    generation,  \* s_spi_next_generation
    faults

vars == <<bus, dev, refs, op, hw, at, generation, faults>>

Ids == 1 .. MaxOps
Lanes == 0 .. Depth - 1
StagingSlots == {0, 1}

NoBus == [allocated |-> FALSE, generation |-> 0, initialized |-> FALSE,
          workspace |-> FALSE, release_pending |-> FALSE, reservations |-> 0,
          open_devices |-> 0, in_use |-> {}, next_slot |-> 0]

NoDev == [allocated |-> FALSE, generation |-> 0, parent |-> 0, handle |-> FALSE,
          faulted |-> FALSE, busy |-> FALSE, reservations |-> 0,
          release_pending |-> FALSE]

\* The completion queue: slots, head, tail; meta names the chunk of each slot
\* and its staging slot (2: none).
NoOp == [phase |-> "none", kind |-> "direct", dev |-> CHOOSE d \in Devices : TRUE,
         generation |-> 0, total |-> 0, offset |-> 0, source_done |-> FALSE,
         slots |-> [i \in Lanes |-> "free"], head |-> 0, tail |-> 0,
         meta |-> [i \in Lanes |-> [chunk |-> 0, slot |-> 2]],
         acquired |-> FALSE, err |-> FALSE, cancelled |-> FALSE,
         completed |-> FALSE, progress |-> FALSE, bytes |-> 0, rx |-> {}]

Idle == [op |-> 0, stage |-> "idle"]

Init ==
    /\ bus = NoBus /\ dev = [d \in Devices |-> NoDev]
    /\ refs = [bus |-> 0, dev |-> [d \in Devices |-> 0]]
    /\ op = [o \in Ids |-> NoOp] /\ hw = <<>>
    /\ at = Idle /\ generation = 1 /\ faults = 0

Fault == faults < MaxFaults /\ faults' = faults + 1
NoFault == faults' = faults
Outcome(ok) == IF ok THEN NoFault ELSE Fault
-------------------------------------------------------------------------------
(* Slots and their clean-up. *)

Owns(o) == op[o].phase \in {"queued", "started"}
Device(o) == dev[op[o].dev]
LiveDev(o) == Device(o).allocated /\ Device(o).generation = op[o].generation
LiveBus(d) == bus.allocated /\ dev[d].parent = bus.generation

ChildrenIn(b, D) == {d \in Devices : D[d].allocated /\ D[d].parent = b.generation}

\* spi_cleanup_device_slot on w = [bus, dev]; the driver may refuse (ok).
CleanupDevice(w, d, ok) ==
    IF ~w.dev[d].allocated \/ w.dev[d].busy \/ w.dev[d].reservations > 0 \/ ~ok THEN w
    ELSE [bus |-> IF w.bus.allocated /\ w.dev[d].parent = w.bus.generation
                  THEN [w.bus EXCEPT !.open_devices = @ - 1] ELSE w.bus,
          dev |-> [w.dev EXCEPT ![d] = NoDev]]

\* spi_cleanup_bus_slot: every device, then the host, then the workspace.
\* `ok' says whether the driver goes along; the first refusal ends it.
BusQuiet(w) ==
    /\ w.bus.reservations = 0
    /\ \A d \in ChildrenIn(w.bus, w.dev) : ~w.dev[d].busy /\ w.dev[d].reservations = 0

CleanupBus(w, ok) ==
    IF ~w.bus.allocated \/ ~BusQuiet(w) THEN w
    ELSE IF ok THEN [bus |-> NoBus,
                     dev |-> [d \in Devices |-> IF d \in ChildrenIn(w.bus, w.dev)
                                                THEN NoDev ELSE w.dev[d]]]
    ELSE w

Slots == [bus |-> bus, dev |-> dev]
Become(w) == bus' = w.bus /\ dev' = w.dev
-------------------------------------------------------------------------------
(* JavaScript calls; they run while no step of an operation does. *)

Js == at = Idle

\* spi.openBus: a bus whose release failed is retried first.
spi_open_bus ==
    /\ Js /\ generation <= MaxOpens /\ refs.bus = 0
    /\ bus.allocated => bus.release_pending /\ BusQuiet(Slots)
    /\ \/ \* opened
          /\ bus' = [NoBus EXCEPT !.allocated = TRUE, !.generation = generation,
                                  !.initialized = TRUE, !.workspace = TRUE]
          /\ dev' = CleanupBus(Slots, TRUE).dev
          /\ refs' = [refs EXCEPT !.bus = generation]
          /\ generation' = generation + 1 /\ NoFault
       \/ \* staging memory, the host or the object refused: nothing is kept
          /\ Become(CleanupBus(Slots, TRUE))
          /\ generation' = generation + 1 /\ Fault /\ UNCHANGED refs
    /\ UNCHANGED <<op, hw, at>>

spi_bus_open_device(d) ==
    /\ Js /\ generation <= MaxOpens /\ ~dev[d].allocated
    /\ \A e \in Devices : e < d => dev[e].allocated
    /\ bus.allocated /\ refs.bus = bus.generation /\ ~bus.release_pending
    /\ \E ok \in BOOLEAN :
          /\ Outcome(ok)
          /\ dev' = IF ok THEN [dev EXCEPT ![d] =
                          [NoDev EXCEPT !.allocated = TRUE, !.handle = TRUE,
                                        !.generation = generation,
                                        !.parent = bus.generation]]
                    ELSE dev
          /\ bus' = IF ok THEN [bus EXCEPT !.open_devices = @ + 1] ELSE bus
          /\ refs' = IF ok THEN [refs EXCEPT !.dev[d] = generation] ELSE refs
    /\ generation' = generation + 1
    /\ UNCHANGED <<op, hw, at>>

\* SPIDevice.close and its finalizer; an operation roots its device object.
Rooted(d) == \E o \in Ids : Owns(o) /\ op[o].dev = d /\ op[o].generation = refs.dev[d]

spi_device_close(d) ==
    /\ Js /\ refs.dev[d] # 0
    /\ IF dev[d].allocated /\ dev[d].generation = refs.dev[d]
       THEN /\ ~dev[d].busy /\ dev[d].reservations = 0
            /\ \E ok \in BOOLEAN :
                 /\ Outcome(ok)
                 /\ Become(CleanupDevice([Slots EXCEPT !.dev[d].release_pending = TRUE], d, ok))
                 /\ refs' = IF ok THEN [refs EXCEPT !.dev[d] = 0] ELSE refs
       ELSE refs' = [refs EXCEPT !.dev[d] = 0] /\ NoFault /\ UNCHANGED <<bus, dev>>
    /\ UNCHANGED <<op, hw, at, generation>>

spi_device_finalizer(d) ==
    /\ Js /\ refs.dev[d] # 0 /\ ~Rooted(d)
    /\ refs' = [refs EXCEPT !.dev[d] = 0]
    /\ IF dev[d].allocated /\ dev[d].generation = refs.dev[d]
       THEN \E ok \in BOOLEAN :
              /\ Outcome(ok)
              /\ Become(CleanupDevice([Slots EXCEPT !.dev[d].release_pending = TRUE], d, ok))
       ELSE NoFault /\ UNCHANGED <<bus, dev>>
    /\ UNCHANGED <<op, hw, at, generation>>

spi_bus_close ==
    /\ Js /\ refs.bus # 0
    /\ IF bus.allocated /\ bus.generation = refs.bus
       THEN /\ BusQuiet(Slots)
            /\ \E ok \in BOOLEAN :
                 /\ Outcome(ok)
                 /\ Become(CleanupBus([Slots EXCEPT !.bus.release_pending = TRUE], ok))
                 /\ refs' = IF ok THEN [refs EXCEPT !.bus = 0] ELSE refs
       ELSE refs' = [refs EXCEPT !.bus = 0] /\ NoFault /\ UNCHANGED <<bus, dev>>
    /\ UNCHANGED <<op, hw, at, generation>>

\* The bus object is collected: its devices may still be at work.
spi_bus_finalizer ==
    /\ Js /\ refs.bus # 0
    /\ refs' = [refs EXCEPT !.bus = 0]
    /\ IF bus.allocated /\ bus.generation = refs.bus
       THEN \E ok \in BOOLEAN :
              /\ Outcome(ok)
              /\ Become(CleanupBus([Slots EXCEPT !.bus.release_pending = TRUE], ok))
       ELSE NoFault /\ UNCHANGED <<bus, dev>>
    /\ UNCHANGED <<op, hw, at, generation>>
-------------------------------------------------------------------------------
(* An operation: capture, start, step, end. *)

\* What the prepare function of a kind captures: write, writeChunks and
\* writeSource bring a source of `total' chunks, whose spans are staged or not;
\* transfer and read also allocate what they receive into.
CapturedWrite(kind, total) == [NoOp EXCEPT !.kind = kind, !.total = total]
CapturedRead(total) == [NoOp EXCEPT !.kind = "transfer", !.total = total]

Captured(kind, total) ==
    IF kind = "transfer" THEN CapturedRead(total) ELSE CapturedWrite(kind, total)

\* spi_future_allocate, then the prepare function.
spi_future_allocate(d, kind, total) ==
    /\ Js /\ refs.dev[d] # 0
    /\ dev[d].allocated /\ dev[d].generation = refs.dev[d]
    /\ LiveBus(d) /\ ~dev[d].release_pending /\ ~bus.release_pending
    /\ ~dev[d].faulted
    /\ \E o \in Ids :
          /\ \A p \in Ids : op[p].phase = "none" <=> p >= o
          /\ op' = [op EXCEPT ![o] = [Captured(kind, total) EXCEPT !.phase = "queued",
                                        !.dev = d, !.generation = dev[d].generation]]
    /\ dev' = [dev EXCEPT ![d].reservations = @ + 1]
    /\ bus' = [bus EXCEPT !.reservations = @ + 1]
    /\ UNCHANGED <<refs, hw, at, generation, faults>>

\* The lane is the bus: one operation at a time, in the order of capture.
First(o) == \A p \in Ids \ {o} : /\ op[p].phase # "started"
                                 /\ p < o => op[p].phase # "queued"

\* spi_future_release: give the reservations back, then clean what waits.
PendingDevices(o, w) == ChildrenIn(w.bus, w.dev)

ReleasedOp(o, ok) ==
    LET d == op[o].dev
        w0 == [Slots EXCEPT !.dev[d].busy = @ /\ op[o].phase # "started",
                            !.dev[d].reservations = @ - 1,
                            !.bus.reservations = @ - 1]
        idle == {e \in PendingDevices(o, w0) : /\ w0.dev[e].release_pending
                                               /\ ~w0.dev[e].busy
                                               /\ w0.dev[e].reservations = 0}
        w1 == IF ok THEN [bus |-> [w0.bus EXCEPT !.open_devices = @ - Cardinality(idle)],
                          dev |-> [e \in Devices |-> IF e \in idle THEN NoDev ELSE w0.dev[e]]]
              ELSE w0
    IN IF w1.bus.release_pending /\ w1.bus.reservations = 0
       THEN CleanupBus(w1, ok) ELSE w1

End(o) == /\ \E ok \in BOOLEAN : Outcome(ok) /\ Become(ReleasedOp(o, ok))
          /\ op' = [op EXCEPT ![o] = [NoOp EXCEPT !.phase = "gone"]]
          /\ UNCHANGED <<refs, hw, at, generation>>

\* Cancelled in its lane, or refused by start: the device was faulted.
destroy_queued(o) == Js /\ op[o].phase = "queued" /\ End(o)

spi_future_start(o) ==
    /\ Js /\ op[o].phase = "queued" /\ First(o) /\ LiveDev(o)
    /\ ~Device(o).busy /\ ~Device(o).faulted
    /\ dev' = [dev EXCEPT ![op[o].dev].busy = TRUE]
    /\ op' = [op EXCEPT ![o].phase = "started"]
    /\ at' = [op |-> o, stage |-> "drain"]
    /\ UNCHANGED <<bus, refs, hw, generation, faults>>

\* spi_future_poll enters the step as long as it has something to do.
InFlight(o) == Cardinality({i \in Lanes : op[o].slots[i] = "submitted"})
Occupied(o) == Cardinality({i \in Lanes : op[o].slots[i] # "free"})
Releasable(o) == Occupied(o) = 0

spi_future_poll(o) ==
    /\ Js /\ op[o].phase = "started" /\ ~op[o].completed
    /\ at' = [op |-> o, stage |-> "drain"]
    /\ op' = [op EXCEPT ![o].progress = FALSE]
    /\ UNCHANGED <<bus, dev, refs, hw, generation, faults>>

\* note_returned: mark the slot, then free every returned one from the head.
Freed(o, i) ==
    LET s == [op[o].slots EXCEPT ![i] = "returned"]
        h == op[o].head
        second == (h + 1) % Depth
        two == Depth = 2 /\ s[second] = "returned"
    IN IF s[h] # "returned" THEN [slots |-> s, head |-> h]
       ELSE IF two THEN [slots |-> [s EXCEPT ![h] = "free", ![second] = "free"], head |-> h]
       ELSE [slots |-> [s EXCEPT ![h] = "free"], head |-> second]


\* One fetched transaction: copy what it received, give its staging slot back.
step_returned(o) ==
    /\ at = [op |-> o, stage |-> "drain"] /\ hw # <<>> /\ InFlight(o) > 0
    /\ LET i == Head(hw).index
           m == op[o].meta[i]
           bad == ~Head(hw).ok \/ i # op[o].head
       IN /\ op' = [op EXCEPT ![o].slots = Freed(o, i).slots, ![o].head = Freed(o, i).head,
                              ![o].rx = IF op[o].kind = "transfer" /\ Head(hw).ok
                                        THEN @ \union {m.chunk} ELSE @,
                              ![o].bytes = IF Head(hw).ok THEN @ + 1 ELSE @,
                              ![o].progress = @ \/ Head(hw).ok,
                              ![o].err = @ \/ bad,
                              ![o].meta[i] = [chunk |-> 0, slot |-> 2]]
          /\ bus' = [bus EXCEPT !.in_use = @ \ {m.slot}]
          /\ dev' = [dev EXCEPT ![op[o].dev].faulted = @ \/ bad]
    /\ hw' = Tail(hw)
    /\ UNCHANGED <<refs, at, generation, faults>>

\* Nothing more to fetch: was the hardware too slow?  Only if nothing came.
step_drained(o) ==
    /\ at = [op |-> o, stage |-> "drain"] /\ (hw = <<>> \/ InFlight(o) = 0)
    /\ \E late \in BOOLEAN :
          /\ late => /\ ~op[o].cancelled /\ ~op[o].err /\ InFlight(o) > 0
                     /\ ~op[o].progress /\ Fault
          /\ ~late => NoFault
          /\ op' = [op EXCEPT ![o].cancelled = @ \/ late, ![o].err = @ \/ late]
          /\ dev' = [dev EXCEPT ![op[o].dev].faulted = @ \/ late]
    /\ at' = [at EXCEPT !.stage = "submit"]
    /\ UNCHANGED <<bus, refs, hw, generation>>

CanSubmit(o) ==
    /\ ~op[o].err /\ ~op[o].cancelled
    /\ Occupied(o) < Depth /\ op[o].slots[op[o].tail] = "free"

\* dma_workspace_acquire: the next free slot, round robin.
Acquired ==
    IF bus.next_slot \notin bus.in_use THEN bus.next_slot ELSE 1 - bus.next_slot

Staged(o) == op[o].kind # "direct"

\* spi_future_prepare_next_span: is there a chunk of the source left?
NextSpan(o) == op[o].offset < op[o].total

\* One turn of the submit loop: next span, the bus, a chunk, spi_device_queue_trans.
step_submit(o) ==
    /\ at = [op |-> o, stage |-> "submit"] /\ CanSubmit(o)
    /\ NextSpan(o)
    /\ Staged(o) => bus.in_use # StagingSlots
    /\ LET i == op[o].tail
           s == IF Staged(o) THEN Acquired ELSE 2
       IN \/ /\ op' = [op EXCEPT ![o].offset = @ + 1, ![o].acquired = TRUE,
                                 ![o].slots[i] = "submitted",
                                 ![o].tail = (i + 1) % Depth,
                                 ![o].meta[i] = [chunk |-> op[o].offset + 1, slot |-> s]]
             /\ bus' = IF Staged(o) THEN [bus EXCEPT !.in_use = @ \union {s},
                                                     !.next_slot = (s + 1) % 2] ELSE bus
             /\ NoFault /\ UNCHANGED <<dev, at>>
          \/ \* acquire_bus or queue_trans failed: the chunk is taken back
             /\ Fault
             /\ \E held \in BOOLEAN : op' = [op EXCEPT ![o].err = TRUE,
                                                       ![o].acquired = @ \/ held]
             /\ dev' = [dev EXCEPT ![op[o].dev].faulted = TRUE]
             /\ at' = [at EXCEPT !.stage = "end"] /\ UNCHANGED bus
          \/ \* the source failed: nothing more will come of it
             /\ Fault
             /\ op' = [op EXCEPT ![o].source_done = TRUE, ![o].total = op[o].offset,
                                 ![o].err = TRUE]
             /\ at' = [at EXCEPT !.stage = "end"] /\ UNCHANGED <<bus, dev>>
    /\ UNCHANGED <<refs, hw, generation>>

\* Mutation: the operation ends once the source is used up.
MayComplete_early(o) == ~NextSpan(o) \/ op[o].cancelled \/ op[o].err

MayComplete(o) ==
    /\ ~NextSpan(o) \/ op[o].cancelled \/ op[o].err
    /\ Releasable(o)

\* The end of the step: done when nothing is queued and nothing is to come.
step_end(o) ==
    /\ at.op = o
    /\ \/ at.stage = "end"
       \/ at.stage = "submit" /\ (~CanSubmit(o) \/ ~NextSpan(o))
    /\ op' = IF MayComplete(o)
             THEN [op EXCEPT ![o].completed = TRUE, ![o].acquired = FALSE,
                             ![o].source_done = TRUE] ELSE op
    /\ at' = Idle
    /\ UNCHANGED <<bus, dev, refs, hw, generation, faults>>

\* spi_future_cancel: complete when nothing is in flight, else ask.
spi_future_cancel(o) ==
    /\ Js /\ op[o].phase = "started" /\ ~op[o].completed /\ ~op[o].cancelled
    /\ op' = [op EXCEPT ![o].cancelled = TRUE, ![o].completed = Releasable(o)]
    /\ UNCHANGED <<bus, dev, refs, hw, at, generation, faults>>

spi_future_on_timeout(o) ==
    /\ Js /\ op[o].phase = "started" /\ ~op[o].completed
    /\ Fault
    /\ op' = [op EXCEPT ![o].cancelled = TRUE, ![o].err = TRUE,
                        ![o].completed = Releasable(o)]
    /\ dev' = [dev EXCEPT ![op[o].dev].faulted = @ \/ InFlight(o) > 0]
    /\ UNCHANGED <<bus, refs, hw, at, generation>>

\* finish and destroy.
spi_future_destroy(o) == Js /\ op[o].phase = "started" /\ op[o].completed /\ End(o)

\* The hardware ends a transaction, the oldest first unless it misbehaves.
hardware_done(o) ==
    /\ op[o].phase = "started"
    /\ \E i \in Lanes, ok \in BOOLEAN :
          /\ op[o].slots[i] = "submitted"
          /\ \A k \in 1 .. Len(hw) : hw[k].index # i
          /\ LET older == \E j \in Lanes \ {i} :
                            /\ op[o].slots[j] = "submitted"
                            /\ op[o].meta[j].chunk < op[o].meta[i].chunk
                            /\ \A k \in 1 .. Len(hw) : hw[k].index # j
             IN IF older \/ ~ok THEN Fault ELSE NoFault
          /\ hw' = Append(hw, [index |-> i, ok |-> ok])
    /\ UNCHANGED <<bus, dev, refs, op, at, generation>>
-------------------------------------------------------------------------------
Inside(o) == step_returned(o) \/ step_drained(o) \/ step_submit(o) \/ step_end(o)

Next ==
    \/ spi_open_bus \/ spi_bus_close \/ spi_bus_finalizer
    \/ \E d \in Devices :
          \/ spi_bus_open_device(d) \/ spi_device_close(d) \/ spi_device_finalizer(d)
          \/ \E kind \in Kinds, total \in Sizes : spi_future_allocate(d, kind, total)
    \/ \E o \in Ids :
          \/ spi_future_start(o) \/ spi_future_poll(o) \/ Inside(o) \/ spi_future_cancel(o) \/ spi_future_on_timeout(o)
          \/ destroy_queued(o) \/ spi_future_destroy(o) \/ hardware_done(o)

\* One operation at a time is started, so fairness of the whole suffices: the
\* pump starts, polls and ends it, and the hardware ends what it was given.
Weak(k) == \/ k = 1 /\ \E o \in Ids : Inside(o)
           \/ k = 2 /\ \E o \in Ids : hardware_done(o)
Strong(k) == \/ k = 1 /\ \E o \in Ids : spi_future_start(o) \/ spi_future_destroy(o)
             \/ k = 2 /\ \E o \in Ids : spi_future_poll(o)
Fairness == \A k \in 1 .. 2 : WF_vars(Weak(k)) /\ SF_vars(Strong(k))

Spec == Init /\ [][Next]_vars
FairSpec == Spec /\ Fairness
-------------------------------------------------------------------------------
TypeOK ==
    /\ bus.in_use \subseteq StagingSlots
    /\ {bus.reservations, bus.open_devices} \subseteq Nat
    /\ \A d \in Devices : dev[d].reservations \in Nat
    /\ at.op \in Ids \union {0} /\ at.stage \in {"idle", "drain", "submit", "end"}
    /\ \A o \in Ids : /\ op[o].phase \in {"none", "queued", "started", "gone"}
                      /\ op[o].head \in Lanes /\ op[o].tail \in Lanes

\* The DMA never touches memory that was given away: while a transaction is in
\* flight its device, its bus and the workspace exist, and no other transaction
\* has its staging slot.
FlightKeepsMemory ==
    \A o \in Ids : \A i \in Lanes : op[o].slots[i] = "submitted" =>
        /\ op[o].phase = "started"
        /\ LiveDev(o) /\ LiveBus(op[o].dev) /\ bus.workspace /\ Device(o).busy
        /\ op[o].meta[i].slot # 2 => op[o].meta[i].slot \in bus.in_use
        /\ \A j \in Lanes \ {i} : op[o].slots[j] = "submitted" =>
              op[o].meta[i].slot = 2 \/ op[o].meta[j].slot # op[o].meta[i].slot

\* An operation that reports success moved every chunk, once, and received
\* them all when it receives; nothing of it is left queued.
WholeTransfer ==
    \A o \in Ids : op[o].phase = "started" /\ op[o].completed =>
        /\ Releasable(o)
        /\ ~op[o].err /\ ~op[o].cancelled =>
              /\ op[o].bytes = op[o].total
              /\ op[o].kind = "transfer" => op[o].rx = 1 .. op[o].total

\* Reservations and devices are counted exactly, the staging slots are those of
\* the queued transactions, and two operations never share the bus.
CountsExact ==
    /\ \A d \in Devices : dev[d].allocated =>
          dev[d].reservations = Cardinality({o \in Ids : Owns(o) /\ op[o].dev = d
                                                /\ op[o].generation = dev[d].generation})
    /\ bus.allocated =>
          /\ bus.open_devices = Cardinality(ChildrenIn(bus, dev))
          /\ bus.reservations = Cardinality({o \in Ids : Owns(o) /\ LiveDev(o)})
    /\ Cardinality({o \in Ids : op[o].phase = "started"}) <= 1
    /\ (\A o \in Ids : op[o].phase # "started") => bus.in_use = {}

SpiSafe == TypeOK /\ FlightKeepsMemory /\ WholeTransfer /\ CountsExact

\* A bus whose object is gone is freed once its operations end, unless the
\* driver refused a step of the clean-up: then the next openBus retries.
Owed(k) == k = 1 /\ bus.release_pending /\ bus.reservations > 0 /\ faults = 0
Paid(k) == ~bus.release_pending \/ faults > 0
ReleaseEnds == Owed(1) ~> Paid(1)
=============================================================================
