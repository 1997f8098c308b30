------------------------------- MODULE I2cBus -------------------------------
(***************************************************************************)
(* An I2C controller and its devices (i2c.c, i2c_bus_resources.c).  The    *)
(* runtime task opens, closes and collects; a worker of the Future         *)
(* scheduler talks to the bus through handles it looked up itself.         *)
(***************************************************************************)
EXTENDS Naturals, FiniteSets

CONSTANTS MaxOpens, MaxDevices, MaxOps, MaxFaults   \* bounds

VARIABLES
    bus,     \* the slot of the controller
    dev,     \* its list of devices; a device is named by its generation
    refs,    \* live objects: generation of the bus (0: none), devices
    op,      \* Futures, in the order of capture
    worker,  \* the operation a worker runs and the handles it uses
    count    \* [opens, devices, faults]

vars == <<bus, dev, refs, op, worker, count>>

Ids == 1 .. MaxOps
DevIds == 1 .. MaxDevices

NoBus == [allocated |-> FALSE, generation |-> 0, busy |-> FALSE, release_pending |-> FALSE,
          reservations |-> 0, handle |-> FALSE, lease |-> FALSE]
NoDev == [listed |-> FALSE, reservations |-> 0, release_pending |-> FALSE]
\* dev = 0 is a scan, which is of the bus.
NoOp == [phase |-> "none", generation |-> 0, dev |-> 0, started |-> FALSE, completed |-> FALSE]
NoWork == [op |-> 0, looked |-> FALSE, bus |-> FALSE, dev |-> 0]

Init ==
    /\ bus = NoBus /\ dev = [d \in DevIds |-> NoDev]
    /\ refs = [bus |-> 0, dev |-> {}]
    /\ op = [o \in Ids |-> NoOp] /\ worker = NoWork
    /\ count = [opens |-> 0, devices |-> 0, faults |-> 0]

Fault == count.faults < MaxFaults /\ count' = [count EXCEPT !.faults = @ + 1]
-------------------------------------------------------------------------------
(* Clean-up, on w = [bus, dev]. *)

Slots == [bus |-> bus, dev |-> dev]
Become(w) == bus' = w.bus /\ dev' = w.dev
Listed(w) == {d \in DevIds : w.dev[d].listed}

\* i2c_cleanup_device: refused while it or the bus works, or by the driver.
DeviceQuiet(w, d) == w.dev[d].reservations = 0 /\ ~w.bus.busy
CleanupDevice(w, d) == IF DeviceQuiet(w, d) THEN [w EXCEPT !.dev[d] = NoDev] ELSE w

\* i2c_cleanup_slot and bus_resources_deinit: devices from the newest, the bus
\* handle, the peripheral lease.  A driver that refuses leaves the devices up to
\* `kept', all devices gone if the bus handle is what it refuses.
SlotQuiet(w) ==
    /\ ~w.bus.busy /\ w.bus.reservations = 0
    /\ \A d \in Listed(w) : w.dev[d].reservations = 0
CleanedUp(w) == [bus |-> NoBus, dev |-> [d \in DevIds |-> NoDev]]
Stuck(w, kept) == [w EXCEPT !.dev = [d \in DevIds |-> IF d > kept THEN NoDev ELSE @[d]]]

\* The clean-up of w, counted as a fault if the driver refuses.
CleanupSlot(w) ==
    \/ ~(w.bus.allocated /\ SlotQuiet(w)) /\ Become(w) /\ UNCHANGED count
    \/ w.bus.allocated /\ SlotQuiet(w) /\ Become(CleanedUp(w)) /\ UNCHANGED count
    \/ /\ w.bus.allocated /\ SlotQuiet(w) /\ Fault
       /\ \E kept \in 0 .. MaxDevices : Become(Stuck(w, kept))

Pending(w) == [w EXCEPT !.bus.release_pending = TRUE]
-------------------------------------------------------------------------------
(* Bus and devices seen from JavaScript. *)

\* i2c.openBus: a slot whose release failed is cleaned up first; the lease or
\* the driver may refuse, and so may the object, which closes the bus again.
i2c_open_bus ==
    /\ count.opens < MaxOpens /\ refs.bus = 0
    /\ bus.allocated => bus.release_pending /\ SlotQuiet(Slots)
    /\ \/ /\ bus' = [NoBus EXCEPT !.allocated = TRUE, !.generation = count.opens + 1,
                                  !.handle = TRUE, !.lease = TRUE]
          /\ dev' = [d \in DevIds |-> NoDev]
          /\ refs' = [refs EXCEPT !.bus = count.opens + 1]
          /\ count' = [count EXCEPT !.opens = @ + 1]
       \/ Become(CleanedUp(Slots)) /\ Fault /\ UNCHANGED refs
    /\ UNCHANGED <<op, worker>>

\* The slot that still cannot be released is passed over.
i2c_open_bus_stuck ==
    /\ bus.allocated /\ bus.release_pending /\ refs.bus = 0 /\ SlotQuiet(Slots)
    /\ Fault /\ \E kept \in 0 .. MaxDevices : Become(Stuck(Slots, kept))
    /\ UNCHANGED <<refs, op, worker>>

Bound == refs.bus # 0 /\ bus.allocated /\ bus.generation = refs.bus

\* I2CBus.close refuses while an operation is pending; a driver that refuses
\* leaves the object usable.
i2c_bus_close ==
    /\ Bound /\ ~bus.busy /\ bus.reservations = 0
    /\ CleanupSlot(Slots)
    /\ refs' = IF bus'.allocated THEN refs ELSE [refs EXCEPT !.bus = 0]
    /\ UNCHANGED <<op, worker>>

\* A scan roots the bus object.
Rooted(d) == \E o \in Ids : op[o].phase \in {"queued", "started"} /\ op[o].dev = d
i2c_bus_finalizer ==
    /\ Bound /\ ~Rooted(0)
    /\ CleanupSlot(Pending(Slots))
    /\ refs' = [refs EXCEPT !.bus = 0]
    /\ UNCHANGED <<op, worker>>

\* I2CBus.openDevice; without an object the device is taken off again, unless
\* the bus works at that moment.
i2c_bus_open_device ==
    /\ Bound /\ count.devices < MaxDevices
    /\ LET d == count.devices + 1
           added == [Slots EXCEPT !.dev[d].listed = TRUE]
       IN \/ /\ Become(added) /\ refs' = [refs EXCEPT !.dev = @ \union {d}]
             /\ count' = [count EXCEPT !.devices = d]
          \/ /\ Become(CleanupDevice(added, d)) /\ UNCHANGED refs
             /\ count.faults < MaxFaults
             /\ count' = [count EXCEPT !.devices = d, !.faults = @ + 1]
    /\ UNCHANGED <<op, worker>>

i2c_device_close(d) ==
    /\ d \in refs.dev /\ dev[d].listed /\ DeviceQuiet(Slots, d)
    /\ \/ Become(CleanupDevice(Slots, d)) /\ refs' = [refs EXCEPT !.dev = @ \ {d}] /\ UNCHANGED count
       \/ Fault /\ UNCHANGED <<bus, dev, refs>>
    /\ UNCHANGED <<op, worker>>

i2c_device_finalizer(d) ==
    /\ d \in refs.dev /\ ~Rooted(d)
    /\ LET w == IF dev[d].listed THEN [Slots EXCEPT !.dev[d].release_pending = TRUE] ELSE Slots
       IN \/ Become(IF dev[d].listed THEN CleanupDevice(w, d) ELSE w) /\ UNCHANGED count
          \/ dev[d].listed /\ DeviceQuiet(w, d) /\ Become(w) /\ Fault
    /\ refs' = [refs EXCEPT !.dev = @ \ {d}]
    /\ UNCHANGED <<op, worker>>

\* The context ends: operations first, then every slot.
deinit_i2c_runtime ==
    /\ \A o \in Ids : op[o].phase \notin {"queued", "started"}
    /\ bus.allocated /\ refs.bus = 0
    /\ CleanupSlot(Pending(Slots))
    /\ UNCHANGED <<refs, op, worker>>
-------------------------------------------------------------------------------
(* Futures. *)

Owns(o) == op[o].phase \in {"queued", "started"}
Live(o) == bus.allocated /\ bus.generation = op[o].generation
First(o) == \A p \in Ids : Owns(p) /\ p # o => op[p].phase # "started" /\ p > o

\* i2c_future_allocate_bus and _device, and the prepare functions, which copy
\* what is written; a copy that fails releases what was reserved.
i2c_future_allocate(o, d) ==
    /\ op[o].phase = "none" /\ \A p \in 1 .. o - 1 : op[p].phase # "none"
    /\ IF d = 0 THEN Bound ELSE d \in refs.dev /\ dev[d].listed
    /\ op' = [op EXCEPT ![o] = [NoOp EXCEPT !.phase = "queued", !.generation = bus.generation, !.dev = d]]
    /\ bus' = [bus EXCEPT !.reservations = @ + 1]
    /\ dev' = IF d = 0 THEN dev ELSE [dev EXCEPT ![d].reservations = @ + 1]
    /\ UNCHANGED <<refs, worker, count>>

\* i2c_future_release_bus: the bus is idle again, then what waits for that goes.
Unreserved(o) ==
    [bus |-> [bus EXCEPT !.busy = @ /\ ~op[o].started, !.reservations = @ - 1],
     dev |-> IF op[o].dev = 0 THEN dev ELSE [dev EXCEPT ![op[o].dev].reservations = @ - 1]]
Due(w) == {d \in Listed(w) : w.dev[d].release_pending /\ DeviceQuiet(w, d)}
Release(o) ==
    IF ~Live(o) THEN UNCHANGED <<bus, dev, count>>
    ELSE LET w == Unreserved(o) IN
         \/ /\ ~(w.bus.release_pending /\ SlotQuiet(w))
            /\ Become([w EXCEPT !.dev = [d \in DevIds |-> IF d \in Due(w) THEN NoDev ELSE @[d]]])
            /\ UNCHANGED count
         \/ w.bus.release_pending /\ CleanupSlot(w) /\ SlotQuiet(w)
         \/ /\ Due(w) # {} /\ Fault
            /\ \E stay \in SUBSET Due(w) : stay # {}
               /\ Become([w EXCEPT !.dev = [d \in DevIds |-> IF d \in Due(w) \ stay THEN NoDev ELSE @[d]]])
Gone(o) == op' = [op EXCEPT ![o] = [NoOp EXCEPT !.phase = "gone"]]

\* The lane admits one operation of the slot at a time.
i2c_future_start(o) ==
    /\ op[o].phase = "queued" /\ First(o)
    /\ IF Live(o) /\ ~bus.busy
       THEN \/ /\ bus' = [bus EXCEPT !.busy = TRUE]
               /\ op' = [op EXCEPT ![o].phase = "started", ![o].started = TRUE]
               /\ worker' = [NoWork EXCEPT !.op = o]
               /\ UNCHANGED <<dev, count>>
            \/ Release(o) /\ Gone(o) /\ UNCHANGED worker   \* no worker is free
       ELSE Release(o) /\ Gone(o) /\ UNCHANGED worker
    /\ UNCHANGED refs

\* i2c_future_worker looks its slot and its device up, then transfers.
i2c_future_worker ==
    /\ worker.op # 0
    /\ \/ /\ ~worker.looked
          /\ worker' = [worker EXCEPT !.looked = TRUE, !.bus = Live(worker.op) /\ bus.handle,
                            !.dev = IF op[worker.op].dev # 0 /\ dev[op[worker.op].dev].listed
                                    THEN op[worker.op].dev ELSE 0]
          /\ UNCHANGED op
       \/ /\ worker.looked /\ worker' = NoWork
          /\ op' = [op EXCEPT ![worker.op].completed = TRUE]
    /\ UNCHANGED <<bus, dev, refs, count>>

\* finish and destroy of a completed operation, or destroy of a queued one;
\* cancel is refused, so a deadline does not end it earlier.
i2c_future_destroy(o) ==
    /\ op[o].phase = "queued" \/ op[o].completed
    /\ Release(o) /\ Gone(o)
    /\ UNCHANGED <<refs, worker>>

Next ==
    \/ i2c_open_bus \/ i2c_open_bus_stuck \/ i2c_bus_close \/ i2c_bus_finalizer
    \/ i2c_bus_open_device \/ deinit_i2c_runtime \/ i2c_future_worker
    \/ \E d \in DevIds : i2c_device_close(d) \/ i2c_device_finalizer(d)
    \/ \E o \in Ids : \/ \E d \in 0 .. MaxDevices : i2c_future_allocate(o, d)
                      \/ i2c_future_start(o) \/ i2c_future_destroy(o)

Spec == Init /\ [][Next]_vars
-------------------------------------------------------------------------------
\* While a worker transfers, the handles it looked up exist and are those of
\* its operation, whatever the script closes or drops meanwhile.
HandlesHeld ==
    worker.looked => /\ worker.bus /\ Live(worker.op) /\ bus.handle
                     /\ worker.dev = op[worker.op].dev
                     /\ worker.dev # 0 => dev[worker.dev].listed

\* Reservations are those of the captured operations, and the bus is busy for one.
ReservationsExact ==
    /\ bus.reservations = Cardinality({o \in Ids : Owns(o)})
    /\ \A d \in DevIds : dev[d].reservations = Cardinality({o \in Ids : Owns(o) /\ op[o].dev = d})
    /\ bus.busy = (\E o \in Ids : op[o].started)

\* A bus or device that was dropped is freed with the last operation that used
\* it, unless the driver refused.
DroppedIsFreed ==
    count.faults = 0 =>
        /\ bus.allocated /\ bus.release_pending => bus.reservations > 0
        /\ \A d \in DevIds : dev[d].release_pending => dev[d].reservations > 0 \/ bus.busy
        /\ bus.lease = bus.allocated

I2cSafe == HandlesHeld /\ ReservationsExact /\ DroppedIsFreed
=============================================================================
