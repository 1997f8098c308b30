------------------------------ MODULE UartPort ------------------------------
(***************************************************************************)
(* A UART port (uart.c): the slot, its driver, the watch task that turns   *)
(* driver events into queued "readable" and "error" events, and the        *)
(* Futures of its receive and transmit lanes.  Three actors: the runtime   *)
(* task (JavaScript, Futures, clean-up), the watch task and the hardware.  *)
(***************************************************************************)
EXTENDS Naturals, Sequences, FiniteSets

CONSTANTS
    Cores,       \* 1: the runtime task only runs while the watch task blocks
    Idle,        \* idleMs > 0
    MinBytes,    \* minBytes
    Capacity,    \* of the watcher's queue
    MaxBytes, MaxEvents, TxSize,  \* receive buffer, driver queue, transmit buffer
    Kinds,       \* a subset of {"read", "write", "flush"}
    MaxOpens, MaxWatches, MaxRx, MaxOps, MaxFaults   \* bounds

VARIABLES
    port,        \* the slot
    watch,       \* its watcher: [open, generation, queued, rx]
    task,        \* the watch task: [pc, stop, done]
    driver,      \* the driver: [events, buf, tx]
    queue,       \* events of the watcher's queue, oldest first
    stale,       \* events of the queue before it, closed and not yet read
    op,          \* Futures, in the order of capture
    js,          \* where the runtime task is: [pc, for]
    ref,         \* generation of the live UARTPort object, or 0
    count        \* [generation, rx, faults]

vars == <<port, watch, task, driver, queue, stale, op, js, ref, count>>

Ids == 1 .. MaxOps
LaneOf(kind) == IF kind = "read" THEN "rx" ELSE "tx"

NoPort == [allocated |-> FALSE, generation |-> 0, installed |-> FALSE,
           release_pending |-> FALSE, reservations |-> 0,
           busy |-> [rx |-> FALSE, tx |-> FALSE],
           waiter |-> [rx |-> 0, tx |-> 0]]
NoWatch == [open |-> FALSE, generation |-> 0, queued |-> FALSE, rx |-> "none"]
TaskOff == [pc |-> "none", stop |-> FALSE, done |-> FALSE]
NoDriver == [events |-> <<>>, buf |-> 0, tx |-> 0]
NoOp == [phase |-> "none", kind |-> "read", generation |-> 0, timed |-> FALSE,
         late |-> FALSE, left |-> 0, attempted |-> FALSE, result |-> "pending",
         cancelled |-> FALSE]
Run == [pc |-> "run", for |-> "none"]

Init ==
    /\ port = NoPort /\ watch = NoWatch /\ task = TaskOff /\ driver = NoDriver
    /\ queue = <<>> /\ stale = <<>> /\ op = [o \in Ids |-> NoOp] /\ js = Run /\ ref = 0
    /\ count = [generation |-> 0, rx |-> 0, faults |-> 0]

\* On one core the watch task, of the higher priority, runs until it blocks.
TaskIdle == Cores = 1 => task.pc \in {"none", "forever", "timed", "exited"}
Js == js = Run /\ TaskIdle

Fault == count.faults < MaxFaults /\ count' = [count EXCEPT !.faults = @ + 1]
Outcome(ok) == IF ok THEN UNCHANGED count ELSE Fault
-------------------------------------------------------------------------------
(* The watch task. *)

\* uart_watch_publish_readable, under the watch lock: what it makes of the
\* watcher and its queue.  `idle' is allow_idle; a full queue drops the newest.
Publishable(idle) ==
    /\ watch.open /\ ~watch.queued /\ driver.buf > 0
    /\ driver.buf >= MinBytes \/ (idle /\ Idle /\ watch.rx = "idle")

Event(kind) == [kind |-> kind, port |-> port.generation, generation |-> watch.generation]

Publish(idle) ==
    IF Publishable(idle) /\ Len(queue) < Capacity
    THEN /\ watch' = [watch EXCEPT !.queued = TRUE]
         /\ queue' = Append(queue, Event("readable"))
    ELSE UNCHANGED <<watch, queue>>

Goto(pc) == task' = [task EXCEPT !.pc = pc]

\* The head of the loop: the stop flag, then uart_watch_next_wait.
NextWait ==
    IF watch.open /\ ~watch.queued /\ Idle /\ watch.rx # "none"
    THEN IF watch.rx = "idle" THEN "now" ELSE "timed" ELSE "forever"

uart_watch_next_wait ==
    /\ task.pc = "loop"
    /\ IF task.stop THEN Goto("exit")
       ELSE task' = [task EXCEPT !.pc = CASE NextWait = "forever" -> "block"
                                          [] NextWait = "timed" -> "blocktimed"
                                          [] OTHER -> "look"]
    /\ UNCHANGED <<port, watch, driver, queue, op, js, ref, count, stale>>

\* xQueueReceive: take an event, or block when there is none.
uart_watch_receive ==
    /\ task.pc \in {"block", "blocktimed", "look"}
    /\ IF driver.events # <<>> THEN Goto("event")
       ELSE Goto(CASE task.pc = "block" -> "forever"
                   [] task.pc = "blocktimed" -> "timed"
                   [] OTHER -> "timeout")
    /\ UNCHANGED <<port, watch, driver, queue, op, js, ref, count, stale>>

\* It wakes for an event, or when the wait is over.
uart_watch_wake ==
    /\ \/ task.pc \in {"forever", "timed"} /\ driver.events # <<>> /\ Goto("event")
       \/ task.pc = "timed" /\ watch.rx # "recent" /\ Goto("timeout")
    /\ UNCHANGED <<port, watch, driver, queue, op, js, ref, count, stale>>

\* A driver event: data restarts the idle time, an error is queued as it is.
uart_watch_event ==
    /\ task.pc = "event"
    /\ driver' = [driver EXCEPT !.events = Tail(@)]
    /\ IF task.stop THEN Goto("exit") /\ UNCHANGED <<watch, queue>>
       ELSE IF Head(driver.events) = "data"
       THEN /\ watch' = IF watch.open THEN [watch EXCEPT !.rx = "recent"] ELSE watch
            /\ Goto("publish") /\ UNCHANGED queue
       ELSE /\ queue' = IF watch.open /\ Len(queue) < Capacity
                        THEN Append(queue, Event("error")) ELSE queue
            /\ Goto("loop") /\ UNCHANGED watch
    /\ UNCHANGED <<port, op, js, ref, count, stale>>

uart_watch_publish ==
    /\ \/ task.pc = "publish" /\ \E timeout_flag \in BOOLEAN : Publish(timeout_flag)
       \/ task.pc = "timeout" /\ (IF task.stop THEN UNCHANGED <<watch, queue>>
                                  ELSE Publish(TRUE))
    /\ Goto("loop")
    /\ UNCHANGED <<port, driver, op, js, ref, count, stale>>

uart_watch_exit ==
    /\ task.pc = "exit"
    /\ task' = [task EXCEPT !.pc = "exited", !.done = TRUE]
    /\ UNCHANGED <<port, watch, driver, queue, op, js, ref, count, stale>>

\* The idle time since the last byte passes.
idle_passes ==
    /\ Idle /\ watch.rx = "recent"
    /\ watch' = [watch EXCEPT !.rx = "idle"]
    /\ UNCHANGED <<port, task, driver, queue, op, js, ref, count, stale>>
-------------------------------------------------------------------------------
(* The hardware. *)

Told(kind) == IF Len(driver.events) < MaxEvents THEN Append(driver.events, kind)
              ELSE driver.events

\* Bytes, or a line error, arrive: the interrupt handler of the driver queues
\* an event and, through uart_notify_from_isr, wakes the waiting Future.
receive(kind) ==
    /\ port.installed /\ count.rx < MaxRx
    /\ kind = "data" => driver.buf < MaxBytes
    /\ driver' = [driver EXCEPT !.events = Told(kind),
                                !.buf = IF kind = "data" THEN @ + 1 ELSE @]
    /\ count' = [count EXCEPT !.rx = @ + 1]
    /\ UNCHANGED <<port, watch, task, queue, op, js, ref, stale>>

transmit ==
    /\ port.installed /\ driver.tx > 0
    /\ driver' = [driver EXCEPT !.tx = @ - 1]
    /\ UNCHANGED <<port, watch, task, queue, op, js, ref, count, stale>>
-------------------------------------------------------------------------------
(* Opening, clean-up, close. *)

Busy == port.reservations > 0 \/ port.busy.rx \/ port.busy.tx

\* uart_cleanup_slot: stop the watch task (uart_stop_watch_task: flag, abort
\* its delay, join), close the watcher, delete the driver, reset the slot.
Cleanup(for) ==
    /\ port' = [port EXCEPT !.release_pending = TRUE]
    /\ js' = [pc |-> IF task.pc = "none" THEN "free" ELSE "abort", for |-> for]
    /\ task' = IF task.pc = "none" THEN task ELSE [task EXCEPT !.stop = TRUE]

\* xTaskAbortDelay: does nothing unless the task is blocked.
uart_stop_abort ==
    /\ js.pc = "abort" /\ TaskIdle
    /\ IF task.pc \in {"forever", "timed"} THEN Goto("timeout") ELSE UNCHANGED task
    /\ js' = [js EXCEPT !.pc = "join"]
    /\ UNCHANGED <<port, watch, driver, queue, op, ref, count, stale>>

\* xSemaphoreTake(watch_task_done, portMAX_DELAY).
MayJoin == task.done

uart_stop_join ==
    /\ js.pc = "join" /\ MayJoin
    /\ task' = IF task.pc = "exited" THEN TaskOff ELSE [task EXCEPT !.done = FALSE]
    /\ js' = [js EXCEPT !.pc = "free"]
    /\ UNCHANGED <<port, watch, driver, queue, op, ref, count, stale>>

\* The rest; the driver may refuse to go, and the slot stays for a retry.
uart_cleanup_free ==
    /\ js.pc = "free" /\ TaskIdle
    /\ \E ok \in BOOLEAN :
          /\ Outcome(ok)
          /\ port' = IF ok THEN NoPort ELSE port
          /\ driver' = IF ok THEN NoDriver ELSE driver
          /\ watch' = IF ok THEN NoWatch
                      ELSE [watch EXCEPT !.open = FALSE, !.queued = FALSE, !.rx = "none"]
          /\ ref' = IF ok /\ js.for = "close" THEN 0 ELSE ref
          /\ js' = IF ok /\ js.for = "open" THEN [js EXCEPT !.pc = "open"] ELSE Run
    /\ UNCHANGED <<task, queue, op, stale>>

\* uart.open: a port whose release failed is cleaned first; then uart_alloc_slot,
\* parameters, pins, lock and driver, the object.  The object of an earlier
\* opening that is gone was collected.
uart_open ==
    /\ Js /\ count.generation < MaxOpens /\ ref = 0
    /\ port.allocated /\ port.release_pending /\ ~Busy
    /\ Cleanup("open")
    /\ UNCHANGED <<watch, driver, queue, op, ref, count, stale>>

uart_open_port ==
    /\ TaskIdle /\ js \in {Run, [pc |-> "open", for |-> "open"]}
    /\ count.generation < MaxOpens /\ ref = 0 /\ ~port.allocated
    /\ \/ /\ port' = [NoPort EXCEPT !.allocated = TRUE, !.installed = TRUE,
                                    !.generation = count.generation + 1]
          /\ ref' = count.generation + 1
          /\ count' = [count EXCEPT !.generation = @ + 1]
       \/ \* a step failed, and what was built is gone or, if the driver
          \* refuses, kept for a retry
          /\ count.faults < MaxFaults
          /\ count' = [count EXCEPT !.generation = @ + 1, !.faults = @ + 1]
          /\ \E kept \in BOOLEAN :
               port' = IF kept THEN [NoPort EXCEPT !.allocated = TRUE, !.installed = TRUE,
                                         !.release_pending = TRUE,
                                         !.generation = count.generation + 1]
                       ELSE NoPort
          /\ UNCHANGED ref
    /\ js' = Run
    /\ UNCHANGED <<watch, task, driver, queue, op, stale>>

\* UARTPort.close refuses while an operation is pending.
uart_port_close ==
    /\ Js /\ ref # 0
    /\ IF port.allocated /\ port.generation = ref
       THEN ~Busy /\ Cleanup("close") /\ UNCHANGED ref
       ELSE ref' = 0 /\ UNCHANGED <<port, js, task>>
    /\ UNCHANGED <<watch, driver, queue, op, count, stale>>

\* The finalizer leaves a busy port to uart_future_release.  A queued Future
\* roots its owner, so the object of a busy port goes only at the very end of
\* the runtime or once the Future has let go of it.
uart_port_finalizer ==
    /\ Js /\ ref # 0 /\ ref' = 0
    /\ IF port.allocated /\ port.generation = ref
       THEN IF Busy THEN /\ port' = [port EXCEPT !.release_pending = TRUE]
                         /\ UNCHANGED <<js, task>>
            ELSE Cleanup("drop")
       ELSE UNCHANGED <<port, js, task>>
    /\ UNCHANGED <<watch, driver, queue, op, count, stale>>

\* The runtime starts or ends: every port is released.
uart_cleanup_all ==
    /\ Js /\ port.allocated /\ ~Busy
    /\ Cleanup("drop") /\ ref' = 0
    /\ UNCHANGED <<watch, driver, queue, op, count, stale>>

Bound == ref # 0 /\ port.allocated /\ port.generation = ref /\ ~port.release_pending
-------------------------------------------------------------------------------
(* The watcher seen from JavaScript. *)

\* UARTPort.watch: the old events of a driver nobody watched are dropped; the
\* task is started, or woken; then a first look at what is buffered.
uart_port_watch ==
    /\ Js /\ Bound /\ ~watch.open /\ watch.generation < MaxWatches
    /\ LET started == task.pc # "none"
           fresh == [open |-> TRUE, generation |-> watch.generation + 1,
                     queued |-> driver.buf >= MinBytes /\ Capacity > 0,
                     rx |-> IF driver.buf > 0 THEN "recent" ELSE "none"]
       IN /\ driver' = IF started THEN driver ELSE [driver EXCEPT !.events = <<>>]
          /\ watch' = fresh
          /\ queue' = IF fresh.queued
                      THEN <<[kind |-> "readable", port |-> port.generation,
                              generation |-> fresh.generation]>>
                      ELSE <<>>
          /\ stale' = queue
          /\ task' = IF ~started THEN [TaskOff EXCEPT !.pc = "loop"]
                     ELSE IF task.pc \in {"forever", "timed"}
                     THEN [task EXCEPT !.pc = "timeout"] ELSE task
    /\ UNCHANGED <<port, op, js, ref, count>>

\* The task could not be made: the new queue is closed again.
uart_port_watch_fails ==
    /\ Js /\ Bound /\ ~watch.open /\ watch.generation < MaxWatches /\ task.pc = "none"
    /\ Fault
    /\ driver' = [driver EXCEPT !.events = <<>>]
    /\ watch' = [NoWatch EXCEPT !.generation = watch.generation + 1]
    /\ stale' = queue /\ queue' = <<>>
    /\ UNCHANGED <<port, task, op, js, ref>>

\* uart_watch_close_queue, from EventQueue.close or its finalizer; events that
\* were queued may still be received.
uart_watch_close_queue ==
    /\ Js /\ watch.open
    /\ watch' = [watch EXCEPT !.open = FALSE, !.queued = FALSE, !.rx = "none"]
    /\ UNCHANGED <<port, task, driver, queue, op, js, ref, count, stale>>

\* uart_watch_event_to_js: the event is consumed; one of the present watcher
\* lets the next one be queued and looks at what is buffered.
\* Mutation: the event of an earlier watcher re-arms this one.
Rearmed_blind(e) ==
    IF e.kind = "readable" THEN [watch EXCEPT !.queued = FALSE] ELSE watch

Current(e) == /\ port.allocated /\ e.port = port.generation
              /\ e.generation = watch.generation

Rearmed(e) ==
    IF Current(e) /\ e.kind = "readable" THEN [watch EXCEPT !.queued = FALSE] ELSE watch

Again(e) == LET w == Rearmed(e)
            IN /\ Current(e) /\ w.open /\ ~w.queued /\ driver.buf > 0
               /\ driver.buf >= MinBytes \/ (Idle /\ w.rx = "idle")

uart_watch_event_to_js ==
    /\ Js
    /\ \/ /\ queue # <<>> /\ UNCHANGED stale
          /\ LET e == Head(queue)
             IN /\ watch' = [Rearmed(e) EXCEPT !.queued = @ \/ Again(e)]
                /\ queue' = IF Again(e) THEN Append(Tail(queue), Event("readable"))
                            ELSE Tail(queue)
       \/ /\ stale # <<>> /\ stale' = Tail(stale)
          /\ watch' = Rearmed(Head(stale)) /\ UNCHANGED queue
    /\ UNCHANGED <<port, task, driver, op, js, ref, count>>

\* UARTPort.clearRx.
uart_port_clear_rx ==
    /\ Js /\ Bound /\ driver.buf > 0
    /\ driver' = [driver EXCEPT !.buf = 0]
    /\ UNCHANGED <<port, watch, task, queue, op, js, ref, count, stale>>
-------------------------------------------------------------------------------
(* Futures. *)

Owns(o) == op[o].phase \in {"queued", "started"}
Live(o) == port.allocated /\ port.generation = op[o].generation
Lane(o) == LaneOf(op[o].kind)
First(o) == \A p \in Ids \ {o} : Owns(p) /\ Lane(p) = Lane(o) =>
                op[p].phase # "started" /\ p > o
Completed(o) == op[o].result # "pending"

\* The prepare functions: read and flush, and the three writes, which snapshot
\* or lease what they send.  timeoutMs = 0 is a deadline that has passed.
Captured(kind, timed) ==
    [NoOp EXCEPT !.phase = "queued", !.kind = kind, !.generation = port.generation,
                 !.timed = timed, !.late = ~timed,
                 !.left = IF kind = "write" THEN TxSize + 1 ELSE 0]

uart_future_allocate(kind, timed) ==
    /\ Js /\ Bound
    /\ \E o \in Ids :
          /\ \A p \in Ids : op[p].phase = "none" <=> p >= o
          /\ op' = [op EXCEPT ![o] = Captured(kind, timed)]
    /\ port' = [port EXCEPT !.reservations = @ + 1]
    /\ UNCHANGED <<watch, task, driver, queue, js, ref, count, stale>>

\* uart_future_next_write_data: the value, the chunk or the span has bytes left.
DataLeft(o) == op[o].left > 0

\* uart_write_future_step, one turn of its loop: the end of the data, the
\* deadline, then as much as the transmit buffer takes.
WriteStep(o) ==
    LET late == op[o].late /\ (op[o].attempted \/ op[o].timed)
        free == TxSize - driver.tx
        sent == IF op[o].left < free THEN op[o].left ELSE free
    IN IF ~DataLeft(o) THEN [op |-> [op[o] EXCEPT !.result = "ok"], driver |-> driver]
       ELSE IF late THEN [op |-> [op[o] EXCEPT !.result = "timeout"], driver |-> driver]
       ELSE [op |-> [op[o] EXCEPT !.left = @ - sent, !.attempted = TRUE,
                         !.result = IF sent = op[o].left THEN "ok"
                                    ELSE IF op[o].late THEN "timeout" ELSE "pending"],
             driver |-> [driver EXCEPT !.tx = @ + sent]]

ReadStep(o) ==
    IF driver.buf > 0
    THEN [op |-> [op[o] EXCEPT !.result = "ok"], driver |-> [driver EXCEPT !.buf = @ - 1]]
    ELSE [op |-> [op[o] EXCEPT !.result = IF op[o].late THEN "timeout" ELSE "pending"],
          driver |-> driver]

FlushStep(o) ==
    [op |-> [op[o] EXCEPT !.result = IF driver.tx = 0 THEN "ok"
                                     ELSE IF op[o].late THEN "timeout" ELSE "pending"],
     driver |-> driver]

Step(o) == CASE op[o].kind = "read" -> ReadStep(o)
             [] op[o].kind = "write" -> WriteStep(o)
             [] OTHER -> FlushStep(o)

\* uart_future_step at a start or a poll.
StepOrError(o) == IF Live(o) THEN Step(o)
                  ELSE [op |-> [op[o] EXCEPT !.result = "error"], driver |-> driver]

uart_future_start(o) ==
    /\ Js /\ op[o].phase = "queued" /\ First(o) /\ Live(o) /\ ~port.busy[Lane(o)]
    /\ port' = [port EXCEPT !.busy[Lane(o)] = TRUE, !.waiter[Lane(o)] = o]
    /\ op' = [op EXCEPT ![o] = [Step(o).op EXCEPT !.phase = "started"]]
    /\ driver' = Step(o).driver
    /\ UNCHANGED <<watch, task, queue, js, ref, count, stale>>

uart_future_poll(o) ==
    /\ Js /\ op[o].phase = "started" /\ ~Completed(o)
    /\ op' = [op EXCEPT ![o] = StepOrError(o).op] /\ driver' = StepOrError(o).driver
    /\ UNCHANGED <<port, watch, task, queue, js, ref, count, stale>>

\* The deadline passes; the operation's timer wakes it.
deadline(o) ==
    /\ op[o].phase = "started" /\ ~op[o].late /\ ~Completed(o)
    /\ op' = [op EXCEPT ![o].late = TRUE]
    /\ UNCHANGED <<port, watch, task, driver, queue, js, ref, count, stale>>

uart_future_cancel(o) ==
    /\ Js /\ Owns(o) /\ ~Completed(o)
    /\ op' = [op EXCEPT ![o].cancelled = TRUE, ![o].result = "cancelled"]
    /\ UNCHANGED <<port, watch, task, driver, queue, js, ref, count, stale>>

\* uart_future_destroy and uart_future_release, after uart_future_finish, a cancel or a
\* start that failed (its timer): busy flag, waiter, reservation, and the
\* clean-up that waits for the last of them.
Given(o) ==
    LET mine == op[o].phase = "started"
    IN [port EXCEPT !.reservations = @ - 1,
                    !.busy[Lane(o)] = @ /\ ~mine,
                    !.waiter[Lane(o)] = IF mine THEN 0 ELSE @]

CleanupDue(p) == /\ p.release_pending /\ p.reservations = 0
                 /\ ~p.busy.rx /\ ~p.busy.tx

uart_future_destroy(o) ==
    /\ Js /\ Owns(o)
    /\ \/ Completed(o) /\ UNCHANGED count
       \/ op[o].phase = "started" /\ ~Completed(o) /\ ~op[o].attempted /\ Fault
    /\ op' = [op EXCEPT ![o] = [NoOp EXCEPT !.phase = "gone"]]
    /\ IF ~Live(o) THEN UNCHANGED <<port, js, task>>
       ELSE /\ port' = Given(o)
            /\ IF CleanupDue(Given(o))
               THEN /\ js' = [pc |-> IF task.pc = "none" THEN "free" ELSE "abort", for |-> "drop"]
                    /\ task' = IF task.pc = "none" THEN task ELSE [task EXCEPT !.stop = TRUE]
               ELSE UNCHANGED <<js, task>>
    /\ UNCHANGED <<watch, driver, queue, ref, stale>>
-------------------------------------------------------------------------------
TaskStep == uart_watch_next_wait \/ uart_watch_receive \/ uart_watch_wake
            \/ uart_watch_event \/ uart_watch_publish \/ uart_watch_exit
CleanupStep == uart_stop_abort \/ uart_stop_join \/ uart_cleanup_free

Next ==
    \/ TaskStep \/ CleanupStep \/ idle_passes \/ transmit
    \/ receive("data") \/ receive("error")
    \/ uart_open \/ uart_open_port \/ uart_port_close \/ uart_port_finalizer
    \/ uart_cleanup_all \/ uart_port_watch \/ uart_port_watch_fails \/ uart_watch_close_queue
    \/ uart_watch_event_to_js \/ uart_port_clear_rx
    \/ \E kind \in Kinds, timed \in BOOLEAN : uart_future_allocate(kind, timed)
    \/ \E o \in Ids : uart_future_start(o) \/ uart_future_poll(o) \/ deadline(o)
                      \/ uart_future_cancel(o) \/ uart_future_destroy(o)

\* Tasks run; a wait that is over ends; the pump ends what has completed and,
\* once its deadline passed, completes the rest.
Weak(k) == \/ k = 1 /\ TaskStep
           \/ k = 2 /\ (CleanupStep \/ (js.pc = "open" /\ uart_open_port))
           \/ k = 3 /\ idle_passes
           \/ k = 4 /\ \E o \in Ids : deadline(o)
Strong(k) ==
    \E o \in Ids :
        \/ k = 1 /\ uart_future_destroy(o)
        \/ k = 2 /\ uart_future_start(o)
        \/ k = 3 /\ op[o].late /\ uart_future_poll(o)
Fairness == (\A k \in 1 .. 4 : WF_vars(Weak(k))) /\ \A k \in 1 .. 3 : SF_vars(Strong(k))

Spec == Init /\ [][Next]_vars
FairSpec == Spec /\ Fairness
-------------------------------------------------------------------------------
TypeOK ==
    /\ port.reservations \in 0 .. MaxOps /\ port.waiter.rx \in Ids \union {0}
    /\ watch.rx \in {"none", "recent", "idle"} /\ driver.buf \in 0 .. MaxBytes
    /\ driver.tx \in 0 .. TxSize /\ Len(queue) <= Capacity
    /\ js.pc \in {"run", "abort", "join", "free", "open"}

\* The watch task never runs without its port: the slot, its lock, its driver
\* queue and its semaphore exist as long as the task can touch them.
TaskKeepsPort == task.pc \notin {"none", "exited"} => port.allocated /\ port.installed

\* Readable events are coalesced: the flag says exactly whether one of the
\* present watcher is queued, and there is at most one.
Coalesced ==
    LET mine == {i \in 1 .. Len(queue) : /\ queue[i].kind = "readable"
                                         /\ Current(queue[i])}
    IN watch.open => /\ Cardinality(mine) <= 1
                     /\ watch.queued <=> mine # {}

\* The interrupt handler wakes the Future that holds the lane and no other, and
\* reservations and busy flags are those of the live operations.
LanesExact ==
    port.allocated =>
        /\ port.reservations = Cardinality({o \in Ids : Owns(o) /\ Live(o)})
        /\ \A l \in {"rx", "tx"} :
              LET held == {o \in Ids : op[o].phase = "started" /\ Live(o) /\ Lane(o) = l}
              IN /\ Cardinality(held) <= 1
                 /\ port.busy[l] <=> held # {}
                 /\ port.waiter[l] = IF held = {} THEN 0 ELSE CHOOSE o \in held : TRUE

UartSafe == TypeOK /\ TaskKeepsPort /\ Coalesced /\ LanesExact

\* Buffered bytes that reach the threshold are told: with a watcher and room in
\* its queue they are announced unless somebody takes them first.
Announced == \E i \in 1 .. Len(queue) : queue[i] = Event("readable")
Readable == watch.open /\ driver.buf >= MinBytes /\ Len(queue) < Capacity
ReadableTold == Readable ~> Announced \/ ~Readable

\* Buffered bytes below the threshold are announced once the line is idle.
IdleTold ==
    Idle /\ watch.open /\ driver.buf > 0 /\ watch.rx # "none" /\ Len(queue) < Capacity
        ~> Announced \/ ~watch.open \/ driver.buf = 0 \/ Len(queue) = Capacity

\* A clean-up, whoever asked for it, comes back: close() returns and a port
\* whose object is gone is released once its operations end.
Released == ~port.allocated \/ count.faults > 0
CleanupEnds == js.pc # "run" ~> js.pc = "run"
ReleaseEnds == port.release_pending /\ Busy ~> Released

\* The three of them, by number.
Owed(k) ==
    \/ k = 1 /\ Readable
    \/ k = 2 /\ js.pc # "run"
    \/ k = 3 /\ port.release_pending /\ Busy
Paid(k) ==
    \/ k = 1 /\ (Announced \/ ~Readable)
    \/ k = 2 /\ js.pc = "run"
    \/ k = 3 /\ Released
=============================================================================
