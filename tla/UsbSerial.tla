------------------------------ MODULE UsbSerial ------------------------------
(***************************************************************************)
(* USB Serial/JTAG (usb_serial.c, usb_serial_future_lifecycle.c): one      *)
(* session with a line buffer and an event queue, sends through Futures    *)
(* that share one lane, and the synchronous send, which polls the runtime  *)
(* while it waits for room and so lets timers and callbacks run inside it. *)
(***************************************************************************)
EXTENDS Naturals, Sequences, FiniteSets

CONSTANTS Length,     \* parts a send is written in
          Room,       \* parts the transmit buffer takes until the host reads
          Reopen,     \* may a script close and open again under a pending send?
          MaxOpens, MaxOps, MaxFaults     \* bounds

VARIABLES
    s,        \* s_usb_serial_state
    handle,   \* generations of the handle objects that are alive
    asked,    \* generation whose event queue was asked to close (0: none)
    op,       \* sends, in the order they are called
    leases,   \* sends that hold a read lease, an open span source or a copy
    stdout,   \* sends that hold the lock of stdout
    line,     \* [connected, free]: the cable and the free transmit room
    wire,     \* what was written: <<send, session>>
    count     \* [opens, faults]

vars == <<s, handle, asked, op, leases, stdout, line, wire, count>>

Ids == 1 .. MaxOps
Closed == [opened |-> FALSE, binary |-> FALSE, generation |-> 0, line_buffer |-> 0,
           sending |-> FALSE, sent |-> 0]
NoOp == [phase |-> "none", sync |-> FALSE, generation |-> 0, offset |-> 0, started |-> FALSE,
         completed |-> FALSE, cancelled |-> FALSE, timer |-> FALSE, result |-> "ok"]

Init ==
    /\ s = Closed /\ handle = {} /\ asked = 0
    /\ op = [o \in Ids |-> NoOp] /\ leases = {} /\ stdout = {}
    /\ line = [connected |-> TRUE, free |-> Room] /\ wire = <<>>
    /\ count = [opens |-> 0, faults |-> 0]

Fault == count.faults < MaxFaults /\ count' = [count EXCEPT !.faults = @ + 1]
Pending == \E o \in Ids : op[o].started
-------------------------------------------------------------------------------
(* The session. *)

\* usbSerial.open: a text session has a line buffer, which goes again if the
\* queue or the handle cannot be made.
js_usb_serial_open(binary) ==
    /\ count.opens < MaxOpens /\ ~s.opened /\ (Reopen \/ ~Pending)
    /\ LET gen == count.opens + 1 IN
       \/ /\ s' = [s EXCEPT !.opened = TRUE, !.binary = binary, !.generation = gen,
                            !.line_buffer = IF binary THEN 0 ELSE gen]
          /\ handle' = handle \union {gen}
          /\ count' = [count EXCEPT !.opens = gen]
       \/ /\ Fault /\ s' = [s EXCEPT !.binary = binary, !.line_buffer = 0]
          /\ UNCHANGED handle
    /\ UNCHANGED <<asked, op, leases, stdout, line, wire>>

usb_serial_close_source == s' = [s EXCEPT !.opened = FALSE, !.line_buffer = 0]

\* close() of a handle closes the session only if it is still this handle's.
js_usb_serial_close(h) ==
    /\ h \in handle /\ handle' = handle \ {h}
    /\ IF s.opened /\ h = s.generation THEN usb_serial_close_source /\ asked' = 0
       ELSE UNCHANGED <<s, asked>>
    /\ UNCHANGED <<op, leases, stdout, line, wire, count>>

\* A queued or active send keeps its handle; a lost handle asks its queue to close.
js_usb_serial_handle_finalizer(h) ==
    /\ h \in handle
    /\ \A o \in Ids : op[o].phase \in {"queued", "active"} => op[o].generation # h
    /\ handle' = handle \ {h}
    /\ asked' = IF s.opened /\ h = s.generation THEN h ELSE asked
    /\ UNCHANGED <<s, op, leases, stdout, line, wire, count>>
event_queue_closes ==
    /\ asked # 0 /\ asked' = 0
    /\ usb_serial_close_source
    /\ UNCHANGED <<handle, op, leases, stdout, line, wire, count>>

\* esp32_mquickjs_deinit_usb_serial_runtime comes after the Futures are gone.
deinit_usb_serial_runtime ==
    /\ \A o \in Ids : op[o].phase \in {"none", "gone"}
    /\ s # Closed /\ s' = Closed /\ asked' = 0 /\ handle' = {}
    /\ UNCHANGED <<op, leases, stdout, line, wire, count>>
-------------------------------------------------------------------------------
(* Sends. *)

Fresh(o) == op[o].phase = "none" /\ \A p \in 1 .. o - 1 : op[p].phase # "none"
First(o) == op[o].phase = "queued" /\ \A p \in 1 .. o - 1 : op[p].phase # "queued" /\ (op[p].phase = "active" => op[p].sync)
Usable == s.opened /\ s.generation \in handle /\ line.connected
Gone(o) == op' = [op EXCEPT ![o] = [NoOp EXCEPT !.phase = "gone", !.result = op[o].result, !.offset = op[o].offset]]

\* usb_serial_future_prepare copies the text, or leases or opens the data.
usb_serial_future_prepare(o) ==
    /\ Fresh(o) /\ Usable
    /\ op' = [op EXCEPT ![o] = [NoOp EXCEPT !.phase = "queued", !.generation = s.generation]]
    /\ leases' = leases \union {o}
    /\ UNCHANGED <<s, handle, asked, stdout, line, wire, count>>

\* usb_serial_future_start: one send at a time, in its own session; a send that
\* cannot start is destroyed.
usb_serial_future_start(o) ==
    /\ First(o)
    /\ IF ~s.sending /\ s.opened /\ op[o].generation = s.generation /\ line.connected
       THEN \/ /\ op' = [op EXCEPT ![o].phase = "active", ![o].started = TRUE]
               /\ s' = [s EXCEPT !.sending = TRUE] /\ stdout' = stdout \union {o}
               /\ UNCHANGED <<leases, count>>
            \/ /\ Fault /\ Gone(o) /\ leases' = leases \ {o}   \* no stall timer
               /\ UNCHANGED <<s, stdout>>
       ELSE Gone(o) /\ leases' = leases \ {o} /\ UNCHANGED <<s, stdout, count>>
    /\ UNCHANGED <<handle, asked, line, wire>>

\* The synchronous send takes lane and lock for the whole call.
js_usb_serial_send(o) ==
    /\ Fresh(o) /\ Usable /\ ~s.sending
    /\ op' = [op EXCEPT ![o] = [NoOp EXCEPT !.phase = "active", !.sync = TRUE, !.generation = s.generation, !.started = TRUE]]
    /\ s' = [s EXCEPT !.sending = TRUE]
    /\ leases' = leases \union {o} /\ stdout' = stdout \union {o}
    /\ UNCHANGED <<handle, asked, line, wire, count>>

Complete(o, result) == op' = [op EXCEPT ![o].completed = TRUE, ![o].result = result]
\* One write of usb_serial_future_step or usb_serial_write_binary: closed and
\* disconnected sessions end it; without room it waits for its deadline.
Step(o) ==
    /\ op[o].phase = "active" /\ ~op[o].completed
    /\ IF ~s.opened THEN Complete(o, "closed") /\ UNCHANGED <<line, wire, count>>
       ELSE IF ~line.connected THEN Complete(o, "disconnected") /\ UNCHANGED <<line, wire, count>>
       ELSE IF op[o].offset = Length THEN Complete(o, "ok") /\ UNCHANGED <<line, wire, count>>
       ELSE \/ /\ line.free > 0
               /\ op' = [op EXCEPT ![o].offset = @ + 1, ![o].timer = FALSE]
               /\ line' = [line EXCEPT !.free = @ - 1]
               /\ wire' = Append(wire, <<o, s.generation>>)
               /\ UNCHANGED count
            \/ /\ line.free = 0
               /\ \/ Complete(o, "timeout") /\ UNCHANGED count          \* no progress for a second
                  \/ ~op[o].timer /\ op' = [op EXCEPT ![o].timer = TRUE] /\ UNCHANGED count
                  \/ Fault /\ Complete(o, "interrupted")
               /\ UNCHANGED <<line, wire>>
    /\ UNCHANGED <<s, handle, asked, leases, stdout>>
usb_serial_future_step(o) == ~op[o].sync /\ Step(o)
usb_serial_write_binary(o) == op[o].sync /\ Step(o)

usb_serial_future_cancel(o) ==
    /\ op[o].phase = "active" /\ ~op[o].sync /\ ~op[o].completed
    /\ op' = [op EXCEPT ![o].cancelled = TRUE, ![o].completed = TRUE, ![o].result = "cancelled"]
    /\ UNCHANGED <<s, handle, asked, leases, stdout, line, wire, count>>

\* finish counts the frame; destroy gives back what take_release says was taken.
Released(o) ==
    /\ op[o].phase = "active" /\ op[o].completed
    /\ Gone(o)
    /\ s' = [s EXCEPT !.sending = FALSE, !.sent = IF op[o].result = "ok" THEN @ + 1 ELSE @]
    /\ stdout' = stdout \ {o} /\ leases' = leases \ {o}
    /\ UNCHANGED <<handle, asked, line, wire, count>>
usb_serial_future_destroy(o) == ~op[o].sync /\ Released(o)
js_usb_serial_send_ends(o) == op[o].sync /\ Released(o)

\* A queued send may be cancelled before it starts.
usb_serial_future_drop(o) ==
    /\ op[o].phase = "queued" /\ Gone(o) /\ leases' = leases \ {o}
    /\ UNCHANGED <<s, handle, asked, stdout, line, wire, count>>

HostReads == line.free < Room /\ line' = [line EXCEPT !.free = Room] /\ UNCHANGED <<s, handle, asked, op, leases, stdout, wire, count>>
CableMoves ==
    /\ IF line.connected THEN Fault ELSE UNCHANGED count
    /\ line' = [line EXCEPT !.connected = ~@]
    /\ UNCHANGED <<s, handle, asked, op, leases, stdout, wire>>

Next ==
    \/ \E b \in BOOLEAN : js_usb_serial_open(b)
    \/ \E h \in handle : js_usb_serial_close(h) \/ js_usb_serial_handle_finalizer(h)
    \/ event_queue_closes \/ deinit_usb_serial_runtime
    \/ \E o \in Ids : \/ usb_serial_future_prepare(o) \/ usb_serial_future_start(o)
                      \/ js_usb_serial_send(o)
                      \/ usb_serial_future_step(o) \/ usb_serial_write_binary(o)
                      \/ usb_serial_future_cancel(o) \/ usb_serial_future_drop(o)
                      \/ usb_serial_future_destroy(o) \/ js_usb_serial_send_ends(o)
    \/ HostReads \/ CableMoves

Spec == Init /\ [][Next]_vars
-------------------------------------------------------------------------------
\* Frames stay whole: what a send wrote is one run of the wire, written in the
\* session it was sent to, and a send that succeeded wrote all of it.
FramesWhole ==
    /\ \A i, j, k \in DOMAIN wire : i < j /\ j < k /\ wire[i][1] = wire[k][1] => wire[j][1] = wire[i][1]
    /\ \A i, j \in DOMAIN wire : wire[i][1] = wire[j][1] => wire[i][2] = wire[j][2]
    /\ \A o \in Ids : op[o].phase # "none" => Cardinality({i \in DOMAIN wire : wire[i][1] = o}) = op[o].offset
    /\ \A o \in Ids : (op[o].phase = "gone" \/ op[o].completed) /\ op[o].result = "ok" /\ op[o].offset > 0 => op[o].offset = Length

\* One send has the lane and the lock of stdout, sends hold their data until
\* they are destroyed, and the line buffer lives exactly as long as a text session.
LaneExact ==
    /\ s.sending <=> Pending
    /\ stdout = {o \in Ids : op[o].started} /\ Cardinality(stdout) <= 1
    /\ leases = {o \in Ids : op[o].phase \in {"queued", "active"}}
    /\ s.line_buffer = IF s.opened /\ ~s.binary THEN s.generation ELSE 0
    /\ s.opened => s.generation \in handle \union {asked}
    /\ asked # 0 => s.opened /\ asked = s.generation

UsbSafe == FramesWhole /\ LaneExact
=============================================================================
