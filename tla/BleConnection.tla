---------------------------- MODULE BleConnection ----------------------------
(***************************************************************************)
(* The connection slots of the BLE adapter (ble.c): outgoing connects and  *)
(* their cancellation, incoming connections until the script claims them,  *)
(* GATT, pairing and close operations as Futures, and the NimBLE host whose*)
(* callbacks reach Future states through the slot's active_gap_state and   *)
(* active_gatt_state or through a registered identity.  Starts, finishes   *)
(* and GAP events hold the connection mutex.                               *)
(***************************************************************************)
EXTENDS Naturals, FiniteSets, Sequences, SequencesExt

CONSTANTS
    Slots,       \* connection slots, numbers
    Handles,     \* connection handles the controller assigns
    Kinds,       \* operations tried: "connect", "gatt", "pair", "close"
    Reuse,       \* a handle may come back while a closed slot still names it
    Drops,       \* connections whose object the script may lose without close(): "open", "ended"
    QueueLength, \* capacity of the advertiser's queue
    MaxOps, MaxLinks, MaxFaults    \* bounds

VARIABLES
    slot,        \* ble_connection_slot_t
    op,          \* Future driver states
    link,        \* the host's connections: up, slot of the callback, terminate asked
    attempt,     \* the host's connect procedure: a slot, or none
    procs,       \* GATT procedures of the host: operation and handle
    incoming,    \* the advertiser's queue: unclaimed connections
    advertiser,  \* new, active, open and stopped, or closed
    held,        \* connection objects of the script
    rejected,    \* rejected_connection_error is set
    orphan,      \* an adapter-wide cleanup was requested
    generation, links, faults

vars == <<slot, op, link, attempt, procs, incoming, advertiser, held, rejected, orphan,
          generation, links, faults>>

Ops == 1 .. MaxOps
NoHandle == 0
NoSlot == [allocated |-> FALSE, reserved |-> FALSE, open |-> FALSE, release |-> FALSE,
           pending |-> FALSE, gen |-> 0, handle |-> NoHandle, native |-> "idle", gap |-> 0, gatt |-> 0]
NoOp == [kind |-> "gatt", phase |-> "none", slot |-> 0, gen |-> 0, completed |-> FALSE,
         ok |-> TRUE, identity |-> FALSE]
Down == [up |-> FALSE, arg |-> {}, asked |-> FALSE]

Init ==
    /\ slot = [i \in Slots |-> NoSlot] /\ op = [o \in Ops |-> NoOp]
    /\ link = [h \in Handles |-> Down] /\ attempt = {} /\ procs = {}
    /\ incoming = <<>> /\ advertiser = "new" /\ held = {} /\ rejected = FALSE /\ orphan = FALSE
    /\ generation = 0 /\ links = 0 /\ faults = 0

Fault == faults < MaxFaults /\ faults' = faults + 1
Gone(o) == [NoOp EXCEPT !.phase = "gone"]
-------------------------------------------------------------------------------
(* Future states: ble_gatt_state_bind, ble_native_state_complete, release. *)

\* An identity holds the state until the native side has completed; the state
\* goes when it is detached and no identity is left.
Completed(ops, o) ==
    [ops EXCEPT ![o] = IF @.phase = "detached" THEN Gone(o) ELSE [@ EXCEPT !.identity = FALSE]]
Unbound(slots, o) ==
    [i \in Slots |-> [slots[i] EXCEPT !.gap = IF @ = o THEN 0 ELSE @,
                                      !.gatt = IF @ = o THEN 0 ELSE @]]

\* ble_future_state_release: pointers stay while the identity is registered.
\* Mutation: the release takes the pointers and the storage at once.
Released_now(ops, o) == [ops EXCEPT ![o] = Gone(o)]

Released(ops, o) == [ops EXCEPT ![o] = IF @.identity THEN [@ EXCEPT !.phase = "detached"] ELSE Gone(o)]
ReleasedSlots(slots, ops, o) == IF ops[o].identity THEN slots ELSE Unbound(slots, o)

\* The state a GAP event with a slot as its argument is for.
GapState(i) == IF slot[i].gap # 0 /\ op[slot[i].gap].phase # "gone" THEN slot[i].gap ELSE 0

\* A Future that has timed out is settled, but its driver keeps the lane until
\* it is ready.
Active(o) == op[o].phase \in {"queued", "started", "settled"}
First(o) == \A p \in 1 .. o - 1 :
               Active(p) =>
                   IF op[o].kind = "connect" THEN op[p].kind # "connect"
                   ELSE op[p].kind = "connect" \/ op[p].slot # op[o].slot
-------------------------------------------------------------------------------
(* ble_reserve_connection *)

Reservable(i) == /\ ~slot[i].allocated /\ ~slot[i].reserved
                 /\ slot[i].native = "idle" /\ slot[i].gatt = 0
FirstFree == {i \in Slots : Reservable(i) /\ \A j \in Slots : j < i => ~Reservable(j)}
Reserved(i, gen) == [slot[i] EXCEPT !.reserved = TRUE, !.release = FALSE, !.pending = FALSE,
                                    !.gen = gen, !.handle = NoHandle]
PendingConnects == \E i \in Slots : slot[i].native # "idle"

Disconnected(s) == [s EXCEPT !.open = FALSE, !.allocated = FALSE, !.reserved = FALSE,
                             !.release = FALSE, !.native = "idle", !.handle = NoHandle]

\* ble_terminate_unclaimed_connection on s, the state of an open slot.
Terminated(i, s) ==
    \/ /\ link[s.handle].up
       /\ link' = [link EXCEPT ![s.handle].asked = TRUE]
       /\ slot' = [slot EXCEPT ![i] = [s EXCEPT !.release = TRUE]]
       /\ UNCHANGED <<rejected, faults>>
    \/ /\ link[s.handle].up /\ Fault /\ rejected' = TRUE
       /\ link' = [link EXCEPT ![s.handle].asked = TRUE]
       /\ slot' = [slot EXCEPT ![i] = [s EXCEPT !.release = TRUE]]
    \/ /\ ~link[s.handle].up
       /\ slot' = [slot EXCEPT ![i] = Disconnected(s)]
       /\ UNCHANGED <<link, rejected, faults>>
-------------------------------------------------------------------------------
(* Capture, start, timeout and end of the operations. *)

Fresh(o) == op[o].phase = "none" /\ (\A p \in 1 .. o - 1 : op[p].phase # "none") /\ ~orphan

connect_capture(o) ==
    /\ Fresh(o) /\ "connect" \in Kinds /\ ~PendingConnects /\ advertiser # "active"
    /\ \E i \in FirstFree :
          /\ slot' = [slot EXCEPT ![i] = Reserved(i, generation + 1)]
          /\ op' = [op EXCEPT ![o] = [NoOp EXCEPT !.kind = "connect", !.phase = "queued", !.slot = i,
                                                  !.gen = generation + 1]]
    /\ generation' = generation + 1
    /\ UNCHANGED <<link, attempt, procs, incoming, advertiser, held, rejected, orphan, links, faults>>

\* gatt: exchangeMtu, readRssi, discover, read, write, subscribe.
operation_capture(o, kind) ==
    /\ Fresh(o) /\ kind \in Kinds \ {"connect"}
    /\ \E c \in held :
          /\ slot[c.slot].allocated /\ slot[c.slot].gen = c.gen
          /\ op' = [op EXCEPT ![o] = [NoOp EXCEPT !.kind = kind, !.phase = "queued", !.slot = c.slot,
                                                  !.gen = c.gen]]
    /\ UNCHANGED <<slot, link, attempt, procs, incoming, advertiser, held, rejected, orphan,
                   generation, links, faults>>

\* ble_connect_destroy, once the state is not transferred to the script.
ConnectDestroyed(o) ==
    LET i == op[o].slot
        s == [slot[i] EXCEPT !.gap = IF @ = o THEN 0 ELSE @]
        quiet == [s EXCEPT !.reserved = FALSE, !.allocated = FALSE]
    IN IF s.gen = op[o].gen /\ s.open
       THEN Terminated(i, [s EXCEPT !.native = "cancelling"])
       ELSE /\ slot' = [slot EXCEPT ![i] = IF s.gen = op[o].gen /\ s.native = "idle" THEN quiet ELSE s]
            /\ UNCHANGED <<link, rejected, faults>>

connect_start(o) ==
    /\ op[o].kind = "connect" /\ op[o].phase = "queued" /\ First(o) /\ attempt = {}
    /\ op' = [op EXCEPT ![o].phase = "started"]
    /\ slot' = [slot EXCEPT ![op[o].slot].native = "active", ![op[o].slot].gap = o]
    /\ attempt' = {op[o].slot}
    /\ UNCHANGED <<link, procs, incoming, advertiser, held, rejected, orphan, generation, links, faults>>

\* ble_gap_connect refuses: another attempt is under way, or any error.
connect_start_fails(o) ==
    /\ op[o].kind = "connect" /\ op[o].phase = "queued" /\ First(o)
    /\ IF attempt # {} THEN UNCHANGED faults ELSE Fault
    /\ slot' = [slot EXCEPT ![op[o].slot].reserved = FALSE]
    /\ op' = [op EXCEPT ![o] = Gone(o)]
    /\ UNCHANGED <<link, attempt, procs, incoming, advertiser, held, rejected, orphan, generation, links>>

\* ble_connect_finish, then ble_connect_destroy; only the latter after a timeout.
connect_finish(o) ==
    /\ op[o].kind = "connect" /\ op[o].phase \in {"started", "settled"} /\ op[o].completed
    /\ op' = [op EXCEPT ![o] = Gone(o)]
    /\ LET i == op[o].slot
           ok == op[o].phase = "started" /\ op[o].ok /\ slot[i].open /\ slot[i].gen = op[o].gen
       IN
       \/ /\ ok
          /\ slot' = [slot EXCEPT ![i].gap = 0]
          /\ link' = [link EXCEPT ![slot[i].handle].arg = {}]
          /\ held' = held \union {[slot |-> i, gen |-> op[o].gen]}
          /\ UNCHANGED <<rejected, faults>>
       \/ /\ ~ok
          /\ ConnectDestroyed(o) /\ UNCHANGED held
    /\ UNCHANGED <<attempt, procs, incoming, advertiser, orphan, generation, links>>

\* ble_future_on_timeout: the attempt is cancelled, its slot and its driver stay
\* until the host reports; a queued connect just gives its slot back.
connect_timeout(o) ==
    /\ op[o].kind = "connect" /\ op[o].phase \in {"queued", "started"}
    /\ op' = [op EXCEPT ![o] = IF @.phase = "started" THEN [@ EXCEPT !.phase = "settled"] ELSE Gone(o)]
    /\ slot' = [slot EXCEPT ![op[o].slot] =
                   IF op[o].phase = "started"
                   THEN [@ EXCEPT !.native = IF @ = "active" THEN "cancelling" ELSE @]
                   ELSE [@ EXCEPT !.reserved = FALSE, !.allocated = FALSE]]
    /\ UNCHANGED <<link, attempt, procs, incoming, advertiser, held, rejected, orphan, generation,
                   links, faults>>

\* ble_gatt_state_bind refuses a stale generation and a slot in use.
Bindable(o) == slot[op[o].slot].gen = op[o].gen /\ slot[op[o].slot].gatt = 0
LinkOf(o) == LET h == slot[op[o].slot].handle IN IF h = NoHandle THEN Down ELSE link[h]

operation_start_fails(o) ==
    /\ op[o].kind # "connect" /\ op[o].phase = "queued" /\ First(o)
    /\ \/ ~Bindable(o) /\ UNCHANGED faults
       \/ op[o].kind # "close" /\ Bindable(o) /\ ~LinkOf(o).up /\ UNCHANGED faults
       \/ (op[o].kind = "close" => slot[op[o].slot].open) /\ Bindable(o) /\ Fault
    /\ op' = [op EXCEPT ![o] = Gone(o)]
    /\ UNCHANGED <<slot, link, attempt, procs, incoming, advertiser, held, rejected, orphan,
                   generation, links>>

gatt_start(o) ==
    /\ op[o].kind = "gatt" /\ op[o].phase = "queued" /\ First(o) /\ Bindable(o) /\ LinkOf(o).up
    /\ op' = [op EXCEPT ![o].phase = "started", ![o].identity = TRUE]
    /\ slot' = [slot EXCEPT ![op[o].slot].gatt = o]
    /\ procs' = procs \union {[op |-> o, on |-> slot[op[o].slot].handle, told |-> FALSE]}
    /\ UNCHANGED <<link, attempt, incoming, advertiser, held, rejected, orphan, generation, links, faults>>

pair_start(o) ==
    /\ op[o].kind = "pair" /\ op[o].phase = "queued" /\ First(o) /\ Bindable(o) /\ LinkOf(o).up
    /\ op' = [op EXCEPT ![o].phase = "started", ![o].identity = TRUE]
    /\ slot' = [slot EXCEPT ![op[o].slot].gatt = o, ![op[o].slot].gap = o]
    /\ link' = [link EXCEPT ![slot[op[o].slot].handle].arg = {op[o].slot}]
    /\ UNCHANGED <<attempt, procs, incoming, advertiser, held, rejected, orphan, generation, links, faults>>

\* ble_connection_close_start: a slot that is down completes at once.
close_start(o) ==
    LET i == op[o].slot IN
    /\ op[o].kind = "close" /\ op[o].phase = "queued" /\ First(o) /\ Bindable(o)
    /\ IF slot[i].open /\ LinkOf(o).up
       THEN /\ op' = [op EXCEPT ![o].phase = "started", ![o].identity = TRUE]
            /\ slot' = [slot EXCEPT ![i].gap = o, ![i].gatt = o]
            /\ link' = [link EXCEPT ![slot[i].handle].asked = TRUE, ![slot[i].handle].arg = {i}]
       ELSE /\ op' = [op EXCEPT ![o].phase = "started", ![o].completed = TRUE]
            /\ slot' = [slot EXCEPT ![i].open = FALSE] /\ UNCHANGED link
    /\ UNCHANGED <<attempt, procs, incoming, advertiser, held, rejected, orphan, generation, links, faults>>

\* ble_connection_close_finish: ble_recycle_connection frees the slot.
close_finish(o) ==
    LET i == op[o].slot IN
    /\ op[o].kind = "close" /\ op[o].phase = "started" /\ op[o].completed
    /\ op' = [op EXCEPT ![o] = Gone(o)]
    /\ slot' = IF slot[i].gen # op[o].gen THEN Unbound(slot, o)
               ELSE [slot EXCEPT ![i] = [@ EXCEPT !.open = FALSE, !.reserved = FALSE,
                     !.allocated = FALSE, !.gap = 0, !.gatt = 0, !.handle = NoHandle]]
    /\ held' = held \ {[slot |-> i, gen |-> op[o].gen]}
    /\ UNCHANGED <<link, attempt, procs, incoming, advertiser, rejected, orphan, generation, links, faults>>

\* The other finishes: pair unbinds the GAP pointer and the callback argument.
\* After a timeout the driver is destroyed without its finish.
operation_finish(o) ==
    LET i == op[o].slot
        paired == op[o].kind = "pair" /\ op[o].phase = "started"
        s == IF paired /\ slot[i].gen = op[o].gen THEN [slot EXCEPT ![i].gap = 0] ELSE slot
    IN
    /\ op[o].completed
    /\ \/ op[o].kind \in {"gatt", "pair"} /\ op[o].phase = "started"
       \/ op[o].kind # "connect" /\ op[o].phase = "settled"
    /\ op' = Released(op, o) /\ slot' = ReleasedSlots(s, op, o)
    /\ link' = IF paired /\ slot[i].gen = op[o].gen /\ slot[i].open
               THEN [link EXCEPT ![slot[i].handle].arg = {}] ELSE link
    /\ UNCHANGED <<attempt, procs, incoming, advertiser, held, rejected, orphan, generation, links, faults>>

\* The timeout of a started operation terminates its connection.
operation_timeout(o) ==
    LET i == op[o].slot IN
    /\ op[o].kind # "connect" /\ op[o].phase \in {"queued", "started"}
    /\ op' = [op EXCEPT ![o] = IF @.phase = "started" THEN [@ EXCEPT !.phase = "settled"] ELSE Gone(o)]
    /\ link' = IF op[o].phase = "started" /\ slot[i].open /\ slot[i].gen = op[o].gen
               THEN [link EXCEPT ![slot[i].handle].asked = TRUE] ELSE link
    /\ UNCHANGED <<slot, attempt, procs, incoming, advertiser, held, rejected, orphan, generation, links, faults>>
-------------------------------------------------------------------------------
(* The NimBLE host: ble_gap_event_callback and the GATT callbacks. *)

Assignable(h) == /\ ~link[h].up /\ links < MaxLinks
                 /\ Reuse \/ \A i \in Slots : slot[i].allocated => slot[i].handle # h

Opened(s, h) == [s EXCEPT !.allocated = TRUE, !.reserved = FALSE, !.open = TRUE, !.handle = h]

\* The connect attempt succeeds; without a Future state it is terminated.
connect_event(h) ==
    \E i \in attempt :
    /\ Assignable(h) /\ links' = links + 1 /\ attempt' = {}
    /\ IF GapState(i) = 0
       THEN /\ link' = [link EXCEPT ![h] = [up |-> TRUE, arg |-> {i}, asked |-> TRUE]]
            /\ slot' = [slot EXCEPT ![i] = [Opened(@, h) EXCEPT !.release = TRUE]]
            /\ UNCHANGED op
            /\ \/ UNCHANGED <<rejected, faults>>
               \/ Fault /\ rejected' = TRUE
       ELSE /\ link' = [link EXCEPT ![h] = [up |-> TRUE, arg |-> {i}, asked |-> FALSE]]
            /\ slot' = [slot EXCEPT ![i] = [Opened(@, h) EXCEPT !.native = "idle"]]
            /\ op' = [op EXCEPT ![GapState(i)].completed = TRUE]
            /\ UNCHANGED <<rejected, faults>>
    /\ UNCHANGED <<procs, incoming, advertiser, held, orphan, generation>>

\* It fails or was cancelled.
connect_event_fails ==
    \E i \in attempt :
    /\ attempt' = {}
    /\ slot' = [slot EXCEPT ![i] = [@ EXCEPT !.native = "idle", !.reserved = FALSE, !.allocated = FALSE,
                     !.open = IF GapState(i) = 0 THEN FALSE ELSE @,
                     !.handle = IF GapState(i) = 0 THEN NoHandle ELSE @]]
    /\ op' = IF GapState(i) = 0 THEN op
             ELSE [op EXCEPT ![GapState(i)].completed = TRUE, ![GapState(i)].ok = FALSE]
    /\ UNCHANGED <<link, procs, incoming, advertiser, held, rejected, orphan, generation, links, faults>>

\* A peer connects to the advertiser; ble_publish_incoming_connection, and
\* ble_advertiser_event_drop when its queue is full.  An advertiser that is
\* gone rejects.  Without a free slot the host is told to terminate.
incoming_event(h) ==
    LET gen == generation + 1 IN
    /\ advertiser \in {"active", "closed"} /\ Assignable(h) /\ links' = links + 1 /\ generation' = gen
    /\ advertiser' = IF advertiser = "active" THEN "open" ELSE advertiser
    /\ \/ /\ FirstFree = {}
          /\ link' = [link EXCEPT ![h] = [up |-> TRUE, arg |-> {}, asked |-> TRUE]]
          /\ UNCHANGED <<slot, incoming>>
       \/ \E i \in FirstFree :
             LET s == Opened(Reserved(i, gen), h)
                 kept == advertiser = "active" /\ Len(incoming) < QueueLength
             IN /\ link' = [link EXCEPT ![h] = [up |-> TRUE, arg |-> {}, asked |-> ~kept]]
                /\ slot' = [slot EXCEPT ![i] = [s EXCEPT !.pending = kept, !.release = ~kept]]
                /\ incoming' = IF kept THEN Append(incoming, [slot |-> i, gen |-> gen]) ELSE incoming
    /\ UNCHANGED <<op, attempt, procs, held, rejected, orphan, faults>>

\* BLE_GAP_EVENT_DISCONNECT, after the GATT procedures of the link have ended.
\* ble_find_connection takes the first allocated slot with the handle.
EndedWith(i, h) == ({GapState(j) : j \in link[h].arg} \union {slot[i].gatt}) \ {0}
Found(h) == {i \in Slots : /\ slot[i].allocated /\ slot[i].handle = h
                           /\ \A j \in Slots : j < i => ~(slot[j].allocated /\ slot[j].handle = h)}

disconnect_event(h) ==
    /\ link[h].up /\ \A p \in procs : p.on # h
    /\ link' = [link EXCEPT ![h] = Down]
    /\ \/ Found(h) = {} /\ UNCHANGED <<slot, op>>
       \/ \E i \in Found(h) :
             LET ended == EndedWith(i, h)
                 native == {o \in ended : o = slot[i].gatt /\ op[o].kind \in {"pair", "close"}}
                 s == IF slot[i].release THEN Disconnected(slot[i]) ELSE [slot[i] EXCEPT !.open = FALSE]
             IN /\ slot' = [j \in Slots |->
                              LET t == IF j = i THEN s ELSE slot[j]
                              IN [t EXCEPT !.gap = IF @ \in native THEN 0 ELSE @,
                                           !.gatt = IF @ \in native THEN 0 ELSE @]]
                /\ op' = [o \in Ops |->
                            IF o \notin ended THEN op[o]
                            ELSE IF o \in native /\ op[o].phase = "detached" THEN Gone(o)
                            ELSE [op[o] EXCEPT !.completed = TRUE, !.ok = op[o].kind = "close",
                                               !.identity = IF o \in native THEN FALSE ELSE @]]
    /\ UNCHANGED <<attempt, procs, incoming, advertiser, held, rejected, orphan, generation, links, faults>>

\* BLE_GAP_EVENT_ENC_CHANGE: a pairing has ended.
enc_change_event(h, ok) ==
    /\ link[h].up
    /\ \E j \in link[h].arg : LET o == GapState(j) IN
          /\ o # 0 /\ op[o].kind = "pair" /\ op[o].identity
          /\ op' = Completed([op EXCEPT ![o].completed = TRUE, ![o].ok = ok], o)
          /\ slot' = Unbound(slot, o)
    /\ UNCHANGED <<link, attempt, procs, incoming, advertiser, held, rejected, orphan, generation,
                   links, faults>>

\* ble_gatt_attr_callback: the state is found by its identity; the script's
\* task may poll it before the callback gives it up.
gatt_callback(p, ok) ==
    /\ p \in procs /\ ~p.told
    /\ procs' = (procs \ {p}) \union {[p EXCEPT !.told = TRUE]}
    /\ op' = [op EXCEPT ![p.op].completed = TRUE, ![p.op].ok = @ /\ ok]
    /\ UNCHANGED <<slot, link, attempt, incoming, advertiser, held, rejected, orphan, generation,
                   links, faults>>

ble_gatt_callback_drop(p) ==
    /\ p \in procs /\ p.told /\ procs' = procs \ {p}
    /\ op' = Completed(op, p.op) /\ slot' = Unbound(slot, p.op)
    /\ UNCHANGED <<link, attempt, incoming, advertiser, held, rejected, orphan, generation, links, faults>>
-------------------------------------------------------------------------------
(* The advertiser's queue and the script's objects. *)

advertise ==
    /\ advertiser \in {"new", "closed"} /\ ~PendingConnects /\ ~orphan /\ advertiser' = "active"
    /\ UNCHANGED <<slot, op, link, attempt, procs, incoming, held, rejected, orphan, generation, links, faults>>

\* ble_advertiser_event_drop: an unclaimed connection is terminated.
Dropped(e) ==
    IF slot[e.slot].gen # e.gen \/ ~slot[e.slot].pending THEN UNCHANGED <<slot, link, rejected, faults>>
    ELSE IF slot[e.slot].open THEN Terminated(e.slot, [slot[e.slot] EXCEPT !.pending = FALSE])
    ELSE /\ slot' = [slot EXCEPT ![e.slot] = [@ EXCEPT !.pending = FALSE, !.allocated = FALSE,
                                                       !.reserved = FALSE]]
         /\ UNCHANGED <<link, rejected, faults>>

\* ble_advertiser_event_to_js: the script claims the connection.
receive_incoming ==
    /\ incoming # <<>> /\ ~orphan
    /\ LET e == Head(incoming) IN
       IF slot[e.slot].open /\ slot[e.slot].gen = e.gen /\ slot[e.slot].pending
       THEN /\ slot' = [slot EXCEPT ![e.slot].pending = FALSE]
            /\ held' = held \union {e}
            /\ UNCHANGED <<link, rejected, faults>>
       ELSE Dropped(e) /\ UNCHANGED held
    /\ incoming' = Tail(incoming)
    /\ UNCHANGED <<op, attempt, procs, advertiser, orphan, generation, links>>

\* ble_release_advertiser, one unclaimed connection at a time.
advertiser_close ==
    /\ advertiser \in {"active", "open"} /\ ~orphan
    /\ IF incoming = <<>>
       THEN advertiser' = "closed" /\ UNCHANGED <<slot, link, rejected, faults, incoming>>
       ELSE /\ Dropped(Head(incoming)) /\ incoming' = Tail(incoming)
            /\ advertiser' = "open"
    /\ UNCHANGED <<op, attempt, procs, held, orphan, generation, links>>

\* js_ble_connection_finalizer
connection_finalizer(c) ==
    /\ c \in held /\ ~orphan
    /\ (IF slot[c.slot].gen = c.gen /\ slot[c.slot].open THEN "open" ELSE "ended") \in Drops
    /\ \A o \in Ops : Active(o) => op[o].gen # c.gen
    /\ held' = held \ {c}
    /\ orphan' = (slot[c.slot].gen = c.gen /\ slot[c.slot].open)
    /\ UNCHANGED <<slot, op, link, attempt, procs, incoming, advertiser, rejected, generation, links, faults>>
-------------------------------------------------------------------------------
HostStep ==
    \/ \E h \in Handles : connect_event(h) \/ disconnect_event(h)
    \/ connect_event_fails
    \/ \E p \in procs : ble_gatt_callback_drop(p) \/ \E ok \in BOOLEAN : gatt_callback(p, ok)

Next ==
    \/ HostStep
    \/ \E h \in Handles : incoming_event(h) \/ \E ok \in BOOLEAN : enc_change_event(h, ok)
    \/ \E o \in Ops :
          \/ connect_capture(o) \/ \E kind \in Kinds : operation_capture(o, kind)
          \/ connect_start(o) \/ connect_start_fails(o) \/ connect_finish(o) \/ connect_timeout(o)
          \/ operation_start_fails(o) \/ gatt_start(o) \/ pair_start(o) \/ close_start(o)
          \/ close_finish(o) \/ operation_finish(o) \/ operation_timeout(o)
    \/ advertise \/ receive_incoming \/ advertiser_close
    \/ \E c \in held : connection_finalizer(c)

\* The host answers every attempt and procedure, and ends the links it was
\* asked to terminate; the script's task polls the Futures.
Weak(k) == \/ k = 1 /\ ((\E h \in Handles : connect_event(h)) \/ connect_event_fails)
           \/ k = 2 /\ \E p \in procs : ble_gatt_callback_drop(p) \/ \E ok \in BOOLEAN : gatt_callback(p, ok)
           \/ k = 3 /\ \E h \in Handles : link[h].asked /\ disconnect_event(h)
           \/ k = 4 /\ \E o \in Ops : connect_finish(o) \/ operation_finish(o)
Fairness == \A k \in 1 .. 4 : WF_vars(Weak(k))

Spec == Init /\ [][Next]_vars
FairSpec == Spec /\ Fairness
-------------------------------------------------------------------------------
TypeOK ==
    /\ \A i \in Slots : slot[i].native \in {"idle", "active", "cancelling"} /\ slot[i].gap \in Ops \union {0}
    /\ Len(incoming) <= QueueLength
    /\ \A o \in Ops : op[o].phase \in {"none", "queued", "started", "settled", "detached", "gone"}

\* No callback meets freed memory: every pointer of a slot and every identity
\* is a Future state whose storage is kept, and a GATT operation belongs to
\* the connection the slot has now.
PointersLive ==
    \A i \in Slots : \A o \in {slot[i].gap, slot[i].gatt} \ {0} :
        /\ op[o].phase \in {"started", "settled", "detached"} /\ op[o].slot = i
        /\ o = slot[i].gatt => op[o].gen = slot[i].gen

\* The slots and the host agree on the links: an open slot has its link up,
\* and a link no open slot stands for is being terminated.
LinksKnown ==
    /\ \A i \in Slots : slot[i].open => slot[i].handle # NoHandle /\ link[slot[i].handle].up
    /\ \A i, j \in Slots : slot[i].open /\ slot[j].open /\ i # j => slot[i].handle # slot[j].handle
    /\ \A h \in Handles : link[h].up =>
          link[h].asked \/ \E i \in Slots : slot[i].open /\ slot[i].handle = h

\* No slot leaks: one that is taken has a connect, a link, an unclaimed event
\* or an object of the script that will give it back, or the whole adapter is
\* being cleaned up.
SlotsAccounted ==
    orphan \/ \A i \in Slots :
        slot[i].allocated \/ slot[i].reserved =>
            \/ slot[i].open \/ slot[i].native # "idle"
            \/ \E o \in Ops : op[o].kind = "connect" /\ Active(o) /\ op[o].gen = slot[i].gen
            \/ \E c \in held \union ToSet(incoming) : c = [slot |-> i, gen |-> slot[i].gen]

BleSafe == TypeOK /\ PointersLive /\ LinksKnown /\ SlotsAccounted

\* A cancelled connect ends: its late success is terminated and the slot is
\* free for another connect, unless the host refused and the error is recorded.
Owed(i) == i \in Slots /\ slot[i].native = "cancelling"
Paid(i) == i \in Slots => slot[i].native = "idle" \/ rejected
CancelEnds == \A i \in Slots : Owed(i) ~> Paid(i)
=============================================================================
