------------------------------- MODULE BleGatt -------------------------------
(***************************************************************************)
(* The GATT client of one BLE connection (ble.c): the table of services,   *)
(* characteristics and descriptors that discover() fills one callback at a *)
(* time, reads, writes and subscriptions by handle, and the pool of        *)
(* notifications each subscription has.  Operations share one lane; the    *)
(* NimBLE host runs one procedure at a time for it.                        *)
(***************************************************************************)
EXTENDS Naturals, FiniteSets, Sequences, SequencesExt

CONSTANTS
    Remote,      \* the peer's services, with their handles
    Kinds,       \* operations tried
    Limit,       \* maxServices, maxCharacteristics and maxDescriptors, as a function
    Subs,        \* subscription slots, numbers
    Capacity,    \* of a subscription
    Overlap,     \* discover() is called again before an earlier one is told
    Share,       \* a characteristic may be subscribed twice
    MaxOps, MaxLinks, MaxValues, MaxFaults    \* bounds

VARIABLES
    slot,        \* ble_connection_slot_t: generation, open, active_gatt_state
    table,       \* services, characteristics and descriptors, with their counts
    sub,         \* ble_subscription_t
    op,          \* Future driver states
    proc,        \* the host's procedure: its operation and what it still reports
    enabled,     \* value handles the peer sends notifications of
    rx,          \* subscription the host is publishing a notification to
    told,        \* results of discover(): tables the script was given
    subs, values, links, faults

vars == <<slot, table, sub, op, proc, enabled, rx, told, subs, values, links, faults>>

Ops == 1 .. MaxOps
NoTable == [services |-> <<>>, characteristics |-> <<>>, descriptors |-> <<>>]
NoSub == [allocated |-> FALSE, open |-> FALSE, gen |-> 0, value |-> 0, cccd |-> 0, free |-> {}, queue |-> <<>>]
NoOp == [kind |-> "read", phase |-> "none", gen |-> 0, table |-> 0, handle |-> 0, sub |-> 0, subGen |-> 0,
         completed |-> FALSE, code |-> "ok", identity |-> FALSE, stage |-> "services", index |-> 1,
         dscs |-> FALSE]
NoProc == [op |-> 0, todo |-> <<>>]

Init ==
    /\ slot = [gen |-> 1, up |-> TRUE, open |-> TRUE, gatt |-> 0, discovery |-> 0]
    /\ table = NoTable /\ sub = [s \in Subs |-> NoSub] /\ op = [o \in Ops |-> NoOp]
    /\ proc = NoProc /\ enabled = {} /\ rx = {} /\ told = {}
    /\ subs = 0 /\ values = 0 /\ links = 1 /\ faults = 0

Fault == faults < MaxFaults /\ faults' = faults + 1
Gone == [NoOp EXCEPT !.phase = "gone"]
Active(o) == op[o].phase \in {"queued", "started", "settled"}
First(o) == \A p \in 1 .. o - 1 : ~Active(p)
-------------------------------------------------------------------------------
(* The peer's attributes, as the host reports them. *)

ServiceItem(v) == [start |-> v.start, end |-> v.end]
CharItem(c) == [decl |-> c.decl, value |-> c.value]
AllChars == UNION {ToSet(Remote[i].chars) : i \in 1 .. Len(Remote)}
Handles == UNION {{c.decl, c.value} \union ToSet(c.dscs) : c \in AllChars}
                \union {Remote[i].start : i \in 1 .. Len(Remote)}

\* ble_gattc_disc_all_svcs, _chrs and _dscs: what lies in the range asked for.
DiscoverServices == [i \in 1 .. Len(Remote) |-> ServiceItem(Remote[i])]
DiscoverChars(start, end) ==
    SetToSortSeq({CharItem(c) : c \in {d \in AllChars : d.decl >= start /\ d.decl <= end}},
                 LAMBDA a, b : a.decl < b.decl)
DiscoverDescriptors(value, end) == SetToSortSeq({h \in Handles : h > value /\ h <= end}, <)

\* What a discovery has to find: every characteristic with its service, every
\* descriptor with its characteristic.
Owned(t) ==
    [services |-> [i \in 1 .. Len(t.services) |->
        [j \in 1 .. t.services[i].count |-> t.characteristics[t.services[i].first + j].value]],
     descriptors |-> [i \in 1 .. Len(t.characteristics) |->
        [j \in 1 .. t.characteristics[i].count |-> t.descriptors[t.characteristics[i].first + j]]]]
FlatChars == FlattenSeq([i \in 1 .. Len(Remote) |-> Remote[i].chars])
Expected(dscs) ==
    [services |-> [i \in 1 .. Len(Remote) |-> [j \in 1 .. Len(Remote[i].chars) |-> Remote[i].chars[j].value]],
     descriptors |-> [i \in 1 .. Len(FlatChars) |-> IF dscs THEN FlatChars[i].dscs ELSE <<>>]]
-------------------------------------------------------------------------------
(* Subscriptions *)

\* ble_close_subscription
Closed(subsNow, s) == [subsNow EXCEPT ![s] = NoSub]

\* ble_subscribe_destroy: what was not handed to the script is closed.
Dropped(o) == IF op[o].kind = "subscribe" /\ sub[op[o].sub].gen = op[o].subGen
              THEN Closed(sub, op[o].sub) ELSE sub

\* ble_find_cccd: the descriptor, or the handle after the value.
Cccd(c) == IF c.count > 0 THEN table.descriptors[c.first + 1] ELSE c.value + 1
-------------------------------------------------------------------------------
(* Capture *)

Fresh(o) == op[o].phase = "none" /\ \A p \in 1 .. o - 1 : op[p].phase # "none"
\* gatt_pending counts the operations that wait for the lane.
Pending == \E o \in Ops : op[o].phase = "queued"
Captured(o, kind) == [NoOp EXCEPT !.kind = kind, !.phase = "queued", !.gen = slot.gen,
                                  !.table = slot.discovery]

\* ble_clear_remote_discovery, then the arrays are allocated.
discover_capture(o, dscs) ==
    /\ Fresh(o) /\ "discover" \in Kinds /\ slot.open /\ slot.gatt = 0 /\ ~Pending
    /\ Overlap \/ \A p \in Ops : Active(p) => op[p].kind # "discover"
    /\ table' = NoTable /\ slot' = [slot EXCEPT !.discovery = @ + 1]
    /\ \/ /\ op' = [op EXCEPT ![o] = [Captured(o, "discover") EXCEPT !.dscs = dscs,
                                                                      !.table = slot.discovery + 1]]
          /\ UNCHANGED faults
       \/ Fault /\ UNCHANGED op
    /\ UNCHANGED <<sub, proc, enabled, rx, told, subs, values, links>>

\* ble_remote_attribute_exists
KnownHandles == {table.characteristics[i].value : i \in 1 .. Len(table.characteristics)}
                    \union ToSet(table.descriptors)

handle_capture(o, kind, h) ==
    /\ Fresh(o) /\ kind \in Kinds \intersect {"read", "write", "write_no_rsp"} /\ slot.open
    /\ h \in KnownHandles
    /\ op' = [op EXCEPT ![o] = [Captured(o, kind) EXCEPT !.handle = h]]
    /\ UNCHANGED <<slot, table, sub, proc, enabled, rx, told, subs, values, links, faults>>

\* The first subscription slot that is free, with its pool and its queue.
subscribe_capture(o) ==
    \E i \in 1 .. Len(table.characteristics), s \in Subs :
    LET c == table.characteristics[i] IN
    /\ Fresh(o) /\ "subscribe" \in Kinds /\ slot.open
    /\ Share \/ \A t \in Subs : sub[t].allocated => sub[t].value # c.value
    /\ ~sub[s].allocated /\ \A t \in Subs : t < s => sub[t].allocated
    /\ subs' = subs + 1
    /\ op' = [op EXCEPT ![o] = [Captured(o, "subscribe") EXCEPT !.handle = Cccd(c), !.sub = s,
                                                                !.subGen = subs + 1]]
    /\ sub' = [sub EXCEPT ![s] = [NoSub EXCEPT !.allocated = TRUE, !.gen = subs + 1, !.value = c.value,
                                               !.cccd = Cccd(c), !.free = 1 .. Capacity]]
    /\ UNCHANGED <<slot, table, proc, enabled, rx, told, values, links, faults>>

subscription_close_capture(o) ==
    \E s \in Subs :
    /\ Fresh(o) /\ "unsubscribe" \in Kinds /\ sub[s].open
    /\ op' = [op EXCEPT ![o] = [Captured(o, "unsubscribe") EXCEPT !.handle = sub[s].cccd, !.sub = s,
                                                                  !.subGen = sub[s].gen]]
    /\ UNCHANGED <<slot, table, sub, proc, enabled, rx, told, subs, values, links, faults>>

connection_close_capture(o) ==
    /\ Fresh(o) /\ "close" \in Kinds /\ slot.gen # 0
    /\ op' = [op EXCEPT ![o] = Captured(o, "close")]
    /\ UNCHANGED <<slot, table, sub, proc, enabled, rx, told, subs, values, links, faults>>
-------------------------------------------------------------------------------
(* Start *)

\* ble_gatt_state_bind
Bindable(o) == slot.gen = op[o].gen /\ slot.gatt = 0

\* A start that fails destroys its driver.
start_fails(o) ==
    /\ op[o].phase = "queued" /\ First(o)
    /\ \/ ~Bindable(o) /\ UNCHANGED faults
       \/ op[o].kind # "close" /\ Bindable(o) /\ ~slot.up /\ UNCHANGED faults
       \/ Bindable(o) /\ slot.up /\ Fault
    /\ op' = [op EXCEPT ![o] = Gone] /\ sub' = Dropped(o)
    /\ UNCHANGED <<slot, table, proc, enabled, rx, told, subs, values, links>>

\* ble_discover_start, ble_gatt_read_start, ble_gatt_write_start, ble_subscribe_start.
gatt_start(o) ==
    /\ op[o].phase = "queued" /\ First(o) /\ Bindable(o) /\ slot.up
    /\ op[o].kind \notin {"close", "write_no_rsp"}
    /\ op' = [op EXCEPT ![o].phase = "started", ![o].identity = TRUE]
    /\ slot' = [slot EXCEPT !.gatt = o]
    /\ proc' = [op |-> o, todo |-> IF op[o].kind = "discover" THEN DiscoverServices ELSE <<>>]
    /\ UNCHANGED <<table, sub, enabled, rx, told, subs, values, links, faults>>

\* Without a response the write is complete at once.
write_no_rsp_start(o) ==
    /\ op[o].kind = "write_no_rsp" /\ op[o].phase = "queued" /\ First(o) /\ Bindable(o) /\ slot.up
    /\ op' = [op EXCEPT ![o].phase = "started", ![o].completed = TRUE]
    /\ UNCHANGED <<slot, table, sub, proc, enabled, rx, told, subs, values, links, faults>>

connection_close_start(o) ==
    /\ op[o].kind = "close" /\ op[o].phase = "queued" /\ First(o) /\ Bindable(o)
    /\ IF slot.up
       THEN /\ op' = [op EXCEPT ![o].phase = "started", ![o].identity = TRUE]
            /\ slot' = [slot EXCEPT !.gatt = o]
       ELSE /\ op' = [op EXCEPT ![o].phase = "started", ![o].completed = TRUE]
            /\ slot' = [slot EXCEPT !.open = FALSE]
    /\ UNCHANGED <<table, sub, proc, enabled, rx, told, subs, values, links, faults>>
-------------------------------------------------------------------------------
(* The host's callbacks for a discovery. *)

\* ble_discover_complete, then ble_gatt_callback_drop: the state is given up
\* and the lane's connection is free for the next operation.
Complete(o, code) ==
    /\ op' = [op EXCEPT ![o] = [@ EXCEPT !.completed = TRUE, !.code = code, !.identity = FALSE]]
    /\ slot' = [slot EXCEPT !.gatt = 0] /\ proc' = NoProc

Discovering(o, stage) == proc.op = o /\ op[o].kind = "discover" /\ op[o].stage = stage

\* ble_discover_service_callback with a service.
service_callback(o) ==
    /\ Discovering(o, "services") /\ proc.todo # <<>>
    /\ IF Len(table.services) >= Limit["services"]
       THEN Complete(o, "limit") /\ UNCHANGED table
       ELSE /\ table' = [table EXCEPT !.services =
                           Append(@, [start |-> Head(proc.todo).start, end |-> Head(proc.todo).end,
                                      first |-> 0, count |-> 0])]
            /\ proc' = [proc EXCEPT !.todo = Tail(@)] /\ UNCHANGED <<op, slot>>
    /\ UNCHANGED <<sub, enabled, rx, told, subs, values, links, faults>>

\* At the end of a stage the callback asks for the next one: here for the
\* characteristics of service i.
AskChars(o, i, t) ==
    /\ table' = [t EXCEPT !.services[i].first = Len(t.characteristics)]
    /\ op' = [op EXCEPT ![o].stage = "characteristics", ![o].index = i]
    /\ proc' = [proc EXCEPT !.todo = DiscoverChars(t.services[i].start, t.services[i].end)]
    /\ UNCHANGED slot

services_done(o) ==
    /\ Discovering(o, "services") /\ proc.todo = <<>>
    /\ IF table.services = <<>> THEN Complete(o, "ok") /\ UNCHANGED table
       ELSE AskChars(o, 1, table)
    /\ UNCHANGED <<sub, enabled, rx, told, subs, values, links, faults>>

\* ble_discover_characteristic_callback with a characteristic.
characteristic_callback(o) ==
    /\ Discovering(o, "characteristics") /\ proc.todo # <<>>
    /\ IF Len(table.characteristics) >= Limit["characteristics"]
       THEN Complete(o, "limit") /\ UNCHANGED table
       ELSE /\ table' = [table EXCEPT
                 !.characteristics = Append(@, [decl |-> Head(proc.todo).decl, value |-> Head(proc.todo).value,
                                                first |-> 0, count |-> 0]),
                 !.services[op[o].index].count = @ + 1]
            /\ proc' = [proc EXCEPT !.todo = Tail(@)] /\ UNCHANGED <<op, slot>>
    /\ UNCHANGED <<sub, enabled, rx, told, subs, values, links, faults>>

\* esp32_mquickjs_wireless_gatt_descriptor_end: the descriptors of a
\* characteristic end before the next declaration of its service.
DescriptorEnd(t, k) ==
    LET v == CHOOSE i \in 1 .. Len(t.services) :
                 k > t.services[i].first /\ k <= t.services[i].first + t.services[i].count
    IN IF k < t.services[v].first + t.services[v].count THEN t.characteristics[k + 1].decl - 1
       ELSE t.services[v].end

\* ble_discover_start_descriptors from characteristic k on: those that have no
\* room for a descriptor are passed over.
AskDescriptors(o, k, t) ==
    LET n == Len(t.characteristics)
        ask == {j \in k .. n : t.characteristics[j].value < DescriptorEnd(t, j)}
        next == IF ask = {} THEN n + 1 ELSE Min(ask)
    IN /\ table' = [t EXCEPT !.characteristics = [j \in 1 .. n |->
                       IF j >= k /\ j <= next THEN [@[j] EXCEPT !.first = Len(t.descriptors), !.count = 0]
                       ELSE @[j]]]
       /\ IF ask = {} THEN Complete(o, "ok")
          ELSE /\ op' = [op EXCEPT ![o].stage = "descriptors", ![o].index = next]
               /\ proc' = [proc EXCEPT !.todo = DiscoverDescriptors(t.characteristics[next].value,
                                                                   DescriptorEnd(t, next))]
               /\ UNCHANGED slot

characteristics_done(o) ==
    /\ Discovering(o, "characteristics") /\ proc.todo = <<>>
    /\ IF op[o].index < Len(table.services) THEN AskChars(o, op[o].index + 1, table)
       ELSE IF ~op[o].dscs \/ table.characteristics = <<>> THEN Complete(o, "ok") /\ UNCHANGED table
       ELSE AskDescriptors(o, 1, table)
    /\ UNCHANGED <<sub, enabled, rx, told, subs, values, links, faults>>

\* ble_discover_descriptor_callback
descriptor_callback(o) ==
    /\ Discovering(o, "descriptors") /\ proc.todo # <<>>
    /\ IF Len(table.descriptors) >= Limit["descriptors"]
       THEN Complete(o, "limit") /\ UNCHANGED table
       ELSE /\ table' = [table EXCEPT !.descriptors = Append(@, Head(proc.todo)),
                                      !.characteristics[op[o].index].count = @ + 1]
            /\ proc' = [proc EXCEPT !.todo = Tail(@)] /\ UNCHANGED <<op, slot>>
    /\ UNCHANGED <<sub, enabled, rx, told, subs, values, links, faults>>

descriptors_done(o) ==
    /\ Discovering(o, "descriptors") /\ proc.todo = <<>>
    /\ AskDescriptors(o, op[o].index + 1, table)
    /\ UNCHANGED <<sub, enabled, rx, told, subs, values, links, faults>>

\* Any procedure may fail; a broken link fails it before the disconnect event.
procedure_fails(o) ==
    /\ proc.op = o /\ o # 0
    /\ IF slot.up THEN Fault ELSE UNCHANGED faults
    /\ Complete(o, "error")
    /\ UNCHANGED <<table, sub, enabled, rx, told, subs, values, links>>

\* ble_gatt_attr_callback: a read, a write or a write of the CCCD succeeded.
attr_callback(o) ==
    /\ proc.op = o /\ o # 0 /\ op[o].kind # "discover" /\ slot.up
    /\ Complete(o, "ok")
    /\ LET value == {c.value : c \in {d \in AllChars : op[o].handle \in ToSet(d.dscs)}} IN
       enabled' = CASE op[o].kind = "subscribe" -> enabled \union value
                    [] op[o].kind = "unsubscribe" -> enabled \ value
                    [] OTHER -> enabled
    /\ UNCHANGED <<table, sub, rx, told, subs, values, links, faults>>
-------------------------------------------------------------------------------
(* Finish and timeout *)

Ready(o) == op[o].phase \in {"started", "settled"} /\ op[o].completed
Recycled == [s \in Subs |-> NoSub]

\* The driver is destroyed; after a timeout without its finish.
finish(o) ==
    LET ok == op[o].phase = "started" /\ op[o].code = "ok"
        s == op[o].sub
    IN
    /\ Ready(o) /\ op' = [op EXCEPT ![o] = Gone]
    /\ told' = IF ok /\ op[o].kind = "discover"
               THEN told \union {[dscs |-> op[o].dscs, table |-> Owned(table)]} ELSE told
    /\ sub' = CASE op[o].kind = "subscribe" /\ ok -> [sub EXCEPT ![s].open = TRUE]
                [] op[o].kind = "subscribe" /\ ~ok -> Dropped(o)
                [] op[o].kind = "unsubscribe" /\ ok /\ sub[s].gen = op[o].subGen -> Closed(sub, s)
                [] op[o].kind = "close" /\ ok /\ slot.gen = op[o].gen -> Recycled
                [] OTHER -> sub
    /\ IF op[o].kind = "close" /\ ok /\ slot.gen = op[o].gen
       THEN /\ table' = NoTable
            /\ slot' = [slot EXCEPT !.gen = 0, !.open = FALSE, !.gatt = 0, !.discovery = @ + 1]
       ELSE UNCHANGED <<table, slot>>
    /\ UNCHANGED <<proc, enabled, rx, subs, values, links, faults>>

\* ble_future_on_timeout: a started operation is settled and the link is
\* terminated; the driver stays until its callback has come.
timeout(o) ==
    /\ op[o].phase \in {"queued", "started"}
    /\ IF op[o].phase = "queued"
       THEN op' = [op EXCEPT ![o] = Gone] /\ sub' = Dropped(o) /\ UNCHANGED <<slot, enabled>>
       ELSE /\ op' = [op EXCEPT ![o].phase = "settled"] /\ UNCHANGED sub
            /\ IF slot.open /\ slot.gen = op[o].gen
               THEN slot' = [slot EXCEPT !.up = FALSE] /\ enabled' = {} ELSE UNCHANGED <<slot, enabled>>
    /\ UNCHANGED <<table, proc, rx, told, subs, values, links, faults>>
-------------------------------------------------------------------------------
(* Notifications and the link *)

\* BLE_GAP_EVENT_NOTIFY_RX in the host's task, which runs its callbacks one
\* after the other while the script's task goes on: a subscription that is open ...
notify_rx(s) ==
    /\ rx = {} /\ slot.open /\ sub[s].open /\ sub[s].value \in enabled /\ values < MaxValues
    /\ rx' = {s} /\ values' = values + 1
    /\ UNCHANGED <<slot, table, sub, op, proc, enabled, told, subs, links, faults>>

\* ... gets the value in a slot of its pool, if one is free.
notify_publish ==
    /\ \E s \in rx :
          \/ /\ sub[s].free # {}
             /\ LET i == Min(sub[s].free) IN
                sub' = [sub EXCEPT ![s].free = @ \ {i}, ![s].queue = Append(@, [gen |-> sub[s].gen, pool |-> i])]
          \/ sub[s].free = {} /\ UNCHANGED sub
    /\ rx' = {}
    /\ UNCHANGED <<slot, table, op, proc, enabled, told, subs, values, links, faults>>

\* ble_notification_event_to_js: the value is copied, its slot is free again.
receive(s) ==
    /\ sub[s].open /\ sub[s].queue # <<>>
    /\ sub' = [sub EXCEPT ![s].queue = Tail(@), ![s].free = @ \union {Head(sub[s].queue).pool}]
    /\ UNCHANGED faults \/ Fault
    /\ UNCHANGED <<slot, table, op, proc, enabled, rx, told, subs, values, links>>

\* The link is lost.
link_lost ==
    /\ slot.up /\ slot' = [slot EXCEPT !.up = FALSE] /\ enabled' = {}
    /\ UNCHANGED <<table, sub, op, proc, rx, told, subs, values, links, faults>>

\* BLE_GAP_EVENT_DISCONNECT, after the procedure has ended.
disconnect_event ==
    /\ slot.open /\ ~slot.up /\ proc.op = 0 /\ rx = {}
    /\ LET o == slot.gatt IN
       /\ op' = IF o = 0 THEN op
                ELSE [op EXCEPT ![o] = [@ EXCEPT !.completed = TRUE, !.identity = FALSE,
                                                 !.code = IF @ = "ok" /\ op[o].kind = "close" THEN "ok" ELSE "error"]]
       /\ slot' = [slot EXCEPT !.open = FALSE, !.gatt = 0]
    /\ UNCHANGED <<table, sub, proc, enabled, rx, told, subs, values, links, faults>>

\* The slot is recycled for another connection.
reconnect ==
    /\ slot.gen = 0 /\ links < MaxLinks /\ links' = links + 1
    /\ slot' = [slot EXCEPT !.gen = links + 1, !.up = TRUE, !.open = TRUE]
    /\ UNCHANGED <<table, sub, op, proc, enabled, rx, told, subs, values, faults>>
-------------------------------------------------------------------------------
Callback(o) ==
    \/ service_callback(o) \/ services_done(o) \/ characteristic_callback(o) \/ characteristics_done(o)
    \/ descriptor_callback(o) \/ descriptors_done(o) \/ procedure_fails(o) \/ attr_callback(o)

Script(o) ==
    \/ \E dscs \in BOOLEAN : discover_capture(o, dscs)
    \/ \E kind \in Kinds, h \in KnownHandles : handle_capture(o, kind, h)
    \/ subscribe_capture(o) \/ subscription_close_capture(o) \/ connection_close_capture(o)
    \/ start_fails(o) \/ gatt_start(o) \/ write_no_rsp_start(o) \/ connection_close_start(o)
    \/ finish(o) \/ timeout(o)

Next ==
    \/ notify_publish
    \/ \E o \in Ops : Script(o)
    \/ \E s \in Subs : receive(s)
    \/ reconnect \/ link_lost
    \/ rx = {} /\ \E o \in Ops : Callback(o)
    \/ disconnect_event
    \/ \E s \in Subs : notify_rx(s)

Spec == Init /\ [][Next]_vars
-------------------------------------------------------------------------------
TypeOK ==
    /\ slot.gatt \in Ops \union {0} /\ proc.op \in Ops \union {0} /\ rx \subseteq Subs
    /\ \A o \in Ops : op[o].phase \in {"none", "queued", "started", "settled", "gone"}
    /\ \A s \in Subs : sub[s].free \subseteq 1 .. Capacity

\* discover() tells the script the peer's attributes exactly: every
\* characteristic under its service, every descriptor under its
\* characteristic, across the callbacks that report them one at a time.
DiscoveryTold == \A r \in told : r.table = Expected(r.dscs)

\* An operation by handle is started on the table it was captured from:
\* a new discovery waits until no operation is pending.
HandlesCurrent ==
    \A o \in Ops : op[o].phase \in {"queued", "started"} /\ ~op[o].completed /\ op[o].gen = slot.gen
                   /\ op[o].kind \in {"read", "write", "write_no_rsp", "subscribe"}
                       => op[o].table = slot.discovery

\* The slots of a subscription's pool are free or hold a queued value, and a
\* value is published to the subscription it was received for.
PoolsExact ==
    /\ \A s \in Subs :
          LET held == {sub[s].queue[i].pool : i \in 1 .. Len(sub[s].queue)} IN
          sub[s].allocated => /\ sub[s].free \union held = 1 .. Capacity
                              /\ Cardinality(held) = Len(sub[s].queue) /\ sub[s].free \intersect held = {}
                              /\ \A i \in 1 .. Len(sub[s].queue) : sub[s].queue[i].gen = sub[s].gen
    /\ \A s \in rx : sub[s].open

\* A subscription that is open on a live link gets the peer's notifications,
\* and one that no operation stands for is open: none is left half made.
SubscriptionsServed ==
    /\ \A s \in Subs : sub[s].open /\ slot.up /\ ~(\E o \in Ops : Active(o) /\ op[o].kind = "unsubscribe")
                           => sub[s].value \in enabled
    /\ \A s \in Subs : sub[s].allocated /\ ~sub[s].open =>
          \E o \in Ops : Active(o) /\ op[o].kind = "subscribe" /\ op[o].subGen = sub[s].gen

GattSafe == TypeOK /\ DiscoveryTold /\ HandlesCurrent /\ PoolsExact /\ SubscriptionsServed
=============================================================================
