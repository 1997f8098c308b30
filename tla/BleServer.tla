------------------------------ MODULE BleServer ------------------------------
(***************************************************************************)
(* The GATT server of the BLE adapter (ble.c): writes of peers with their  *)
(* pool of payloads and the script's queue of events, and notify(), whose  *)
(* indications wait for the confirmation of every connection.  The start   *)
(* of notify() and GAP events hold the connection mutex.                   *)
(***************************************************************************)
EXTENDS Naturals, FiniteSets, Sequences, SequencesExt

CONSTANTS
    Conns,       \* connection slots, 1 .. n
    Capacity,    \* event_capacity, of the pool and of the queue
    Subscribes,  \* peers also change their subscriptions, which takes room in the queue
    MaxOps, MaxWrites, MaxLinks, MaxFaults    \* bounds

VARIABLES
    conn,        \* ble_connection_slot_t: generation, open; the link, an indication the host waits for
    op,          \* Future driver states of notify()
    active,      \* s_ble_server_notify_state, or 0
    busy,        \* operation whose start holds the connection mutex, or 0
    free,        \* pool of payloads
    queue,       \* the script's queue of events
    value,       \* the characteristic's value: the last write that was stored
    acked,       \* the last write the peer was told is done
    sequence,    \* last event number
    given,       \* last event number the script has received
    writes, links, faults

vars == <<conn, op, active, busy, free, queue, value, acked, sequence, given, writes, links, faults>>

Ops == 1 .. MaxOps
Every == 0
NoOp == [phase |-> "none", indication |-> FALSE, only |-> Every, gen |-> 0, identity |-> FALSE, at |-> 0,
         submitting |-> FALSE, pending |-> {}, confirmations |-> 0, submitted |-> 0, completed |-> FALSE]
Gone == [NoOp EXCEPT !.phase = "gone"]

Init ==
    /\ conn = [c \in Conns |-> [gen |-> 0, open |-> FALSE, up |-> FALSE, waits |-> FALSE, asked |-> FALSE]]
    /\ op = [o \in Ops |-> NoOp] /\ active = 0 /\ busy = 0
    /\ free = 1 .. Capacity /\ queue = <<>> /\ value = 0 /\ acked = 0 /\ sequence = 0 /\ given = 0
    /\ writes = 0 /\ links = 0 /\ faults = 0

Fault == faults < MaxFaults /\ faults' = faults + 1
Active(o) == op[o].phase \in {"queued", "started", "settled"}
First(o) == \A p \in 1 .. o - 1 : ~Active(p)
-------------------------------------------------------------------------------
(* ble_gatt_server_access and the script's queue. *)

\* The value is stored before the event is queued; without room for the event
\* the peer is refused although the value has changed.
access_write ==
    /\ \E c \in Conns : conn[c].up
    /\ writes < MaxWrites /\ writes' = writes + 1
    /\ \/ free = {} /\ UNCHANGED <<free, queue, value, acked, sequence, faults>>
       \/ free # {} /\ Fault /\ UNCHANGED <<free, queue, value, acked, sequence>>
       \/ /\ free # {} /\ UNCHANGED faults
          /\ value' = writes + 1 /\ sequence' = sequence + 1
          /\ IF Len(queue) < Capacity
             THEN /\ queue' = Append(queue, [kind |-> "write", pool |-> Min(free), n |-> sequence + 1])
                  /\ free' = free \ {Min(free)} /\ acked' = writes + 1
             ELSE UNCHANGED <<queue, free, acked>>
    /\ UNCHANGED <<conn, op, active, busy, given, links>>

\* ble_publish_server_subscription: an event without a payload.
subscribe_event ==
    /\ busy = 0 /\ Subscribes /\ (\E c \in Conns : conn[c].up) /\ writes < MaxWrites
    /\ writes' = writes + 1 /\ sequence' = sequence + 1
    /\ queue' = IF Len(queue) < Capacity
                THEN Append(queue, [kind |-> "subscription", pool |-> 0, n |-> sequence + 1]) ELSE queue
    /\ UNCHANGED <<conn, op, active, busy, free, value, acked, given, links, faults>>

\* ble_server_event_to_js; the payload goes back even if the copy fails.
receive ==
    /\ busy = 0 /\ queue # <<>> /\ queue' = Tail(queue) /\ given' = Head(queue).n
    /\ free' = IF Head(queue).kind = "write" THEN free \union {Head(queue).pool} ELSE free
    /\ UNCHANGED faults \/ Fault
    /\ UNCHANGED <<conn, op, active, busy, value, acked, sequence, writes, links>>
-------------------------------------------------------------------------------
(* notify() *)

Fresh(o) == op[o].phase = "none" /\ \A p \in 1 .. o - 1 : op[p].phase # "none"

notify_capture(o, indication, only) ==
    /\ busy = 0 /\ Fresh(o) /\ (only # Every => conn[only].open)
    /\ op' = [op EXCEPT ![o] = [NoOp EXCEPT !.phase = "queued", !.indication = indication, !.only = only,
                                            !.gen = IF only = Every THEN 0 ELSE conn[only].gen]]
    /\ UNCHANGED <<conn, active, busy, free, queue, value, acked, sequence, given, writes, links, faults>>

\* ble_server_notify_start: an indication is registered first.
notify_start(o) ==
    /\ op[o].phase = "queued" /\ First(o) /\ busy = 0
    /\ IF op[o].indication /\ active # 0
       THEN op' = [op EXCEPT ![o] = Gone] /\ UNCHANGED <<active, busy>>
       ELSE /\ busy' = o
            /\ op' = [op EXCEPT ![o] = [@ EXCEPT !.phase = "started", !.at = 1, !.identity = op[o].indication,
                                                 !.submitting = op[o].indication]]
            /\ active' = IF op[o].indication THEN o ELSE active
    /\ UNCHANGED <<conn, free, queue, value, acked, sequence, given, writes, links, faults>>

\* One connection of the loop.  A refused indication may be reported by the
\* host (NOTIFY_TX) before the call returns: its confirmation is counted once.
Refused(s, c, reported) ==
    LET after == IF reported THEN [s EXCEPT !.pending = @ \ {c}, !.confirmations = @ - 1] ELSE s
    IN IF c \in after.pending THEN [after EXCEPT !.pending = @ \ {c}, !.confirmations = @ - 1] ELSE after

notify_submit(o) ==
    LET c == op[o].at
        next == [op[o] EXCEPT !.at = @ + 1]
        marked == [next EXCEPT !.pending = @ \union {c}, !.confirmations = @ + 1]
    IN
    /\ busy = o /\ c \in Conns
    /\ IF ~conn[c].open \/ (op[o].only # Every /\ <<op[o].only, op[o].gen>> # <<c, conn[c].gen>>)
       THEN op' = [op EXCEPT ![o] = next] /\ UNCHANGED <<conn, faults>>
       ELSE \/ /\ conn[c].up /\ UNCHANGED faults
               /\ IF op[o].indication
                  THEN /\ ~conn[c].waits
                       /\ op' = [op EXCEPT ![o] = [marked EXCEPT !.submitted = @ + 1]]
                       /\ conn' = [conn EXCEPT ![c].waits = TRUE]
                  ELSE op' = [op EXCEPT ![o] = [next EXCEPT !.submitted = @ + 1]] /\ UNCHANGED conn
            \/ /\ IF conn[c].up /\ ~conn[c].waits THEN Fault ELSE UNCHANGED faults
               /\ UNCHANGED conn
               /\ \/ op' = [op EXCEPT ![o] = next]
                  \/ \E reported \in BOOLEAN :
                        op[o].indication /\ op' = [op EXCEPT ![o] = Refused(marked, c, reported)]
    /\ UNCHANGED <<active, busy, free, queue, value, acked, sequence, given, writes, links>>

\* The end of the loop: nothing to wait for completes the operation.
notify_submitted(o) ==
    LET done == ~op[o].indication \/ op[o].confirmations = 0 IN
    /\ busy = o /\ op[o].at \notin Conns /\ busy' = 0
    /\ op' = [op EXCEPT ![o] = [@ EXCEPT !.submitting = FALSE, !.completed = done,
                                         !.identity = @ /\ ~done]]
    /\ active' = IF done /\ active = o THEN 0 ELSE active
    /\ UNCHANGED <<conn, free, queue, value, acked, sequence, given, writes, links, faults>>

\* The driver is destroyed when it is ready, after a timeout without its finish.
notify_finish(o) ==
    /\ busy = 0 /\ op[o].phase \in {"started", "settled"} /\ op[o].completed
    /\ op' = [op EXCEPT ![o] = Gone]
    /\ UNCHANGED <<conn, active, busy, free, queue, value, acked, sequence, given, writes, links, faults>>

\* ble_future_on_timeout: connections that have not confirmed are terminated.
notify_timeout(o) ==
    /\ busy = 0 /\ op[o].phase \in {"queued", "started"}
    /\ IF op[o].phase = "queued" THEN op' = [op EXCEPT ![o] = Gone] /\ UNCHANGED conn
       ELSE /\ op' = [op EXCEPT ![o].phase = "settled"]
            /\ conn' = [c \in Conns |-> IF c \in op[o].pending /\ conn[c].open
                                        THEN [conn[c] EXCEPT !.asked = TRUE] ELSE conn[c]]
    /\ UNCHANGED <<active, busy, free, queue, value, acked, sequence, given, writes, links, faults>>
-------------------------------------------------------------------------------
(* The host *)

\* BLE_GAP_EVENT_NOTIFY_TX for an indication: confirmed, or failed with the link.
notify_tx(c) ==
    LET o == active IN
    /\ busy = 0 /\ conn[c].waits /\ conn' = [conn EXCEPT ![c].waits = FALSE]
    /\ IF o # 0 /\ c \in op[o].pending
       THEN LET done == op[o].confirmations = 1 /\ ~op[o].submitting IN
            /\ op' = [op EXCEPT ![o] = [@ EXCEPT !.pending = @ \ {c}, !.confirmations = @ - 1,
                                                 !.completed = done, !.identity = ~done]]
            /\ active' = IF done THEN 0 ELSE active
       ELSE UNCHANGED <<op, active>>
    /\ UNCHANGED <<busy, free, queue, value, acked, sequence, given, writes, links, faults>>

connect_event(c) ==
    /\ busy = 0 /\ ~conn[c].open /\ ~conn[c].up /\ links < MaxLinks /\ links' = links + 1
    /\ conn' = [conn EXCEPT ![c] = [gen |-> links + 1, open |-> TRUE, up |-> TRUE, waits |-> FALSE, asked |-> FALSE]]
    /\ UNCHANGED <<op, active, busy, free, queue, value, acked, sequence, given, writes, faults>>

link_lost(c) ==
    /\ conn[c].up /\ conn' = [conn EXCEPT ![c].up = FALSE]
    /\ UNCHANGED <<op, active, busy, free, queue, value, acked, sequence, given, writes, links, faults>>

\* BLE_GAP_EVENT_DISCONNECT, after the host has failed its indication.
disconnect_event(c) ==
    /\ busy = 0 /\ conn[c].open /\ ~conn[c].up /\ ~conn[c].waits
    /\ conn' = [conn EXCEPT ![c].open = FALSE, ![c].asked = FALSE]
    /\ UNCHANGED <<op, active, busy, free, queue, value, acked, sequence, given, writes, links, faults>>
-------------------------------------------------------------------------------
Next ==
    \/ access_write \/ subscribe_event \/ receive
    \/ \E o \in Ops :
          \/ \E indication \in BOOLEAN, only \in Conns \union {Every} : notify_capture(o, indication, only)
          \/ notify_start(o) \/ notify_submit(o) \/ notify_submitted(o) \/ notify_finish(o) \/ notify_timeout(o)
    \/ \E c \in Conns : notify_tx(c) \/ connect_event(c) \/ link_lost(c) \/ disconnect_event(c)

\* The script's task finishes its starts and polls; the host reports every
\* indication and ends the links it was asked to terminate.
Weak(k) == \/ k = 1 /\ \E o \in Ops : notify_submit(o) \/ notify_submitted(o)
           \/ k = 2 /\ \E o \in Ops : notify_finish(o)
           \/ k = 3 /\ \E c \in Conns : notify_tx(c)
           \/ k = 4 /\ \E c \in Conns : conn[c].asked /\ link_lost(c)
Spec == Init /\ [][Next]_vars
FairSpec == Spec /\ \A k \in 1 .. 4 : WF_vars(Weak(k))
-------------------------------------------------------------------------------
TypeOK ==
    /\ active \in Ops \union {0} /\ busy \in Ops \union {0} /\ free \subseteq 1 .. Capacity
    /\ Len(queue) <= Capacity
    /\ \A o \in Ops : op[o].phase \in {"none", "queued", "started", "settled", "gone"}

\* Confirmations are counted once each, whoever reports them: the counter is
\* the number of connections pending, each of them has an indication under
\* way, and the operation is complete exactly when none is left.
ConfirmationsExact ==
    \A o \in Ops : op[o].phase \in {"started", "settled"} =>
        /\ op[o].confirmations = Cardinality(op[o].pending)
        /\ \A c \in op[o].pending : conn[c].waits
        /\ busy # o => (op[o].completed <=> op[o].pending = {})

\* The host's callback never meets a freed operation.
PointerLive == active # 0 => op[active].phase \in {"started", "settled"} /\ op[active].identity

\* A payload is free or belongs to one queued write, events are numbered in
\* the order the script gets them.
EventsExact ==
    LET held == {queue[i].pool : i \in {j \in 1 .. Len(queue) : queue[j].kind = "write"}} IN
    /\ free \union held = 1 .. Capacity /\ free \intersect held = {}
    /\ \A i \in 1 .. Len(queue) : queue[i].n > (IF i = 1 THEN given ELSE queue[i - 1].n)

\* The value is the last write the peer was told is done.
ValueAcked == value = acked

ServerSafe == TypeOK /\ ConfirmationsExact /\ PointerLive /\ EventsExact /\ (Subscribes \/ ValueAcked)

\* Every indication ends.
Owed(o) == o \in Ops /\ op[o].phase = "started"
Paid(o) == o \in Ops => op[o].phase = "gone"
NotifyEnds == \A o \in Ops : Owed(o) ~> Paid(o)
=============================================================================
