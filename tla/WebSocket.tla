------------------------------ MODULE WebSocket ------------------------------
(***************************************************************************)
(* The WebSocket client (websocket.c, websocket_client_resources.c): the   *)
(* callbacks of the client's task assemble messages in a receive pool and  *)
(* queue them, the runtime delivers them, sends run in Future workers, and *)
(* a close takes the client down in a background worker.                   *)
(***************************************************************************)
EXTENDS Naturals, Sequences, FiniteSets

CONSTANTS Capacity,   \* slots of the receive pool and length of the native queue
          Lengths,    \* chunks of the messages of the peer; 0 stands for one too long
          MaxOpens, MaxOps, MaxMessages, MaxEvents, MaxFaults     \* bounds

VARIABLES
    w,        \* s_websocket_state
    pool,     \* [gen, free]: the receive pool of an open client
    frag,     \* the message being assembled
    cb,       \* the callback of the client's task
    queue,    \* the native queue of callback events
    told,     \* what the event queue of the script was given
    handle,   \* generation of the handle object (0: none)
    asked,    \* whether its event queue was asked to close
    worker,   \* where the close worker is
    op,       \* sends through Futures
    net,      \* the client's task: [up, registered, connected, msg, len, off]
    count     \* [opens, messages, events, sequence, faults]

vars == <<w, pool, frag, cb, queue, told, handle, asked, worker, op, net, count>>

Ids == 1 .. MaxOps
Buffers == 1 .. Capacity
Idle == [life |-> "IDLE", generation |-> 0, client |-> 0, events |-> FALSE, started |-> FALSE,
         event_queue |-> FALSE, sending |-> FALSE, close_pending |-> FALSE,
         submitted |-> FALSE, completed |-> FALSE, failed |-> FALSE]
NoPool == [gen |-> 0, free |-> {}]
NoFragment == [slot |-> 0, msg |-> 0, len |-> 0, expected |-> 0, dropping |-> FALSE]
NoCallback == [at |-> "none", event |-> "none", gen |-> 0, slot |-> 0, msg |-> 0, off |-> 0, len |-> 0]
NoOp == [phase |-> "none", client |-> 0, worker |-> FALSE, completed |-> FALSE, cancelled |-> FALSE]
NoNet == [up |-> FALSE, registered |-> FALSE, connected |-> FALSE, msg |-> 0, len |-> 0, off |-> 0]

Init ==
    /\ w = Idle /\ pool = NoPool /\ frag = NoFragment /\ cb = NoCallback
    /\ queue = <<>> /\ told = <<>> /\ handle = 0 /\ asked = FALSE /\ worker = "none"
    /\ op = [o \in Ids |-> NoOp] /\ net = NoNet
    /\ count = [opens |-> 0, messages |-> 0, events |-> 0, sequence |-> 0, faults |-> 0]

Fault == count.faults < MaxFaults /\ count' = [count EXCEPT !.faults = @ + 1]
Active(life) == life \in {"OPEN", "CONNECTED"}
GenerationActive(g) == Active(w.life) /\ g = w.generation
-------------------------------------------------------------------------------
(* Callbacks of the client's task. *)

\* websocket_event_handler enters and counts itself.
Enter(e) ==
    /\ net.registered /\ cb.at = "none"
    /\ cb' = [NoCallback EXCEPT !.at = "entered", !.event = e, !.msg = net'.msg, !.off = net'.off, !.len = net'.len]
    /\ UNCHANGED <<w, pool, frag, queue, told, handle, asked, worker, op>>
Connects ==
    /\ net.up /\ ~net.connected /\ count.events < MaxEvents
    /\ net' = [net EXCEPT !.connected = TRUE] /\ count' = [count EXCEPT !.events = @ + 1]
    /\ Enter("connected")
Disconnects ==
    /\ net.up /\ net.connected /\ count.events < MaxEvents
    /\ net' = [net EXCEPT !.connected = FALSE, !.msg = 0, !.len = 0, !.off = 0]
    /\ count' = [count EXCEPT !.events = @ + 1]
    /\ Enter("disconnected")
Receives(len) ==
    /\ net.up /\ net.connected
    /\ IF net.msg # 0 /\ net.off + 1 < net.len
       THEN /\ len = net.len
            /\ net' = [net EXCEPT !.off = @ + 1] /\ UNCHANGED count
       ELSE /\ count.messages < MaxMessages
            /\ net' = [net EXCEPT !.msg = count.messages + 1, !.len = len, !.off = 0]
            /\ count' = [count EXCEPT !.messages = @ + 1]
    /\ Enter("data")

\* websocket_callback_begin takes the generation of an active session.
websocket_callback_begin ==
    /\ cb.at = "entered"
    /\ cb' = IF Active(w.life) THEN [cb EXCEPT !.at = "admitted", !.gen = w.generation] ELSE NoCallback
    /\ UNCHANGED <<w, pool, frag, queue, told, handle, asked, worker, op, net, count>>

\* websocket_callback_set_connected, then the event of the change.
websocket_callback_set_connected ==
    /\ cb.at = "admitted" /\ cb.event \in {"connected", "disconnected"}
    /\ LET to == IF cb.event = "connected" THEN "CONNECTED" ELSE "OPEN" IN
       IF GenerationActive(cb.gen) /\ (to = "OPEN" \/ w.life # to)
       THEN w' = [w EXCEPT !.life = to] /\ cb' = [cb EXCEPT !.at = "enqueue", !.msg = 0]
       ELSE cb' = NoCallback /\ UNCHANGED w
    /\ UNCHANGED <<pool, frag, queue, told, handle, asked, worker, op, net, count>>

Freed(f) == IF f.slot = 0 THEN pool ELSE [pool EXCEPT !.free = @ \union {f.slot}]
Error == cb' = [cb EXCEPT !.at = "enqueue", !.event = "error", !.msg = 0]
\* websocket_handle_data, on pool and fragment as the first chunk leaves them.
Assemble(p, f) ==
    IF f.dropping
    THEN /\ frag' = IF cb.off + 1 >= cb.len THEN NoFragment ELSE f
         /\ pool' = p
    ELSE IF f.slot = 0 \/ f.expected # cb.len \/ f.len # cb.off
    THEN /\ Error /\ frag' = NoFragment
         /\ pool' = IF f.slot = 0 THEN p ELSE [p EXCEPT !.free = @ \union {f.slot}]
    ELSE IF f.len + 1 < cb.len
    THEN frag' = [f EXCEPT !.len = @ + 1] /\ pool' = p /\ cb' = NoCallback
    ELSE /\ frag' = NoFragment /\ pool' = p
         /\ cb' = [cb EXCEPT !.at = "enqueue", !.slot = f.slot, !.msg = f.msg]
websocket_handle_data ==
    /\ cb.at = "admitted" /\ cb.event = "data"
    /\ IF ~GenerationActive(cb.gen) THEN cb' = NoCallback /\ UNCHANGED <<pool, frag>>
       ELSE IF cb.off # 0
       THEN Assemble(pool, frag) /\ (frag.dropping => cb' = NoCallback)
       ELSE LET p == Freed(frag)
                f == [NoFragment EXCEPT !.msg = cb.msg, !.expected = cb.len]
            IN IF cb.len = 0 \/ p.free = {}
               THEN Assemble(p, [f EXCEPT !.dropping = TRUE]) /\ Error
               ELSE LET s == CHOOSE x \in p.free : TRUE IN
                    Assemble([p EXCEPT !.free = @ \ {s}], [f EXCEPT !.slot = s])
    /\ UNCHANGED <<w, queue, told, handle, asked, worker, op, net, count>>

\* websocket_enqueue, and the end of the callback. An event that finds no place
\* has had its sequence number all the same.
websocket_enqueue ==
    /\ cb.at = "enqueue" /\ cb' = NoCallback
    /\ LET seq == count.sequence + 1
           event == [kind |-> cb.event, gen |-> cb.gen, slot |-> cb.slot, msg |-> cb.msg, sequence |-> seq]
           free == IF cb.slot = 0 THEN pool ELSE [pool EXCEPT !.free = @ \union {cb.slot}]
       IN IF ~GenerationActive(cb.gen)
          THEN pool' = free /\ UNCHANGED <<queue, count>>
          ELSE /\ count' = [count EXCEPT !.sequence = seq]
               /\ IF Len(queue) < Capacity THEN queue' = Append(queue, event) /\ UNCHANGED pool
                  ELSE pool' = free /\ UNCHANGED queue
    /\ UNCHANGED <<w, frag, told, handle, asked, worker, op, net>>
-------------------------------------------------------------------------------
(* Close. *)

\* websocket_schedule_close_worker; a refused worker is an error of the close.
Schedule(s) ==
    IF s.client = 0 \/ s.submitted \/ s.failed THEN {s}
    ELSE {[s EXCEPT !.submitted = TRUE, !.completed = FALSE], [s EXCEPT !.failed = TRUE]}
\* Mutation: a close does not wait for the send that is under way.
CloseSource_now(s) ==
    Schedule([s EXCEPT !.event_queue = FALSE, !.failed = FALSE, !.life = "CLOSING", !.close_pending = TRUE])
CloseSource(s) ==
    LET c == [s EXCEPT !.event_queue = FALSE, !.failed = FALSE, !.life = "CLOSING", !.close_pending = TRUE]
    IN IF s.sending THEN {c} ELSE Schedule(c)
\* The new state, with the worker it submitted and the fault of a refusal.
Become(s) ==
    /\ w' = s
    /\ worker' = IF s.submitted /\ ~w.submitted THEN "stop" ELSE worker
    /\ IF s.failed /\ ~(w.failed /\ w.life = "CLOSING") THEN Fault ELSE UNCHANGED count

js_websocket_close ==
    /\ handle # 0 /\ handle' = 0
    /\ IF handle = w.generation /\ Active(w.life)
       THEN /\ \E s \in CloseSource(w) : Become(s)
            /\ asked' = FALSE
       ELSE UNCHANGED <<w, asked, worker, count>>
    /\ UNCHANGED <<pool, frag, cb, queue, told, op, net>>
js_websocket_handle_finalizer ==
    /\ handle # 0 /\ handle' = 0 /\ \A o \in Ids : op[o].phase \notin {"queued", "active"}
    /\ asked' = (handle = w.generation /\ Active(w.life))
    /\ UNCHANGED <<w, pool, frag, cb, queue, told, worker, op, net, count>>
websocket_close_source ==
    /\ asked /\ asked' = FALSE
    /\ \E s \in CloseSource(w) : Become(s)
    /\ UNCHANGED <<pool, frag, cb, queue, told, handle, op, net>>

\* websocket_client_resources_deinit: stop, unregister, quiesce, destroy. What a
\* refusal leaves is kept for the next attempt.
Refused == worker' = "none" /\ w' = [w EXCEPT !.failed = TRUE, !.completed = TRUE] /\ Fault /\ UNCHANGED net
websocket_client_resource_stop ==
    /\ worker = "stop"
    /\ \/ /\ worker' = "unregister" /\ w' = [w EXCEPT !.started = FALSE]
          /\ net' = [net EXCEPT !.up = FALSE, !.connected = FALSE] /\ UNCHANGED count
       \/ w.started /\ Refused
    /\ UNCHANGED <<pool, frag, cb, queue, told, handle, asked, op>>
websocket_client_resource_unregister_events ==
    /\ worker = "unregister"
    /\ \/ /\ worker' = "quiesce" /\ w' = [w EXCEPT !.events = FALSE]
          /\ net' = [net EXCEPT !.registered = FALSE] /\ UNCHANGED count
       \/ w.events /\ Refused
    /\ UNCHANGED <<pool, frag, cb, queue, told, handle, asked, op>>
websocket_client_resource_quiesce ==
    /\ worker = "quiesce" /\ cb.at = "none" /\ worker' = "destroy"
    /\ UNCHANGED <<w, pool, frag, cb, queue, told, handle, asked, op, net, count>>
websocket_client_resource_destroy ==
    /\ worker = "destroy"
    /\ \/ /\ worker' = "none" /\ w' = [w EXCEPT !.client = 0, !.completed = TRUE]
          /\ net' = NoNet /\ UNCHANGED count
       \/ Refused
    /\ UNCHANGED <<pool, frag, cb, queue, told, handle, asked, op>>

\* websocket_finish_close_source: fragment, queue and pool go.
websocket_drain == pool' = NoPool /\ frag' = NoFragment /\ queue' = <<>>

\* websocket_poll_close, in the poller: submit, or take the worker's result.
websocket_poll_close ==
    /\ w.life = "CLOSING" /\ ~w.sending
    /\ \/ /\ ~w.submitted /\ \E s \in Schedule(w) : s # w /\ Become(s)
          /\ UNCHANGED <<pool, frag, queue>>
       \/ /\ w.submitted /\ w.completed /\ w.failed
          /\ w' = [w EXCEPT !.submitted = FALSE, !.completed = FALSE]
          /\ UNCHANGED <<pool, frag, queue, worker, count>>
       \/ /\ w.submitted /\ w.completed /\ ~w.failed
          /\ w' = [Idle EXCEPT !.generation = w.generation]
          /\ websocket_drain
          /\ UNCHANGED <<worker, count>>
    /\ UNCHANGED <<cb, told, handle, asked, op, net>>

\* Runtime teardown closes what is open and tries again what had failed.
esp32_mquickjs_deinit_websocket_runtime ==
    /\ \A o \in Ids : op[o].phase \notin {"queued", "active"}
    /\ handle = 0 /\ w.client # 0 /\ ~w.submitted
    /\ \E s \in CloseSource(w) : Become(s)
    /\ asked' = FALSE
    /\ UNCHANGED <<pool, frag, cb, queue, told, handle, op, net>>
-------------------------------------------------------------------------------
(* The script. *)

\* websocketClient.open publishes the generation before it registers the handler.
js_websocket_open ==
    /\ count.opens < MaxOpens /\ handle = 0 /\ w.life = "IDLE" /\ w.client = 0
    /\ LET gen == w.generation + 1
           made == [Idle EXCEPT !.generation = gen, !.client = gen]
           opened == [made EXCEPT !.life = "OPEN", !.event_queue = TRUE]
       IN /\ pool' = [gen |-> gen, free |-> Buffers]
          /\ \/ /\ w' = [opened EXCEPT !.events = TRUE, !.started = TRUE]
                /\ net' = [NoNet EXCEPT !.up = TRUE, !.registered = TRUE]
                /\ handle' = gen /\ count' = [count EXCEPT !.opens = @ + 1]
                /\ UNCHANGED worker
             \/ /\ Fault /\ w' = [CHOOSE s \in CloseSource(made) : s.submitted EXCEPT !.events = FALSE]   \* no handle, no handler
                /\ worker' = "stop" /\ UNCHANGED <<net, handle>>
             \/ /\ Fault /\ w' = [CHOOSE s \in CloseSource(opened) : s.submitted EXCEPT !.events = TRUE]  \* not started
                /\ net' = [NoNet EXCEPT !.registered = TRUE]
                /\ worker' = "stop" /\ UNCHANGED handle
    /\ UNCHANGED <<frag, cb, queue, told, asked, op>>

\* One turn of websocket_poller: events of other sessions are freed, messages
\* are copied out of the pool, unless memory is short.
websocket_poller ==
    /\ queue # <<>> /\ queue' = Tail(queue)
    /\ LET e == Head(queue) IN
       /\ pool' = IF e.slot = 0 THEN pool ELSE [pool EXCEPT !.free = @ \union {e.slot}]
       /\ IF e.gen # w.generation \/ ~w.event_queue THEN UNCHANGED <<told, count>>
          ELSE \/ told' = Append(told, [e EXCEPT !.slot = 0]) /\ UNCHANGED count
               \/ e.slot # 0 /\ Fault /\ UNCHANGED told
    /\ UNCHANGED <<w, frag, cb, handle, asked, worker, op, net>>

Usable == handle # 0 /\ handle = w.generation /\ w.life = "CONNECTED" /\ net.connected
Fresh(o) == op[o].phase = "none" /\ \A p \in 1 .. o - 1 : op[p].phase # "none"
\* websocket_copy_send_payload: a send has its own copy of what it sends, so only
\* the client is shared with what happens before its worker runs.
Copied == [NoOp EXCEPT !.phase = "queued", !.client = w.client]
websocket_send_future_prepare(o) ==
    /\ Fresh(o) /\ Usable /\ ~w.sending
    /\ op' = [op EXCEPT ![o] = Copied]
    /\ UNCHANGED <<w, pool, frag, cb, queue, told, handle, asked, worker, net, count>>
Gone(o) == op' = [op EXCEPT ![o] = [NoOp EXCEPT !.phase = "gone"]]
websocket_send_future_start(o) ==
    /\ op[o].phase = "queued"
    /\ IF ~w.sending /\ w.life = "CONNECTED" /\ op[o].client = w.client
       THEN \/ /\ op' = [op EXCEPT ![o].phase = "active", ![o].worker = TRUE]
               /\ w' = [w EXCEPT !.sending = TRUE] /\ UNCHANGED count
            \/ Fault /\ Gone(o) /\ UNCHANGED w
       ELSE Gone(o) /\ UNCHANGED <<w, count>>
    /\ UNCHANGED <<pool, frag, cb, queue, told, handle, asked, worker, net>>
websocket_send_future_worker(o) ==
    /\ op[o].worker /\ op' = [op EXCEPT ![o].worker = FALSE, ![o].completed = TRUE]
    /\ UNCHANGED <<w, pool, frag, cb, queue, told, handle, asked, worker, net, count>>
websocket_send_future_cancel(o) ==
    /\ op[o].phase = "active" /\ ~op[o].completed /\ ~op[o].cancelled
    /\ op' = [op EXCEPT ![o].cancelled = TRUE]
    /\ UNCHANGED <<w, pool, frag, cb, queue, told, handle, asked, worker, net, count>>
\* finish and destroy: a close that waited for the send is carried out.
websocket_send_future_destroy(o) ==
    /\ op[o].phase = "active" /\ op[o].completed
    /\ Gone(o)
    /\ LET s == [w EXCEPT !.sending = FALSE] IN
       IF w.close_pending THEN \E t \in Schedule(s) : Become(t) ELSE w' = s /\ UNCHANGED <<worker, count>>
    /\ UNCHANGED <<pool, frag, cb, queue, told, handle, asked, net>>

Next ==
    \/ js_websocket_open \/ js_websocket_close \/ js_websocket_handle_finalizer \/ websocket_close_source
    \/ Connects \/ Disconnects \/ \E len \in Lengths : Receives(len)
    \/ websocket_callback_begin \/ websocket_callback_set_connected \/ websocket_handle_data \/ websocket_enqueue
    \/ websocket_client_resource_stop \/ websocket_client_resource_unregister_events
    \/ websocket_client_resource_quiesce \/ websocket_client_resource_destroy
    \/ websocket_poll_close \/ websocket_poller \/ esp32_mquickjs_deinit_websocket_runtime
    \/ \E o \in Ids : \/ websocket_send_future_prepare(o) \/ websocket_send_future_start(o)
                      \/ websocket_send_future_worker(o) \/ websocket_send_future_cancel(o)
                      \/ websocket_send_future_destroy(o)

Spec == Init /\ [][Next]_vars
-------------------------------------------------------------------------------
\* The client and the pool stay under a send's worker and under a callback that
\* was admitted, and a closed client has left nothing behind.
ClientHeld ==
    /\ \A o \in Ids : op[o].worker => w.client = op[o].client /\ worker = "none" /\ w.sending
    /\ cb.at \in {"admitted", "enqueue"} => pool.gen = cb.gen /\ w.client = cb.gen
    /\ w.life = "IDLE" => /\ w.client = 0 /\ pool = NoPool /\ frag = NoFragment /\ queue = <<>>
                          /\ worker = "none" /\ cb = NoCallback /\ net = NoNet /\ ~w.sending
    /\ Active(w.life) => worker = "none"

\* Each slot of the pool is free, holds the message being assembled, is in the
\* callback's hand or is queued.
SlotsExact ==
    LET queued == {i \in DOMAIN queue : queue[i].slot # 0} IN
    pool.gen # 0 =>
        /\ pool.free \intersect ({frag.slot, cb.slot} \union {queue[i].slot : i \in queued}) = {}
        /\ Cardinality(pool.free) + Cardinality(queued) + (IF frag.slot = 0 THEN 0 ELSE 1)
              + (IF cb.slot = 0 THEN 0 ELSE 1) = Capacity

\* Events reach the script in the order of their sequence numbers and in their
\* own session; a message is delivered whole and once.
ToldInOrder ==
    /\ \A i, j \in DOMAIN told : i < j => told[i].sequence < told[j].sequence /\ told[i].gen <= told[j].gen
    /\ \A i, j \in DOMAIN told : i # j /\ told[i].msg # 0 => told[i].msg # told[j].msg
    /\ frag.msg # 0 /\ ~frag.dropping => frag.len < frag.expected

WebSocketSafe == ClientHeld /\ SlotsExact /\ ToldInOrder
=============================================================================
