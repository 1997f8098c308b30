----------------------------- MODULE HttpServer -----------------------------
(***************************************************************************)
(* The HTTP server (http_server.c): every listening server has an httpd    *)
(* task of its own that takes a slot of one table of requests for every    *)
(* exchange and sends the slot's number to the server's event queue; the   *)
(* script receives it and answers with respond(), a Future whose worker    *)
(* sends the response.  An exchange (the asynchronous httpd request) is a  *)
(* number; it must be answered at most once and completed exactly once.    *)
(***************************************************************************)
EXTENDS Naturals, Sequences, FiniteSets, SequencesExt

CONSTANTS
    Servers,     \* 0 .. HTTP_SERVER_MAX_SERVERS - 1
    Requests,    \* HTTP_SERVER_QUEUE_LEN slots
    Overlap,     \* a server is closed while another one's handler takes a slot
    MaxOpens, MaxExchanges, MaxOps, MaxFaults   \* bounds

VARIABLES
    server,      \* servers
    object,      \* generation of the live HttpServer object of a slot, or 0
    task,        \* httpd task of each server, inside dispatch_handler
    request,     \* requests
    queue,       \* the event queue of each server
    script,      \* request objects whose _requestId is live
    op,          \* respond() Futures
    ex,          \* state of each exchange
    answers,     \* responses sent for each exchange
    down,        \* shutting_down
    faults

vars == <<server, object, task, request, queue, script, op, ex, answers, down, faults>>

Ids == 1 .. MaxOps
Exchanges == 1 .. MaxExchanges

NoServer(generation) ==
    [allocated |-> FALSE, generation |-> generation, started |-> FALSE,
     release_pending |-> FALSE, handle |-> FALSE, routes |-> FALSE]
\* http_server_cleanup_request keeps the generation; server_id becomes 0.
NoRequest(generation) ==
    [allocated |-> FALSE, generation |-> generation, server_id |-> 0, async_req |-> 0,
     responding |-> FALSE]
AnyRequest == CHOOSE r \in Requests : TRUE
NoTask == [pc |-> "idle", slot |-> AnyRequest, x |-> 0]
NoOp == [phase |-> "none", slot |-> AnyRequest, generation |-> 0, server_id |-> 0,
         worker |-> "none", cancelled |-> FALSE]

Init ==
    /\ server = [s \in Servers |-> NoServer(0)] /\ object = [s \in Servers |-> 0]
    /\ task = [s \in Servers |-> NoTask] /\ request = [r \in Requests |-> NoRequest(0)]
    /\ queue = [s \in Servers |-> <<>>] /\ script = {}
    /\ op = [o \in Ids |-> NoOp]
    /\ ex = [x \in Exchanges |-> "new"] /\ answers = [x \in Exchanges |-> 0]
    /\ down = FALSE /\ faults = 0

Fault == faults < MaxFaults /\ faults' = faults + 1
Event(r) == [slot |-> r, generation |-> request[r].generation]
Fresh(e) == request[e.slot].allocated /\ request[e.slot].generation = e.generation
Owns(o) == op[o].phase \in {"queued", "started"}
Cleaned(r) == NoRequest(request[r].generation)
Completed(r) == IF request[r].allocated THEN {request[r].async_req} \ {0} ELSE {}
-------------------------------------------------------------------------------
(* Servers. *)

\* httpd_stop returns once the server's task has left its handler.
Stoppable(s) == server[s].handle => task[s].pc = "idle"

\* Requests of the servers that close (http_server_cleanup_requests_for_server).
RequestsOf(S) == {r \in Requests : request[r].allocated /\ request[r].server_id \in S}

\* Closing the queue drops its events: each is refused with a 503.
Dropped(S) == {r \in RequestsOf(S) : \E s \in S : Event(r) \in Range(queue[s])}

\* http_server_close_slot of the servers S, all of them stopped.
CloseSlots(S) ==
    /\ \A s \in S : Stoppable(s)
    /\ Overlap \/ \A s \in S : \A t \in Servers \ {s} : task[t].pc # "begin"
    /\ LET gone == UNION {Completed(r) : r \in RequestsOf(S)}
       IN /\ request' = [r \in Requests |-> IF r \in RequestsOf(S) THEN Cleaned(r) ELSE request[r]]
          /\ ex' = [x \in Exchanges |-> IF x \in gone THEN "done" ELSE ex[x]]
          /\ answers' = [x \in Exchanges |->
                            IF \E r \in Dropped(S) : request[r].async_req = x
                            THEN answers[x] + 1 ELSE answers[x]]
          /\ script' = {e \in script : e.slot \notin RequestsOf(S)}
    /\ queue' = [s \in Servers |-> IF s \in S THEN <<>> ELSE queue[s]]

Untouched == UNCHANGED <<request, ex, answers, script, queue>>

\* Servers of P closed before the first whose httpd_stop fails, if one does.
FailsAt(P, f) == f \in P /\ server[f].handle
ClosedBefore(P, f) == {p \in P : p < f}

\* js_http_server_create: pending releases are retried first.
Pending == {s \in Servers : server[s].allocated /\ server[s].release_pending}
FirstFree(s) == LET free(t) == ~server[t].allocated \/ t \in Pending
                IN free(s) /\ \A t \in Servers : t < s => ~free(t)

js_http_server_create(s) ==
    /\ ~down
    /\ \/ /\ FirstFree(s) /\ object[s] = 0 /\ server[s].generation < MaxOpens
          /\ CloseSlots(Pending)
          /\ \/ /\ server' = [t \in Servers |->
                      IF t = s THEN [NoServer(server[s].generation + 1) EXCEPT !.allocated = TRUE]
                      ELSE IF t \in Pending THEN NoServer(server[t].generation) ELSE server[t]]
                /\ object' = [object EXCEPT ![s] = server[s].generation + 1]
                /\ UNCHANGED faults
             \/ \* the host, the queue or the object failed: nothing stays allocated
                /\ Fault
                /\ server' = [t \in Servers |->
                      IF t = s THEN NoServer(server[s].generation + 1)
                      ELSE IF t \in Pending THEN NoServer(server[t].generation) ELSE server[t]]
                /\ UNCHANGED object
       \/ /\ FailsAt(Pending, s) /\ Fault
          /\ CloseSlots(ClosedBefore(Pending, s))
          /\ server' = [t \in Servers |-> IF t \in ClosedBefore(Pending, s)
                                          THEN NoServer(server[t].generation) ELSE server[t]]
          /\ UNCHANGED object
    /\ UNCHANGED <<task, op, down>>

\* http_server_server_id_from_object
Usable(s) == object[s] # 0 /\ server[s].allocated /\ server[s].generation = object[s]
             /\ ~server[s].release_pending

\* http_server_start_slot: httpd_start, then the one URI handler; a handle an
\* earlier failure left behind is stopped first.
js_http_server_start(s) ==
    /\ Usable(s) /\ ~server[s].started
    /\ \/ /\ server' = [server EXCEPT ![s].handle = TRUE, ![s].started = TRUE] /\ UNCHANGED faults
       \/ \* httpd_start failed, or the handler was refused and httpd stopped
          /\ Fault /\ server' = [server EXCEPT ![s].handle = FALSE]
       \/ \* neither registered nor stopped
          /\ Fault /\ server' = [server EXCEPT ![s].handle = TRUE]
    /\ UNCHANGED <<object, task, request, queue, script, op, ex, answers, down>>

\* http_server_has_active_response
\* Mutation: only the worker's own work counts as an active response.
ActiveResponse_sent(s) ==
    \E o \in Ids : op[o].worker = "sending" /\ op[o].server_id = s

ActiveResponse(s) ==
    \E r \in Requests : request[r].allocated /\ request[r].server_id = s /\ request[r].responding

\* stop() keeps the requests that the script or the queue still has.
js_http_server_stop(s) ==
    /\ Usable(s) /\ ~ActiveResponse(s) /\ server[s].handle /\ Stoppable(s)
    /\ \/ server' = [server EXCEPT ![s].handle = FALSE, ![s].started = FALSE] /\ UNCHANGED faults
       \/ Fault /\ UNCHANGED server
    /\ UNCHANGED <<object, task, request, queue, script, op, ex, answers, down>>

\* The end of one server: release_pending first, everything else only after
\* httpd stopped; a refusal leaves it for a retry.
Release(s, keeps) ==
    \/ /\ CloseSlots({s})
       /\ server' = [server EXCEPT ![s] = NoServer(@.generation)]
       /\ object' = [object EXCEPT ![s] = 0]
       /\ UNCHANGED faults
    \/ /\ server[s].handle /\ Stoppable(s) /\ Fault
       /\ server' = [server EXCEPT ![s].release_pending = TRUE]
       /\ object' = [object EXCEPT ![s] = IF keeps THEN @ ELSE 0]
       /\ Untouched

js_http_server_close(s) ==
    /\ object[s] # 0 /\ server[s].allocated /\ server[s].generation = object[s]
    /\ ~ActiveResponse(s)
    /\ Release(s, TRUE)
    /\ UNCHANGED <<task, op, down>>

\* A respond() Future roots its server, so the collector finds no response.
js_http_server_finalizer(s) ==
    /\ object[s] # 0 /\ server[s].allocated /\ server[s].generation = object[s]
    /\ \A o \in Ids : Owns(o) => op[o].server_id # s
    /\ Release(s, FALSE)
    /\ UNCHANGED <<task, op, down>>

\* route(), removeRoute() and clearRoutes(), by whether a route matches.
js_http_server_route(s) ==
    /\ Usable(s)
    /\ \E b \in BOOLEAN : b # server[s].routes /\ server' = [server EXCEPT ![s].routes = b]
    /\ UNCHANGED <<object, task, request, queue, script, op, ex, answers, down, faults>>

\* The context ends after its Futures; http_server_cleanup_all stops at the
\* first server that refuses, and the next context retries (init_state).
Allocated == {s \in Servers : server[s].allocated}

http_server_cleanup_all ==
    /\ down \/ \A o \in Ids : ~Owns(o)
    /\ object' = [s \in Servers |-> 0]
    /\ \/ /\ CloseSlots(Allocated) /\ Allocated # {}
          /\ server' = [s \in Servers |-> NoServer(server[s].generation)]
          /\ down' = FALSE /\ UNCHANGED faults
       \/ \E f \in Servers :
             /\ FailsAt(Allocated, f) /\ Stoppable(f) /\ Fault
             /\ CloseSlots(ClosedBefore(Allocated, f))
             /\ server' = [s \in Servers |->
                   IF s < f THEN NoServer(server[s].generation)
                   ELSE IF s = f THEN [server[s] EXCEPT !.release_pending = TRUE] ELSE server[s]]
             /\ down' = TRUE
    /\ UNCHANGED <<task, op>>
-------------------------------------------------------------------------------
(* The httpd task: http_server_dispatch_handler. *)

\* http_server_alloc_request, under the lock.
FreeRequest(r) == ~request[r].allocated /\ \A q \in Requests : q < r => request[q].allocated

Arrives(s, x) ==
    /\ server[s].handle /\ server[s].started /\ task[s].pc = "idle"
    /\ ex[x] = "new" /\ \A y \in Exchanges : y < x => ex[y] # "new"
Refuses(s) == server[s].release_pending \/ down \/ \A r \in Requests : request[r].allocated

dispatch_handler(s, x) ==
    /\ Arrives(s, x)
    /\ IF Refuses(s)
       THEN \* a 503 by the handler itself: no exchange is left open
            /\ ex' = [ex EXCEPT ![x] = "done"] /\ answers' = [answers EXCEPT ![x] = @ + 1]
            /\ UNCHANGED <<task, request>>
       ELSE \E r \in Requests :
               /\ FreeRequest(r)
               /\ request' = [request EXCEPT ![r].allocated = TRUE, ![r].generation = @ + 1]
               /\ task' = [task EXCEPT ![s] = [pc |-> "begin", slot |-> r, x |-> x]]
               /\ ex' = [ex EXCEPT ![x] = "taken"] /\ UNCHANGED answers
    /\ UNCHANGED <<server, object, queue, script, op, down, faults>>

\* httpd_req_async_handler_begin, then the slot gets its server and exchange.
dispatch_begin(s) ==
    LET r == task[s].slot x == task[s].x IN
    /\ task[s].pc = "begin"
    /\ \/ /\ request' = [request EXCEPT ![r].server_id = s, ![r].async_req = x]
          /\ ex' = [ex EXCEPT ![x] = "open"] /\ task' = [task EXCEPT ![s].pc = "body"]
          /\ UNCHANGED <<answers, faults>>
       \/ /\ Fault /\ request' = [request EXCEPT ![r] = Cleaned(r)]
          /\ ex' = [ex EXCEPT ![x] = "done"] /\ answers' = [answers EXCEPT ![x] = @ + 1]
          /\ task' = [task EXCEPT ![s] = NoTask]
    /\ UNCHANGED <<server, object, queue, script, op, down>>

\* The method, the headers and the body, then the event.
dispatch_send(s) ==
    LET r == task[s].slot x == task[s].x IN
    /\ task[s].pc = "body" /\ task' = [task EXCEPT ![s] = NoTask]
    /\ \/ /\ queue' = [queue EXCEPT ![s] = Append(@, Event(r))]
          /\ UNCHANGED <<request, ex, answers, faults>>
       \/ \* an error response, then http_server_cleanup_request
          /\ Fault /\ request' = [request EXCEPT ![r] = Cleaned(r)]
          /\ ex' = [y \in Exchanges |-> IF y \in Completed(r) THEN "done" ELSE ex[y]]
          /\ answers' = [answers EXCEPT ![x] = @ + 1]
          /\ UNCHANGED queue
    /\ UNCHANGED <<server, object, script, op, down>>
-------------------------------------------------------------------------------
(* The script: receive() and respond(). *)

Answer(r) ==
    /\ request' = [request EXCEPT ![r] = Cleaned(r)]
    /\ ex' = [x \in Exchanges |-> IF x \in Completed(r) THEN "done" ELSE ex[x]]
    /\ answers' = [x \in Exchanges |-> IF x = request[r].async_req THEN answers[x] + 1 ELSE answers[x]]

\* http_server_event_to_js
http_server_event_to_js(s) ==
    /\ Usable(s) /\ queue[s] # <<>>
    /\ queue' = [queue EXCEPT ![s] = Tail(@)]
    /\ LET e == Head(queue[s]) r == e.slot IN
       IF ~(Fresh(e) /\ request[r].server_id = s) THEN UNCHANGED <<request, ex, answers, script, faults>>
       ELSE \/ /\ server[s].routes /\ script' = script \union {e}
               /\ UNCHANGED <<request, ex, answers, faults>>
            \/ /\ ~server[s].routes /\ Answer(r) /\ UNCHANGED <<script, faults>>   \* 404
            \/ server[s].routes /\ Fault /\ Answer(r) /\ UNCHANGED script         \* 500
    /\ UNCHANGED <<server, object, task, op, down>>

NextOp(o) == op[o].phase = "none" /\ \A p \in Ids : p < o => op[p].phase # "none"

\* http_server_respond_future_capture
Claimable(s, e) == Fresh(e) /\ request[e.slot].server_id = s /\ ~request[e.slot].responding
                   /\ request[e.slot].async_req # 0

respond_capture(o, s, e) ==
    /\ NextOp(o) /\ Usable(s) /\ e \in script /\ Claimable(s, e)
    /\ request' = [request EXCEPT ![e.slot].responding = TRUE]
    /\ script' = script \ {e}
    /\ op' = [op EXCEPT ![o] = [NoOp EXCEPT !.phase = "queued", !.slot = e.slot,
                                   !.generation = e.generation, !.server_id = s]]
    /\ UNCHANGED <<server, object, task, queue, ex, answers, down, faults>>

\* http_server_respond_request
Of(o) == [slot |-> op[o].slot, generation |-> op[o].generation]
Request(o) == request[op[o].slot]
Holds(o) == Fresh(Of(o)) /\ Request(o).server_id = op[o].server_id

\* http_server_respond_future_start
respond_start(o) ==
    /\ op[o].phase = "queued" /\ ~op[o].cancelled
    /\ Holds(o) /\ Request(o).responding /\ Request(o).async_req # 0 /\ ~down
    /\ op' = [op EXCEPT ![o].phase = "started", ![o].worker = "queued"]
    /\ UNCHANGED <<server, object, task, request, queue, script, ex, answers, down, faults>>

\* http_server_respond_worker: reads the request, then sends for a while.
respond_worker(o) ==
    /\ \/ op[o].worker = "queued" /\ op' = [op EXCEPT ![o].worker = "sending"] /\ UNCHANGED answers
       \/ /\ op[o].worker = "sending" /\ op' = [op EXCEPT ![o].worker = "done"]
          /\ answers' = [x \in Exchanges |-> IF Holds(o) /\ x = Request(o).async_req
                                             THEN answers[x] + 1 ELSE answers[x]]
    /\ UNCHANGED <<server, object, task, request, queue, script, ex, down, faults>>

Gone(o) == op' = [op EXCEPT ![o] = [NoOp EXCEPT !.phase = "gone"]]

\* http_server_respond_future_finish: the exchange is complete.
respond_finish(o) ==
    /\ op[o].phase = "started" /\ op[o].worker = "done"
    /\ IF Holds(o)
       THEN /\ request' = [request EXCEPT ![op[o].slot] = Cleaned(op[o].slot)]
            /\ ex' = [x \in Exchanges |-> IF x \in Completed(op[o].slot) THEN "done" ELSE ex[x]]
       ELSE UNCHANGED <<request, ex>>
    /\ Gone(o)
    /\ UNCHANGED <<server, object, task, queue, script, answers, down, faults>>

\* cancel() before the start, a start that failed, or the worker's queue full:
\* the Future is destroyed and the script gets its request back.
Unclaimed(o) ==
    IF Holds(o) THEN /\ request' = [request EXCEPT ![op[o].slot].responding = FALSE]
                     /\ script' = script \union {Of(o)}
    ELSE UNCHANGED <<request, script>>

\* Mutation: the request stays claimed by the destroyed Future.

respond_destroy(o) ==
    /\ op[o].phase = "queued" /\ Unclaimed(o) /\ Gone(o)
    /\ UNCHANGED <<server, object, task, queue, ex, answers, down, faults>>
-------------------------------------------------------------------------------
Next ==
    \/ \E s \in Servers :
          \/ js_http_server_create(s) \/ js_http_server_start(s) \/ js_http_server_stop(s)
          \/ js_http_server_close(s) \/ js_http_server_finalizer(s) \/ js_http_server_route(s)
          \/ dispatch_begin(s) \/ dispatch_send(s) \/ http_server_event_to_js(s)
          \/ \E x \in Exchanges : dispatch_handler(s, x)
          \/ \E o \in Ids, e \in script : respond_capture(o, s, e)
    \/ http_server_cleanup_all
    \/ \E o \in Ids : respond_start(o) \/ respond_worker(o) \/ respond_finish(o) \/ respond_destroy(o)

Spec == Init /\ [][Next]_vars
-------------------------------------------------------------------------------
TypeOK ==
    /\ \A s \in Servers : server[s].started => server[s].handle
    /\ \A s \in Servers : Len(queue[s]) <= Cardinality(Requests)
    /\ \A x \in Exchanges : ex[x] \in {"new", "taken", "open", "done"}

\* Every exchange that began is held by exactly one slot of the table until it
\* completes, and the slots hold no other: none is lost, none completed twice.
ExchangesHeld ==
    \A x \in Exchanges :
        Cardinality({r \in Requests : request[r].allocated /\ request[r].async_req = x})
            = IF ex[x] = "open" THEN 1 ELSE 0

\* Nobody is answered twice, whatever errors, drops, closes and retried
\* responses meet.
AnsweredOnce == \A x \in Exchanges : answers[x] <= 1

\* A slot in use is in exactly one hand: the handler that fills it, the queue,
\* the script or one response.
SlotsAccounted ==
    \A r \in Requests :
        LET hands == Cardinality({s \in Servers : task[s].pc # "idle" /\ task[s].slot = r})
                     + Cardinality({s \in Servers : Event(r) \in Range(queue[s])})
                     + Cardinality({e \in script : e = Event(r)})
                     + Cardinality({o \in Ids : Owns(o) /\ Of(o) = Event(r)})
        IN hands = IF request[r].allocated THEN 1 ELSE 0

\* The worker's exchange stays open while it sends: no stop, close, cancel or
\* collection takes it away.
WorkerKeepsExchange ==
    \A o \in Ids : op[o].worker \in {"queued", "sending"} =>
        Holds(o) /\ Request(o).responding /\ ex[Request(o).async_req] = "open"

HttpServerSafe ==
    TypeOK /\ ExchangesHeld /\ AnsweredOnce /\ SlotsAccounted /\ WorkerKeepsExchange
=============================================================================
