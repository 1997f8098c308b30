------------------------------ MODULE HttpClient ------------------------------
(***************************************************************************)
(* http.fetch (http.c, http_future.c and their resource files): requests   *)
(* that a task of their own performs, at most MaxActive of them, the       *)
(* capture of the response body, cancellation under the operation's lock,  *)
(* and clients whose clean-up failed and is tried again by later requests. *)
(***************************************************************************)
EXTENDS Naturals, FiniteSets

CONSTANTS MaxActive,    \* ESP32_MQUICKJS_HTTP_MAX_FUTURES
          BodyLimit,    \* maxBodyBytes
          Growth,       \* the step the body grows by
          Chunks,       \* sizes of the chunks the client hands over
          Teardown,     \* may the runtime be torn down while a worker publishes its result?
          MaxOps, MaxFaults     \* bounds

VARIABLES
    op,        \* requests, in the order they are captured
    active,    \* s_http_future_runtime.active_count
    pending,   \* cleanup_pending
    clients,   \* requests whose esp_http_client exists
    sources,   \* request bodies a script still has to close
    faults

vars == <<op, active, pending, clients, sources, faults>>

Ids == 1 .. MaxOps
NoOp == [phase |-> "none", started |-> FALSE, worker |-> "none", client |-> FALSE, cancel |-> FALSE,
         body |-> 0, cap |-> 0, sent |-> 0, error |-> FALSE, response |-> FALSE, completed |-> FALSE,
         result |-> "none"]

Init ==
    /\ op = [o \in Ids |-> NoOp] /\ active = 0 /\ pending = {} /\ clients = {} /\ sources = {} /\ faults = 0

Fault == faults < MaxFaults /\ faults' = faults + 1
Gone(f, o) == [f EXCEPT ![o] = [NoOp EXCEPT !.phase = "gone", !.result = f[o].result]]
-------------------------------------------------------------------------------
(* The request, on the runtime. *)

Fresh(o) == op[o].phase = "none" /\ \A p \in 1 .. o - 1 : op[p].phase # "none"
\* http_materialize_body reads the whole source and closes it.
Materialized(o) == sources \ {o}
\* Both forms of a request may fail before or after the body is read; what fails
\* before leaves the source to the script.
http_parse_options(o) == {sources \union {o}, Materialized(o)}          \* a wrong method, then wrong limits
http_parse_request_object(o) == {sources \union {o}, Materialized(o)}   \* wrong headers, then a wrong length
http_future_prepare(o) ==
    /\ Fresh(o)
    /\ \/ /\ op' = [op EXCEPT ![o].phase = "queued"]
          /\ sources' = Materialized(o) /\ UNCHANGED faults
       \/ /\ Fault /\ op' = Gone(op, o)
          /\ sources' \in http_parse_options(o) \union http_parse_request_object(o)
    /\ UNCHANGED <<active, pending, clients>>

\* http_future_retry_pending_cleanup: each client may be refused again.
Retry(kept) ==
    /\ kept \subseteq pending
    /\ pending' = kept /\ clients' = clients \ (pending \ kept)
Freed(kept) == Cardinality({p \in pending \ kept : op[p].started})
Collected(kept) == [o \in Ids |-> IF o \in pending \ kept THEN Gone(op, o)[o] ELSE op[o]]

\* http_future_start: old clients first, then a place and a task.
http_future_start(o) ==
    /\ op[o].phase = "queued"
    /\ \E kept \in SUBSET pending :
        LET left == active - Freed(kept)
            f == Collected(kept)
            refused == Cardinality(kept)
        IN /\ Retry(kept)
           /\ IF left < MaxActive
              THEN \/ /\ op' = [f EXCEPT ![o].phase = "active", ![o].started = TRUE, ![o].worker = "init"]
                      /\ active' = left + 1 /\ faults' = faults + refused
                   \/ op' = Gone(f, o) /\ active' = left /\ faults' = faults + refused + 1
              ELSE op' = Gone(f, o) /\ active' = left /\ faults' = faults + refused
           /\ faults' <= MaxFaults
    /\ UNCHANGED sources

\* esp32_mquickjs_http_operation_cancel, under the lock of the operation.
http_future_cancel(o) ==
    /\ op[o].phase = "active" /\ ~op[o].completed /\ ~op[o].cancel
    /\ op' = [op EXCEPT ![o].cancel = TRUE]
    /\ UNCHANGED <<active, pending, clients, sources, faults>>
http_future_drop(o) ==
    /\ op[o].phase = "queued" /\ op' = Gone(op, o)
    /\ UNCHANGED <<active, pending, clients, sources, faults>>
-------------------------------------------------------------------------------
(* The worker: esp32_mquickjs_http_perform_request. *)

Step(o, r) == op' = [op EXCEPT ![o] = r] /\ UNCHANGED <<active, pending, sources>>

\* http_operation_attach_client: a cancelled request is not sent.
http_operation_attach_client(o) ==
    /\ op[o].worker = "init"
    /\ \/ /\ Step(o, [op[o] EXCEPT !.worker = IF op[o].cancel THEN "cleanup" ELSE "perform",
                                   !.client = TRUE, !.error = op[o].cancel])
          /\ clients' = clients \union {o} /\ UNCHANGED faults
       \/ /\ Fault /\ Step(o, [op[o] EXCEPT !.worker = "publish", !.error = TRUE])
          /\ UNCHANGED clients

\* http_capture_append_body: the buffer grows in steps and never past the limit.
RoundUp(n) == IF n < Growth THEN Growth ELSE ((n + Growth - 1) \div Growth) * Growth
Capped(n) == IF RoundUp(n) > BodyLimit THEN BodyLimit ELSE RoundUp(n)
http_capture_append_body(o, n) ==
    /\ op[o].worker = "perform" /\ ~op[o].error /\ ~op[o].cancel /\ op[o].sent <= BodyLimit
    /\ LET got == [op[o] EXCEPT !.sent = @ + n] IN
       \/ /\ IF n > BodyLimit \/ op[o].body > BodyLimit - n THEN Step(o, [got EXCEPT !.error = TRUE])
             ELSE Step(o, [got EXCEPT !.body = @ + n, !.cap = IF @ < op[o].body + n THEN Capped(op[o].body + n) ELSE @])
          /\ UNCHANGED faults
       \/ Fault /\ Step(o, [got EXCEPT !.error = TRUE])
    /\ UNCHANGED clients

\* esp_http_client_perform ends, by itself or because it was cancelled.
http_perform_ends(o) ==
    /\ op[o].worker = "perform"
    /\ \/ /\ Step(o, [op[o] EXCEPT !.worker = "cleanup", !.response = ~op[o].error /\ ~op[o].cancel,
                                   !.error = @ \/ op[o].cancel]) /\ UNCHANGED faults
       \/ Fault /\ Step(o, [op[o] EXCEPT !.worker = "cleanup", !.error = TRUE])
    /\ UNCHANGED clients

\* http_operation_record_client_cleanup: a refusal costs the response.
http_operation_cleanup_client(o) ==
    /\ op[o].worker = "cleanup"
    /\ \/ /\ Step(o, [op[o] EXCEPT !.worker = "publish", !.client = FALSE])
          /\ clients' = clients \ {o} /\ UNCHANGED faults
       \/ /\ Fault /\ Step(o, [op[o] EXCEPT !.worker = "publish", !.error = TRUE, !.response = FALSE])
          /\ UNCHANGED clients

\* http_future_worker publishes its result, then wakes the Future with the
\* runtime and the token it finds in the state.
http_future_publish(o) ==
    /\ op[o].worker = "publish"
    /\ Step(o, [op[o] EXCEPT !.worker = "wake", !.completed = TRUE])
    /\ UNCHANGED <<clients, faults>>
http_future_wake(o) ==
    /\ op[o].worker = "wake"
    /\ Step(o, [op[o] EXCEPT !.worker = "none"])
    /\ UNCHANGED <<clients, faults>>
-------------------------------------------------------------------------------
(* The end, on the runtime. *)

\* http_future_finish and http_future_destroy.
Result(o) == IF op[o].cancel THEN "cancelled" ELSE IF op[o].response THEN "response" ELSE "error"
http_future_destroy(o) ==
    /\ op[o].phase = "active" /\ op[o].completed
    /\ Teardown \/ op[o].worker = "none"
    /\ LET ended == [op EXCEPT ![o].result = Result(o)] IN
       \/ /\ op' = [Gone(ended, o) EXCEPT ![o].worker = op[o].worker]
          /\ active' = active - 1
          /\ clients' = clients \ {o} /\ UNCHANGED <<pending, faults>>
       \/ /\ op[o].client /\ Fault
          /\ op' = [ended EXCEPT ![o].phase = "pending", ![o].response = FALSE]
          /\ pending' = pending \union {o} /\ UNCHANGED <<active, clients>>
    /\ UNCHANGED sources

\* esp32_mquickjs_deinit_http_runtime, also the next context's init: the runtime
\* stays while a place is taken.
esp32_mquickjs_deinit_http_runtime ==
    /\ pending # {}
    /\ \E kept \in SUBSET pending :
        /\ Retry(kept) /\ op' = Collected(kept)
        /\ active' = active - Freed(kept)
        /\ faults' = faults + Cardinality(kept) /\ faults' <= MaxFaults
    /\ UNCHANGED sources

Next ==
    \/ \E o \in Ids : \/ http_future_prepare(o) \/ http_future_start(o) \/ http_future_cancel(o) \/ http_future_drop(o)
                      \/ http_operation_attach_client(o) \/ \E n \in Chunks : http_capture_append_body(o, n)
                      \/ http_perform_ends(o) \/ http_operation_cleanup_client(o)
                      \/ http_future_publish(o) \/ http_future_wake(o) \/ http_future_destroy(o)
    \/ esp32_mquickjs_deinit_http_runtime

Spec == Init /\ [][Next]_vars
-------------------------------------------------------------------------------
\* The places taken are those of requests that have a task or a client whose
\* clean-up is pending, never more than there are, and no client is lost.
CapacityExact ==
    /\ active = Cardinality({o \in Ids : op[o].started}) /\ active <= MaxActive
    /\ pending = {o \in Ids : op[o].phase = "pending"}
    /\ clients = {o \in Ids : op[o].client}

\* A request's state lives until its worker has done with it.
WorkerHoldsState == \A o \in Ids : op[o].worker # "none" => op[o].phase = "active"

\* A response is given only for a request that was neither cancelled nor cut
\* off and whose client is cleaned up; its body lies within its buffer.
ResponsesWhole ==
    \A o \in Ids : /\ op[o].body <= op[o].cap /\ op[o].cap <= BodyLimit
                   /\ op[o].response /\ op[o].completed => op[o].body = op[o].sent /\ ~op[o].client /\ ~op[o].error
                   /\ op[o].phase \in {"queued", "active"} => o \notin sources

HttpClientSafe == CapacityExact /\ WorkerHoldsState /\ ResponsesWhole
=============================================================================
