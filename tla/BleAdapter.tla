------------------------------ MODULE BleAdapter ------------------------------
(***************************************************************************)
(* The life of the BLE adapter (ble.c): open() up to the host's sync, the  *)
(* scanner and the advertiser with the identity their callbacks carry,     *)
(* close() and the adapter-wide clean-up that a lost handle asks for, each *)
(* with a worker that takes NimBLE down, and the end of the runtime.       *)
(***************************************************************************)
EXTENDS Naturals, FiniteSets

CONSTANTS
    Roles,       \* subset of {"scan", "advertise"}
    Kinds,       \* operations tried, besides open()
    Capacity,    \* of a scanner's pool and queue
    Overlap,     \* two clean-ups, or two closes of one handle, may wait for each other
    Timeouts,    \* operations whose Future may time out after it has started
    MaxOps, MaxEvents, MaxFaults    \* bounds

VARIABLES
    life, gen, port, host, synced,   \* s_ble
    role,        \* s_ble.scanner and s_ble.advertiser
    ident,       \* callback identity of each role, 0 when none is bound
    native,      \* identity the host's GAP procedure calls back with, 0 when it does not run
    cb,          \* the callback the host task is in
    op,          \* Futures, in the order they are captured
    job,         \* the workers that take NimBLE down: "close" and "orphan"
    orphan,      \* s_ble_orphan_close: requested, submitted
    held,        \* handles of the script, <<what, generation>>
    stolen,      \* history: a role was released for another one's close()
    events, faults

vars == <<life, gen, port, host, synced, role, ident, native, cb, op, job, orphan, held, stolen, events, faults>>

Ids == 1 .. MaxOps
NoRole == [allocated |-> FALSE, active |-> FALSE, gen |-> 0, pool |-> 0]
NoOp == [phase |-> "none", kind |-> "none", gen |-> 0, step |-> "none", error |-> FALSE, settled |-> FALSE]
NoCb == [role |-> "none", gen |-> 0, admitted |-> FALSE]
NoJob == [step |-> "none", error |-> FALSE]

Init ==
    /\ life = "closed" /\ gen = 0 /\ port = FALSE /\ host = FALSE /\ synced = FALSE
    /\ role = [r \in Roles |-> NoRole] /\ ident = [r \in Roles |-> 0] /\ native = [r \in Roles |-> 0]
    /\ cb = NoCb /\ op = [o \in Ids |-> NoOp] /\ job = [w \in {"close", "orphan"} |-> NoJob]
    /\ orphan = [requested |-> FALSE, submitted |-> FALSE] /\ held = {} /\ stolen = FALSE
    /\ events = 0 /\ faults = 0

Fault == faults < MaxFaults /\ faults' = faults + 1
Live(o) == op[o].phase \in {"queued", "active"}
Gone(f, o) == [f EXCEPT ![o] = [NoOp EXCEPT !.phase = "gone"]]
Lane(kind) == IF kind \in {"open", "close"} THEN "adapter" ELSE "gap"
First(o) == op[o].phase = "queued" /\ \A p \in 1 .. o - 1 : ~(Live(p) /\ Lane(op[p].kind) = Lane(op[o].kind))
Fresh(o) == op[o].phase = "none" /\ \A p \in 1 .. o - 1 : op[p].phase # "none"
Captured(o, kind, g) == op' = [op EXCEPT ![o] = [NoOp EXCEPT !.phase = "queued", !.kind = kind, !.gen = g]]
NoRequest == [requested |-> FALSE, submitted |-> FALSE]
\* ble_free_pools: callbacks are fenced and everything of the roles is freed.
ble_free_pools == role' = [r \in Roles |-> NoRole] /\ ident' = [r \in Roles |-> 0]
-------------------------------------------------------------------------------
(* ble_cleanup_native: stop_host, then deinit_port; a step that failed is tried *)
(* again by the next caller.  Callbacks run in the host task, so a stopped host *)
(* is in none. *)

ble_cleanup_native ==
    \/ /\ cb = NoCb /\ port' = FALSE /\ host' = FALSE /\ synced' = FALSE
       /\ native' = [r \in Roles |-> 0] /\ UNCHANGED faults
    \/ host /\ Fault /\ UNCHANGED <<port, host, synced, native>>
    \/ /\ port /\ Fault /\ cb = NoCb /\ host' = FALSE /\ synced' = FALSE
       /\ native' = [r \in Roles |-> 0] /\ UNCHANGED port
Down == ~port' /\ ~host'
-------------------------------------------------------------------------------
(* open() *)

ble_open_capture(o) ==
    /\ Fresh(o) /\ life = "closed"
    /\ gen' = gen + 1 /\ orphan' = NoRequest /\ ble_free_pools
    /\ \/ Captured(o, "open", gen + 1) /\ life' = "opening" /\ UNCHANGED faults
       \/ Fault /\ op' = Gone(op, o) /\ UNCHANGED life
    /\ UNCHANGED <<port, host, synced, native, cb, job, held, stolen, events>>

\* Start, and the poll that waits for the quiet time after the last deinit.
ble_open_start(o) ==
    /\ First(o) /\ op[o].kind = "open" /\ op[o].gen = gen /\ life = "opening"
    /\ op' = [op EXCEPT ![o].phase = "active", ![o].step = "waiting"]
    /\ UNCHANGED <<life, gen, port, host, synced, role, ident, native, cb, job, orphan, held, stolen, events, faults>>
ble_open_initialize(o) ==
    /\ op[o].phase = "active" /\ op[o].kind = "open" /\ op[o].step = "waiting"
    /\ \/ port' = TRUE /\ host' = TRUE /\ op' = [op EXCEPT ![o].step = "sync"] /\ UNCHANGED <<life, faults>>
       \/ /\ Fault /\ port' \in BOOLEAN      \* nimble_port_init, or its clean-up, failed
          /\ life' = "failed" /\ op' = [op EXCEPT ![o].step = "completed", ![o].error = TRUE] /\ UNCHANGED host
    /\ UNCHANGED <<gen, synced, role, ident, native, cb, job, orphan, held, stolen, events>>

\* The host task: sync tells the waiting open(), a reset only takes the flag back.
Waiting == {o \in Ids : op[o].kind = "open" /\ op[o].step = "sync"}
ble_on_sync ==
    /\ host /\ cb = NoCb
    /\ \E o \in Waiting :
        \/ synced' = TRUE /\ op' = [op EXCEPT ![o].step = "completed"] /\ UNCHANGED faults
        \/ Fault /\ synced' = FALSE /\ op' = [op EXCEPT ![o].step = "completed", ![o].error = TRUE]
    /\ UNCHANGED <<life, gen, port, host, role, ident, native, cb, job, orphan, held, stolen, events>>
ble_on_reset ==
    /\ host /\ synced /\ cb = NoCb /\ Fault /\ synced' = FALSE
    /\ UNCHANGED <<life, gen, port, host, role, ident, native, cb, op, job, orphan, held, stolen, events>>

Cancelled(o) == op[o].settled \/ op[o].error
ble_open_finish(o) ==
    /\ op[o].kind = "open" /\ op[o].step = "completed" /\ ~Cancelled(o) /\ synced
    /\ life' = "active" /\ held' = held \union {<<"adapter", gen>>} /\ op' = Gone(op, o)
    /\ UNCHANGED <<gen, port, host, synced, role, ident, native, cb, job, orphan, stolen, events, faults>>
\* What was not handed over is taken down: an error, a lost sync, no memory for
\* the object, a start refused or an open() cancelled before its turn.
ble_open_destroy(o) ==
    /\ op[o].kind = "open"
    /\ \/ op[o].step = "completed" /\ (Cancelled(o) \/ ~synced \/ faults < MaxFaults)
       \/ op[o].phase = "queued"
    /\ op' = Gone(op, o)
    /\ IF op[o].gen = gen
       THEN /\ ble_cleanup_native
            /\ IF Down THEN ble_free_pools /\ life' = "closed"
               ELSE life' = "failed" /\ UNCHANGED <<role, ident>>
       ELSE UNCHANGED <<life, port, host, synced, native, role, ident, faults>>
    /\ UNCHANGED <<gen, cb, job, orphan, held, stolen, events>>
-------------------------------------------------------------------------------
(* Scanner and advertiser. *)

Other(r) == {q \in Roles : q # r /\ role[q].active}
\* The object is made before its turn comes.
RoleCapture(o, r) ==
    /\ Fresh(o) /\ r \in Kinds /\ life = "active" /\ <<"adapter", gen>> \in held
    /\ ~role[r].allocated /\ Other(r) = {}
    /\ role' = [role EXCEPT ![r] = [NoRole EXCEPT !.allocated = TRUE, !.gen = o]]
    /\ Captured(o, r, o)
    /\ UNCHANGED <<life, gen, port, host, synced, ident, native, cb, job, orphan, held, stolen, events, faults>>

\* The identity is bound only when none is and no callback is inside.
CallbackIn(r) == cb.role = r /\ cb.admitted
RoleStart(o) ==
    /\ First(o) /\ op[o].kind \in Roles /\ life = "active"
    /\ LET r == op[o].kind IN
        /\ role[r].gen = op[o].gen /\ ident[r] = 0 /\ ~CallbackIn(r)
        /\ ident' = [ident EXCEPT ![r] = o] /\ native' = [native EXCEPT ![r] = o]
        /\ role' = [role EXCEPT ![r].active = TRUE]
    /\ op' = [op EXCEPT ![o].phase = "active", ![o].step = "completed"]
    /\ UNCHANGED <<life, gen, port, host, synced, cb, job, orphan, held, stolen, events, faults>>
RoleFinish(o) ==
    /\ op[o].kind \in Roles /\ op[o].step = "completed" /\ ~op[o].settled
    /\ held' = held \union {<<op[o].kind, op[o].gen>>} /\ op' = Gone(op, o)
    /\ UNCHANGED <<life, gen, port, host, synced, role, ident, native, cb, job, orphan, stolen, events, faults>>

\* ble_request_orphan_close, for the adapter that is current.
Request(g) == IF g = gen /\ life \in {"active", "failed"} THEN [orphan EXCEPT !.requested = TRUE] ELSE orphan
\* ble_release_scanner, ble_release_advertiser: the identity is withdrawn and the
\* callback inside is waited for.
Release(r) == ~CallbackIn(r) /\ role' = [role EXCEPT ![r] = NoRole] /\ ident' = [ident EXCEPT ![r] = 0]
\* Not started, refused by the host, without an object or
\* timed out. A procedure that cannot be stopped costs the whole adapter.
RoleDestroy(o) ==
    /\ op[o].kind \in Roles
    /\ \/ op[o].phase = "queued"
       \/ op[o].step = "completed" /\ (op[o].settled \/ faults < MaxFaults)
    /\ op' = Gone(op, o)
    /\ LET r == op[o].kind IN
        IF role[r].gen # op[o].gen THEN UNCHANGED <<role, ident, native, orphan, faults>>
        ELSE \/ Release(r) /\ native' = [native EXCEPT ![r] = 0] /\ UNCHANGED <<orphan, faults>>
             \/ role[r].active /\ Fault /\ orphan' = Request(gen) /\ UNCHANGED <<role, ident, native>>
    /\ UNCHANGED <<life, gen, port, host, synced, cb, job, held, stolen, events>>

CloseOf(r) == IF r = "scan" THEN "scan_close" ELSE "advertise_close"
RoleOf(kind) == CHOOSE r \in Roles : CloseOf(r) = kind
Closes == {CloseOf(r) : r \in Roles}
CloseCapture(o, r) ==
    /\ Fresh(o) /\ "role_close" \in Kinds /\ role[r].allocated /\ <<r, role[r].gen>> \in held
    /\ Overlap \/ \A p \in Ids : ~(Live(p) /\ op[p].kind = CloseOf(r))
    /\ Captured(o, CloseOf(r), role[r].gen)
    /\ UNCHANGED <<life, gen, port, host, synced, role, ident, native, cb, job, orphan, held, stolen, events, faults>>
CloseStart(o) ==
    /\ First(o) /\ op[o].kind \in Closes
    /\ LET r == RoleOf(op[o].kind) IN
       \/ /\ op' = [op EXCEPT ![o].phase = "active", ![o].step = "completed"]
          /\ role' = [role EXCEPT ![r].active = FALSE] /\ native' = [native EXCEPT ![r] = 0] /\ UNCHANGED faults
       \/ /\ role[r].active /\ Fault
          /\ op' = [op EXCEPT ![o].phase = "active", ![o].step = "completed", ![o].error = TRUE]
          /\ UNCHANGED <<role, native>>
    /\ UNCHANGED <<life, gen, port, host, synced, ident, cb, job, orphan, held, stolen, events>>
\* The scanner that is there is released, whose close() it was is not compared.
CloseFinish(o) ==
    /\ op[o].kind \in Closes /\ op[o].step = "completed" /\ op' = Gone(op, o)
    /\ LET r == RoleOf(op[o].kind) IN
        IF Cancelled(o) THEN UNCHANGED <<role, ident, held, stolen>>
        ELSE /\ Release(r) /\ held' = held \ {<<r, op[o].gen>>}
             /\ stolen' = (stolen \/ role[r].gen \notin {0, op[o].gen})
    /\ UNCHANGED <<life, gen, port, host, synced, native, cb, job, orphan, events, faults>>
\* The scanner's operations and the advertiser's.
Of(o, kind) == op[o].kind = kind
ble_scan_capture(o) == "scan" \in Roles /\ RoleCapture(o, "scan")
ble_advertise_capture(o) == "advertise" \in Roles /\ RoleCapture(o, "advertise")
ble_scan_start(o) == Of(o, "scan") /\ RoleStart(o)
ble_advertise_start(o) == Of(o, "advertise") /\ RoleStart(o)
ble_scan_finish(o) == Of(o, "scan") /\ RoleFinish(o)
ble_advertise_finish(o) == Of(o, "advertise") /\ RoleFinish(o)
ble_scan_destroy(o) == Of(o, "scan") /\ RoleDestroy(o)
ble_advertise_destroy(o) == Of(o, "advertise") /\ RoleDestroy(o)
ble_scanner_close_capture(o) == "scan" \in Roles /\ CloseCapture(o, "scan")
ble_advertiser_close_capture(o) == "advertise" \in Roles /\ CloseCapture(o, "advertise")
ble_scanner_close_start(o) == Of(o, "scan_close") /\ CloseStart(o)
ble_advertiser_close_start(o) == Of(o, "advertise_close") /\ CloseStart(o)
ble_scanner_close_finish(o) == Of(o, "scan_close") /\ CloseFinish(o)
ble_advertiser_close_finish(o) == Of(o, "advertise_close") /\ CloseFinish(o)
RoleOperation(o) ==
    \/ ble_scan_capture(o) \/ ble_scan_start(o) \/ ble_scan_finish(o) \/ ble_scan_destroy(o)
    \/ ble_scanner_close_capture(o) \/ ble_scanner_close_start(o) \/ ble_scanner_close_finish(o)
    \/ ble_advertise_capture(o) \/ ble_advertise_start(o) \/ ble_advertise_finish(o) \/ ble_advertise_destroy(o)
    \/ ble_advertiser_close_capture(o) \/ ble_advertiser_close_start(o) \/ ble_advertiser_close_finish(o)
-------------------------------------------------------------------------------
(* Callbacks of the host task carry the identity their procedure was started with. *)

CalledBack(r) ==
    /\ host /\ cb = NoCb /\ native[r] # 0 /\ events < MaxEvents /\ events' = events + 1
    /\ cb' = [role |-> r, gen |-> role[r].gen, admitted |-> native[r] = ident[r]]
    /\ UNCHANGED <<life, gen, port, host, synced, role, ident, native, op, job, orphan, held, stolen, faults>>
ble_scan_event_callback == "scan" \in Roles /\ CalledBack("scan")
ble_advertise_event_callback == "advertise" \in Roles /\ CalledBack("advertise")
\* A report takes a place of the pool; the end of the procedure clears active.
ble_gap_event_callback(complete) ==
    /\ cb.role \in Roles
    /\ LET r == cb.role IN
        /\ role' = IF ~cb.admitted THEN role
                   ELSE IF complete THEN [role EXCEPT ![r].active = FALSE]
                   ELSE IF role[r].active /\ role[r].pool < Capacity THEN [role EXCEPT ![r].pool = @ + 1] ELSE role
        /\ native' = IF complete THEN [native EXCEPT ![r] = 0] ELSE native
    /\ cb' = NoCb
    /\ UNCHANGED <<life, gen, port, host, synced, ident, op, job, orphan, held, stolen, events, faults>>
\* The script receives, or the queue drops: the place returns.
ble_scan_event_drop(r) ==
    /\ role[r].pool > 0 /\ role' = [role EXCEPT ![r].pool = @ - 1]
    /\ UNCHANGED <<life, gen, port, host, synced, ident, native, cb, op, job, orphan, held, stolen, events, faults>>
-------------------------------------------------------------------------------
(* close(), and the clean-up for lost handles. *)

ble_adapter_close_capture(o) ==
    /\ Fresh(o) /\ "close" \in Kinds /\ life \in {"active", "failed"} /\ <<"adapter", gen>> \in held
    /\ Overlap \/ (~orphan.requested /\ \A p \in Ids : ~(Live(p) /\ op[p].kind = "close"))
    /\ Captured(o, "close", gen)
    /\ UNCHANGED <<life, gen, port, host, synced, role, ident, native, cb, job, orphan, held, stolen, events, faults>>

\* Start does not look at the state again; whether the sources stop is not asked.
Stopping == \E kept \in SUBSET Roles : native' = [r \in Roles |-> IF r \in kept THEN native[r] ELSE 0]
ble_adapter_close_start(o) ==
    /\ First(o) /\ op[o].kind = "close"
    /\ Overlap \/ ~orphan.submitted
    /\ Stopping
    /\ \/ /\ life' = "closing" /\ op' = [op EXCEPT ![o].phase = "active", ![o].step = "worker"]
          /\ job' = [job EXCEPT !["close"] = [step |-> "stop", error |-> FALSE]] /\ UNCHANGED faults
       \/ Fault /\ life' = "failed" /\ op' = Gone(op, o) /\ UNCHANGED job
    /\ UNCHANGED <<gen, port, host, synced, role, ident, cb, orphan, held, stolen, events>>

\* ble_close_worker and ble_orphan_close_worker: pending connects, the host, the port.
WorkerEnds(w, bad) == job' = [job EXCEPT ![w] = [step |-> "done", error |-> bad]]
ble_wait_for_pending_connects(w) ==
    /\ job[w].step = "stop" /\ Fault /\ WorkerEnds(w, TRUE)
    /\ UNCHANGED <<life, gen, port, host, synced, role, ident, native, cb, op, orphan, held, stolen, events>>
ble_runtime_stop_host(w) ==
    /\ job[w].step = "stop"
    /\ \/ /\ cb = NoCb /\ host' = FALSE /\ synced' = FALSE /\ native' = [r \in Roles |-> 0]
          /\ job' = [job EXCEPT ![w].step = "deinit"] /\ UNCHANGED faults
       \/ host /\ Fault /\ WorkerEnds(w, TRUE) /\ UNCHANGED <<host, synced, native>>
    /\ UNCHANGED <<life, gen, port, role, ident, cb, op, orphan, held, stolen, events>>
ble_runtime_deinit_port(w) ==
    /\ job[w].step = "deinit"
    /\ \/ port' = FALSE /\ WorkerEnds(w, FALSE) /\ UNCHANGED faults
       \/ port /\ Fault /\ WorkerEnds(w, TRUE) /\ UNCHANGED port
    /\ UNCHANGED <<life, gen, host, synced, role, ident, native, cb, op, orphan, held, stolen, events>>

Closed == ble_free_pools /\ life' = "closed"
\* Without finish, after a timeout, the adapter is left as it is.
ble_adapter_close_finish(o) ==
    /\ op[o].kind = "close" /\ op[o].step = "worker" /\ job["close"].step = "done"
    /\ op' = Gone(op, o) /\ job' = [job EXCEPT !["close"] = NoJob]
    /\ IF op[o].settled THEN UNCHANGED <<life, role, ident, orphan, held>>
       ELSE IF job["close"].error THEN life' = "failed" /\ UNCHANGED <<role, ident, orphan, held>>
       ELSE Closed /\ orphan' = NoRequest /\ held' = held \ {<<"adapter", op[o].gen>>}
    /\ UNCHANGED <<gen, port, host, synced, native, cb, stolen, events, faults>>

\* ble_retain_owner: an operation keeps the handle it was called on.
Retained == {<<"adapter", gen>> : o \in {p \in Ids : Live(p) /\ op[p].kind \in Roles \union {"close"}}}
            \union {<<RoleOf(op[o].kind), op[o].gen>> : o \in {p \in Ids : Live(p) /\ op[p].kind \in Closes}}
\* Finalizers: a lost handle of the current adapter or of a role that is open.
js_ble_finalizer(h) ==
    /\ h \in held /\ h \notin Retained /\ held' = held \ {h}
    /\ orphan' = IF h[1] = "adapter" THEN Request(h[2])
                 ELSE IF role[h[1]].allocated /\ role[h[1]].gen = h[2] THEN Request(gen) ELSE orphan
    /\ UNCHANGED <<life, gen, port, host, synced, role, ident, native, cb, op, job, stolen, events, faults>>

\* ble_orphan_close_poller.
ble_begin_orphan_close ==
    /\ orphan.requested /\ ~orphan.submitted /\ life \notin {"closed", "closing"}
    /\ Overlap \/ \A o \in Ids : ~(Live(o) /\ op[o].kind = "close")
    /\ Stopping
    /\ \/ /\ life' = "closing" /\ orphan' = [orphan EXCEPT !.submitted = TRUE]
          /\ job' = [job EXCEPT !["orphan"] = [step |-> "stop", error |-> FALSE]] /\ UNCHANGED faults
       \/ Fault /\ life' = "failed" /\ UNCHANGED <<orphan, job>>
    /\ UNCHANGED <<gen, port, host, synced, role, ident, cb, op, held, stolen, events>>
ble_orphan_close_poller ==
    /\ orphan.requested
    /\ \/ life = "closed" /\ orphan' = NoRequest /\ UNCHANGED <<job, life, role, ident>>
       \/ /\ life # "closed" /\ orphan.submitted /\ job["orphan"].step = "done"
          /\ job' = [job EXCEPT !["orphan"] = NoJob]
          /\ IF job["orphan"].error
             THEN life' = "failed" /\ orphan' = [orphan EXCEPT !.submitted = FALSE] /\ UNCHANGED <<role, ident>>
             ELSE Closed /\ orphan' = NoRequest
    /\ UNCHANGED <<gen, port, host, synced, native, cb, op, held, stolen, events, faults>>
-------------------------------------------------------------------------------
\* An operation of which the Future timed out is destroyed when it completes; a
\* queued one is destroyed at once.
FutureTimeout(o) ==
    /\ op[o].phase = "active" /\ ~op[o].settled /\ op[o].kind \in Timeouts
    /\ op' = [op EXCEPT ![o].settled = TRUE]
    /\ UNCHANGED <<life, gen, port, host, synced, role, ident, native, cb, job, orphan, held, stolen, events, faults>>
ble_future_cancel(o) ==
    /\ op[o].phase = "queued" /\ op[o].kind \notin Roles \union {"open"} /\ op' = Gone(op, o)
    /\ UNCHANGED <<life, gen, port, host, synced, role, ident, native, cb, job, orphan, held, stolen, events, faults>>

\* The runtime ends when no Future is left: the worker is waited for, then
\* NimBLE goes or the runtime stays to try again.
esp32_mquickjs_deinit_ble_runtime ==
    /\ (\A o \in Ids : ~Live(o)) /\ life # "closed"
    /\ orphan.submitted => job["orphan"].step = "done"
    /\ ble_cleanup_native
    /\ IF Down THEN Closed /\ orphan' = NoRequest
       ELSE life' = "failed" /\ orphan' = [orphan EXCEPT !.submitted = FALSE] /\ UNCHANGED <<role, ident>>
    /\ job' = [job EXCEPT !["orphan"] = NoJob] /\ held' = {}
    /\ UNCHANGED <<gen, cb, op, stolen, events>>

Next ==
    \/ \E o \in Ids : \/ ble_open_capture(o) \/ ble_open_start(o) \/ ble_open_initialize(o) \/ ble_open_finish(o) \/ ble_open_destroy(o)
                      \/ RoleOperation(o)
                      \/ ble_adapter_close_capture(o) \/ ble_adapter_close_start(o) \/ ble_adapter_close_finish(o)
                      \/ FutureTimeout(o) \/ ble_future_cancel(o)
    \/ ble_on_sync \/ ble_on_reset
    \/ ble_scan_event_callback \/ ble_advertise_event_callback
    \/ \E r \in Roles : ble_scan_event_drop(r)
    \/ \E c \in BOOLEAN : ble_gap_event_callback(c)
    \/ \E w \in {"close", "orphan"} : ble_wait_for_pending_connects(w) \/ ble_runtime_stop_host(w) \/ ble_runtime_deinit_port(w)
    \/ \E h \in held : js_ble_finalizer(h)
    \/ ble_begin_orphan_close \/ ble_orphan_close_poller
    \/ esp32_mquickjs_deinit_ble_runtime

Spec == Init /\ [][Next]_vars
-------------------------------------------------------------------------------
\* A callback the identity admitted finds the scanner or advertiser it was
\* admitted for until it returns, with its pool.
CallbackHoldsRole ==
    /\ cb.admitted => role[cb.role].allocated /\ role[cb.role].gen = cb.gen
    /\ \A r \in Roles : role[r].pool <= Capacity /\ (~role[r].allocated => ident[r] = 0)

\* A closed adapter (esp32_mquickjs_ble_phy_idle) has no port, host, role or
\* worker, and one worker at a time takes NimBLE down.
ClosedIsQuiet ==
    /\ life = "closed" => /\ ~port /\ ~host /\ (\A r \in Roles : ~role[r].allocated /\ native[r] = 0)
                          /\ \A w \in {"close", "orphan"} : job[w].step = "none"
    /\ job["close"].step = "none" \/ job["orphan"].step = "none"
    /\ host => port

\* A closing adapter has a close() or a clean-up that will end its closing, and
\* an allocated role has an operation, a handle or a clean-up that will free it.
ClosingEnds == life = "closing" => \/ \E o \in Ids : op[o].step = "worker" /\ ~op[o].settled
                                   \/ orphan.submitted
RolesOwned ==
    \A r \in Roles : role[r].allocated /\ life = "active" =>
        \/ \E o \in Ids : Live(o) /\ op[o].kind = r /\ op[o].gen = role[r].gen
        \/ <<r, role[r].gen>> \in held
        \/ orphan.requested

BleAdapterSafe == CallbackHoldsRole /\ ClosedIsQuiet /\ ClosingEnds /\ RolesOwned /\ ~stolen
=============================================================================
