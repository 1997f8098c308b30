------------------------------ MODULE CsiSession -----------------------------
(***************************************************************************)
(* The lifecycle of the one Wi-Fi CSI session (wifi_csi.c): open, start,   *)
(* stop, close and the reaper on the runtime task, the driver's callback,  *)
(* and the background worker that finishes a stop when a callback is still *)
(* active.  Runtime and worker run the same finish_stop and finish_close;  *)
(* their accesses to the shared session interleave.  Every driver call may *)
(* fail.                                                                   *)
(***************************************************************************)
EXTENDS Integers

CONSTANTS Runtime, Worker

VARIABLES
    lifecycle,
    resources,          \* session->resources is not NULL
    pool,               \* the store has the pool it points to, or pointed to
    accepting,          \* the pool takes frames
    callbacks,          \* callbacks_active
    csi_enabled, callback_registered,
    promiscuous, radio, \* leases of the radio service
    queue,              \* session->event_queue is not NULL
    queue_retained,     \* the session's native retain of it
    close_requested, cleanup_scheduled,
    handle,             \* JavaScript holds the session object
    reaper_registered,  \* the runtime's reaper polls the session
    pc,                 \* where each task is
    op,                 \* the runtime's operation
    restarted           \* history: start() was accepted after a close was requested

flags == <<csi_enabled, callback_registered, promiscuous, radio, queue, queue_retained>>
vars == <<lifecycle, resources, pool, accepting, callbacks, flags, close_requested,
          cleanup_scheduled, handle, reaper_registered, pc, op, restarted>>
js == <<handle, reaper_registered>>

Closers == {Runtime, Worker}
Finishing == {"stop_check", "stop_release", "stop_store", "close_decide", "close_check",
              "close_radio", "close_store", "close_queue", "detach", "retire"}

TypeOK ==
    /\ lifecycle \in {"closed", "opening", "running", "stopping", "stopped", "faulted"}
    /\ resources \in BOOLEAN /\ pool \in BOOLEAN
    /\ accepting \in BOOLEAN /\ callbacks \in 0..1
    /\ \A k \in 1..6 : flags[k] \in BOOLEAN
    /\ close_requested \in BOOLEAN /\ cleanup_scheduled \in BOOLEAN
    /\ handle \in BOOLEAN /\ reaper_registered \in BOOLEAN
    /\ pc \in [Closers -> {"idle", "begin", "poll", "poll_callbacks", "after", "wait",
                         "unschedule"} \union Finishing]
    /\ op \in {"none", "stop", "close", "reap", "last_close", "last_reap"}
    /\ restarted \in BOOLEAN

Goto(t, label) == pc' = [pc EXCEPT ![t] = label]

Init ==
    /\ lifecycle = "closed" /\ resources = FALSE /\ pool = FALSE
    /\ accepting = FALSE /\ callbacks = 0
    /\ csi_enabled = FALSE /\ callback_registered = FALSE
    /\ promiscuous = FALSE /\ radio = FALSE
    /\ queue = FALSE /\ queue_retained = FALSE
    /\ close_requested = FALSE /\ cleanup_scheduled = FALSE
    /\ handle = FALSE /\ reaper_registered = FALSE
    /\ pc = [t \in Closers |-> "idle"] /\ op = "none" /\ restarted = FALSE
-------------------------------------------------------------------------------
(* Opening and starting, on the runtime task. *)

\* start_native: the callback is registered and CSI enabled, or some driver
\* call fails and what was done is rolled back as far as the driver allows.
StartNative(ok) ==
    IF ok
    THEN /\ csi_enabled' = TRUE /\ callback_registered' = TRUE /\ accepting' = TRUE
         /\ promiscuous' \in BOOLEAN
    ELSE /\ csi_enabled' = FALSE /\ accepting' = FALSE
         /\ callback_registered' \in BOOLEAN
         /\ promiscuous' \in BOOLEAN

\* Open refuses while a session, a cleanup worker or its pool is still there.
MayOpen == lifecycle = "closed" /\ ~cleanup_scheduled /\ ~resources

\* The session is zeroed, gets a pool, a queue and the radio, and starts; a
\* failure goes through close_native.
js_wifi_csi_open ==
    /\ pc[Runtime] = "idle" /\ MayOpen
    /\ resources' = TRUE /\ pool' = TRUE /\ callbacks' = 0 /\ cleanup_scheduled' = FALSE
    /\ restarted' = FALSE
    /\ \E ok \in BOOLEAN :
         /\ StartNative(ok)
         /\ IF ok
            THEN /\ handle' = TRUE /\ reaper_registered' = FALSE
                 /\ radio' = TRUE /\ queue' = TRUE /\ queue_retained' = TRUE
                 /\ lifecycle' = "running" /\ close_requested' = FALSE
                 /\ UNCHANGED <<pc, op>>
            ELSE /\ handle' = FALSE /\ reaper_registered' = FALSE
                 /\ radio' \in BOOLEAN /\ queue' = TRUE /\ queue_retained' = TRUE
                 /\ lifecycle' = "opening" /\ close_requested' = TRUE
                 /\ op' = "close" /\ Goto(Runtime, "begin")

js_wifi_csi_session_start ==
    /\ pc[Runtime] = "idle" /\ handle /\ lifecycle = "stopped"
    /\ restarted' = (restarted \/ close_requested)
    /\ \E ok \in BOOLEAN :
         (ok => radio) /\ StartNative(ok) /\ lifecycle' = IF ok THEN "running" ELSE "faulted"
    /\ UNCHANGED <<pool, js, resources, callbacks, radio, queue, queue_retained,
                   close_requested, cleanup_scheduled, pc, op>>
-------------------------------------------------------------------------------
(* The driver's callback. *)

rx_callback ==
    /\ callback_registered /\ callbacks = 0 /\ resources
    /\ callbacks' = 1
    /\ UNCHANGED <<pool, accepting, js, lifecycle, resources, flags, close_requested,
                   cleanup_scheduled, pc, op, restarted>>

\* A channel conflict or an exhausted identity faults a running session.
callback_leave ==
    /\ callbacks = 1
    /\ callbacks' = 0
    /\ \/ UNCHANGED <<accepting, lifecycle>>
       \/ /\ accepting' = FALSE
          /\ lifecycle' = IF lifecycle = "running" THEN "faulted" ELSE lifecycle
    /\ UNCHANGED <<pool, js, resources, flags, close_requested, cleanup_scheduled, pc, op,
                   restarted>>
-------------------------------------------------------------------------------
(* Stopping and closing, on the runtime task. *)

\* The last reference to the session object goes: request_reap.
js_wifi_csi_session_finalizer ==
    /\ pc[Runtime] = "idle" /\ handle
    /\ handle' = FALSE
    /\ reaper_registered' = (reaper_registered \/ lifecycle # "closed")
    /\ UNCHANGED <<pool, accepting, lifecycle, resources, callbacks, flags, close_requested,
                   cleanup_scheduled, pc, op, restarted>>

\* JavaScript stops or closes the session, or the reaper polls it.
Request(kind) ==
    /\ pc[Runtime] = "idle"
    /\ IF kind = "reap" THEN reaper_registered ELSE handle /\ lifecycle # "closed"
    /\ op' = kind
    /\ close_requested' = (close_requested \/ kind # "stop")
    /\ Goto(Runtime, "begin")
    /\ UNCHANGED <<pool, accepting, js, lifecycle, resources, callbacks, flags,
                   cleanup_scheduled, restarted>>

\* The operation ends.  A close that did not succeed leaves the rest to the
\* reaper; a reaper that finds the session closed leaves the registry.
Return(state) ==
    /\ Goto(Runtime, "idle")
    /\ op' = "none"
    /\ reaper_registered' =
         CASE op \in {"close", "last_close"} -> reaper_registered \/ state # "closed"
           [] op \in {"reap", "last_reap"} -> state # "closed" \/ cleanup_scheduled
           [] OTHER -> reaper_registered
    /\ UNCHANGED handle

\* begin_stop: the driver is told to stop; if it refuses, the session is
\* faulted and the operation fails.
begin_stop ==
    /\ pc[Runtime] = "begin"
    /\ IF \/ lifecycle \in {"closed", "stopping"}
          \/ lifecycle = "stopped" /\ ~promiscuous /\ ~csi_enabled /\ ~callback_registered
       THEN /\ Goto(Runtime, "poll")
            /\ UNCHANGED <<lifecycle, accepting, csi_enabled, callback_registered, op, js>>
       ELSE \E disabled, unregistered \in BOOLEAN :
              /\ accepting' = FALSE
              /\ csi_enabled' = (csi_enabled /\ ~disabled)
              /\ callback_registered' = (callback_registered /\ ~unregistered)
              /\ IF csi_enabled' \/ callback_registered'
                 THEN lifecycle' = "faulted" /\ Return(lifecycle')
                 ELSE lifecycle' = "stopping" /\ Goto(Runtime, "poll") /\ UNCHANGED <<op, js>>
    /\ UNCHANGED <<pool, resources, callbacks, promiscuous, radio, queue, queue_retained,
                   close_requested, cleanup_scheduled, restarted>>

\* poll_stop, first access: is there still a stop to finish?
poll_stop ==
    /\ pc[Runtime] = "poll"
    /\ Goto(Runtime, IF lifecycle = "stopping" THEN "poll_callbacks" ELSE "after")
    /\ UNCHANGED <<pool, accepting, js, lifecycle, resources, callbacks, flags, close_requested,
                   cleanup_scheduled, op, restarted>>

\* schedule_cleanup: the flag admits one worker; the worker's queue may be
\* full.
schedule_cleanup ==
    IF cleanup_scheduled
    THEN UNCHANGED cleanup_scheduled /\ Goto(Runtime, "after")
    ELSE \/ /\ cleanup_scheduled' = TRUE
            /\ pc' = [pc EXCEPT ![Runtime] = "after", ![Worker] = "wait"]
         \/ UNCHANGED cleanup_scheduled /\ Goto(Runtime, "after")

\* ... second access, through session->resources.
poll_stop_callbacks ==
    /\ pc[Runtime] = "poll_callbacks" /\ resources
    /\ IF callbacks = 0
       THEN Goto(Runtime, "stop_check") /\ UNCHANGED cleanup_scheduled
       ELSE schedule_cleanup
    /\ UNCHANGED <<pool, accepting, js, lifecycle, resources, callbacks, flags, close_requested,
                   op, restarted>>

\* stop_native loops until the session is no longer stopping and the worker
\* is gone; a reaper goes on at its next poll.  A close that is still due is
\* finished by one last finish_close.
stop_native ==
    /\ pc[Runtime] = "after"
    /\ \/ /\ op \in {"stop", "close"} /\ (lifecycle = "stopping" \/ cleanup_scheduled)
          /\ Goto(Runtime, "poll")
          /\ UNCHANGED <<op, js>>
       \/ /\ op \in {"stop", "close"} => lifecycle # "stopping" /\ ~cleanup_scheduled
          /\ IF op \in {"close", "reap"} /\ lifecycle = "stopped" /\ ~cleanup_scheduled
             THEN /\ Goto(Runtime, "close_check")
                  /\ op' = IF op = "close" THEN "last_close" ELSE "last_reap"
                  /\ UNCHANGED js
             ELSE Return(lifecycle)
    /\ UNCHANGED <<pool, accepting, lifecycle, resources, callbacks, flags, close_requested,
                   cleanup_scheduled, restarted>>
-------------------------------------------------------------------------------
(* finish_stop and finish_close, on either task. *)

\* Where a task continues when finish_stop and finish_close are over.
Finished(t) == IF t = Worker THEN "unschedule" ELSE "after"

\* The worker waits for the last callback.
cleanup_worker ==
    /\ pc[Worker] = "wait" /\ resources /\ callbacks = 0
    /\ Goto(Worker, "stop_check")
    /\ UNCHANGED <<pool, accepting, js, lifecycle, resources, callbacks, flags, close_requested,
                   cleanup_scheduled, op, restarted>>

\* No callback runs, and none can begin.
Quiet == callbacks = 0 /\ ~csi_enabled /\ ~callback_registered

finish_stop(t) ==
    /\ pc[t] = "stop_check" /\ resources
    /\ Goto(t, IF Quiet THEN "stop_release" ELSE "close_decide")
    /\ UNCHANGED <<pool, accepting, js, lifecycle, resources, callbacks, flags, close_requested,
                   cleanup_scheduled, op, restarted>>

\* Queued events are discarded and the promiscuous lease released, which may
\* fail; then the session is faulted.
FinishStopRelease(t) ==
    /\ pc[t] = "stop_release"
    /\ promiscuous' \in {FALSE, promiscuous}
    /\ IF promiscuous'
       THEN lifecycle' = "faulted" /\ Goto(t, "close_decide")
       ELSE UNCHANGED lifecycle /\ Goto(t, "stop_store")
    /\ UNCHANGED <<pool, accepting, js, resources, callbacks, csi_enabled, callback_registered,
                   radio,
                   queue, queue_retained, close_requested, cleanup_scheduled, op, restarted>>

FinishStopStore(t) ==
    /\ pc[t] = "stop_store"
    /\ lifecycle' = "stopped"
    /\ Goto(t, "close_decide")
    /\ UNCHANGED <<pool, accepting, js, resources, callbacks, flags, close_requested,
                   cleanup_scheduled, op, restarted>>

CloseDecide(t) ==
    /\ pc[t] = "close_decide"
    /\ Goto(t, IF close_requested THEN "close_check" ELSE Finished(t))
    /\ UNCHANGED <<pool, accepting, js, lifecycle, resources, callbacks, flags, close_requested,
                   cleanup_scheduled, op, restarted>>

\* finish_close requires a stopped session without leases or callbacks.
finish_close(t) ==
    /\ pc[t] = "close_check" /\ resources
    /\ Goto(t, IF Quiet /\ ~promiscuous /\ lifecycle = "stopped"
               THEN "close_radio" ELSE Finished(t))
    /\ UNCHANGED <<pool, accepting, js, lifecycle, resources, callbacks, flags, close_requested,
                   cleanup_scheduled, op, restarted>>

FinishCloseRadio(t) ==
    /\ pc[t] = "close_radio"
    /\ radio' \in {FALSE, radio}
    /\ IF radio' THEN lifecycle' = "faulted" /\ Goto(t, Finished(t))
       ELSE UNCHANGED lifecycle /\ Goto(t, "close_store")
    /\ UNCHANGED <<pool, accepting, js, resources, callbacks, csi_enabled, callback_registered,
                   promiscuous,
                   queue, queue_retained, close_requested, cleanup_scheduled, op, restarted>>

FinishCloseStore(t) ==
    /\ pc[t] = "close_store"
    /\ lifecycle' = "closed"
    /\ queue' = FALSE
    /\ Goto(t, IF queue THEN "close_queue" ELSE "detach")
    /\ UNCHANGED <<pool, accepting, js, resources, callbacks, csi_enabled, callback_registered,
                   promiscuous,
                   radio, queue_retained, close_requested, cleanup_scheduled, op, restarted>>

\* The queue is closed, discarded and the session's retain released.
FinishCloseQueue(t) ==
    /\ pc[t] = "close_queue"
    /\ queue_retained' = FALSE
    /\ Goto(t, "detach")
    /\ UNCHANGED <<pool, accepting, js, lifecycle, resources, callbacks, csi_enabled,
                   callback_registered,
                   promiscuous, radio, queue, close_requested, cleanup_scheduled, op, restarted>>

\* maybe_destroy_resources: one task takes the pool of a closed session ...
maybe_destroy_resources(t) ==
    /\ pc[t] = "detach"
    /\ IF resources /\ lifecycle = "closed"
       THEN resources' = FALSE /\ Goto(t, "retire")
       ELSE UNCHANGED resources /\ Goto(t, Finished(t))
    /\ UNCHANGED <<pool, accepting, js, lifecycle, callbacks, flags, close_requested,
                   cleanup_scheduled, op, restarted>>

\* ... and retires it, unless the store finds it accepting or a callback in
\* it: then the session keeps it.
StoreRetire(t) ==
    /\ pc[t] = "retire"
    /\ pool' = (accepting \/ callbacks # 0)
    /\ resources' = pool'
    /\ Goto(t, Finished(t))
    /\ UNCHANGED <<accepting, js, lifecycle, callbacks, flags, close_requested,
                   cleanup_scheduled, op, restarted>>

CleanupDone ==
    /\ pc[Worker] = "unschedule"
    /\ cleanup_scheduled' = FALSE
    /\ Goto(Worker, "idle")
    /\ UNCHANGED <<pool, accepting, js, lifecycle, resources, callbacks, flags, close_requested,
                   op, restarted>>
-------------------------------------------------------------------------------
Finish(t) ==
    \/ finish_stop(t) \/ FinishStopRelease(t) \/ FinishStopStore(t) \/ CloseDecide(t)
    \/ finish_close(t) \/ FinishCloseRadio(t) \/ FinishCloseStore(t)
    \/ FinishCloseQueue(t) \/ maybe_destroy_resources(t) \/ StoreRetire(t)

Next ==
    \/ js_wifi_csi_open \/ js_wifi_csi_session_start
    \/ \E kind \in {"stop", "close", "reap"} : Request(kind)
    \/ js_wifi_csi_session_finalizer
    \/ begin_stop \/ poll_stop \/ poll_stop_callbacks \/ stop_native
    \/ rx_callback \/ callback_leave
    \/ cleanup_worker \/ CleanupDone
    \/ \E t \in Closers : Finish(t)

Spec == Init /\ [][Next]_vars
-------------------------------------------------------------------------------
(* Properties *)

\* A callback inside the pool keeps it: no interleaving of the two cleanups
\* with a restart frees the pool under the driver.
CallbackKeepsPool == TypeOK /\ (callbacks > 0 => pool)

\* A session is zeroed by the next open only when it owns nothing any more:
\* no lease of the radio, no retain of its queue, no cleanup still running.  The
\* exception is a session that was started again while it was being closed.
Opens ==
    ~pool /\ pool' /\ ~restarted =>
        /\ ~callback_registered /\ ~radio /\ ~promiscuous /\ ~queue_retained
        /\ pc[Worker] = "idle"
NothingLostAtOpen == [][Opens]_vars
==============================================================================
