-------------------------------- MODULE EspNow -------------------------------
(***************************************************************************)
(* The one ESP-NOW session (espnow.c, espnow_tx_queue.c).  The runtime     *)
(* task opens it, sends through the transmit lane (one tracked send at a   *)
(* time), enqueues batches, recovers and closes it; the tx worker hands    *)
(* packets to the driver one at a time; the Wi-Fi task calls the send and  *)
(* receive callbacks; pool workers run the recovery of a timed out send,   *)
(* the explicit recovery and the cleanup.  Driver calls may fail, and the  *)
(* driver may never report a packet.                                       *)
(***************************************************************************)
EXTENDS Integers, Sequences, FiniteSets, SequencesExt

CONSTANTS
    Capacity,               \* packets of the transmit queue
    DropOldest,             \* the overflow policy is drop-oldest-batch
    Limits                  \* the bounds a behaviour may have: opens, sends, batches, faults

VARIABLES
    life,       \* lifecycle
    tx,         \* tx_state of the wireless core
    drv,        \* the driver: initialised, callbacks registered, packets in the air
    own,        \* what the session holds: storage, radio lease, power-save restore
    q,          \* the queue: pending packets, active packet, active batch, reserved batch
    qdone,      \* queued_send_completed: what completed the active packet
    active_send, pending_tracked_send,
    snd,        \* the Future of the transmit lane
    worker,     \* the tx worker: position, the send it holds, stop request
    cb, rx,     \* a send and a receive callback in progress
    recovery,   \* send_recovery_worker submitted
    rebuild,    \* recover_worker: position
    closer,     \* who runs finish_close, and where
    cleanup_scheduled, active_close, reaper_registered,
    handle,     \* JavaScript's session object
    n,          \* opens, sends, batches and faults so far, and their bounds
    hist        \* history: batches tried and batches evicted, whether a
                \* timeout left a callback registered or found a packet that the
                \* worker had not handed to the driver yet (stuck), whether a
                \* recovery and a close overlapped (revived)

queue == <<q, qdone>>
send == <<active_send, pending_tracked_send, snd>>
clean == <<closer, cleanup_scheduled, active_close, reaper_registered>>
vars == <<life, tx, drv, own, queue, send, worker, cb, rx, recovery, rebuild, clean,
          handle, n, hist>>

None == <<>>                         \* no packet
NoSend == 0
Rejected == <<"rejected">>           \* the driver refused the packet
\* A packet is <<batch, index, last of its batch>>; a tracked send is batch 0.
Tracked(id) == <<0, id, TRUE>>
callbacks_active == (IF cb = None THEN 0 ELSE 1) + (IF rx THEN 1 ELSE 0)
JsIdle == closer.by # "js" /\ q.reserved = <<>>
Closing == life = "closing" \/ cleanup_scheduled \/ reaper_registered

Init ==
    /\ life = "closed" /\ tx = "ready"
    /\ drv = [init |-> FALSE, recv |-> FALSE, send |-> FALSE, air |-> {}]
    /\ own = [storage |-> FALSE, lease |-> FALSE, power |-> 0, fault |-> FALSE]
    /\ q = [pending |-> <<>>, active |-> None, batch |-> 0, reserved |-> <<>>]
    /\ qdone = None
    /\ active_send = NoSend /\ pending_tracked_send = NoSend
    /\ snd = [live |-> FALSE, submitted |-> FALSE, completed |-> FALSE, timed |-> FALSE,
              recovering |-> FALSE, by |-> None]
    /\ worker = [at |-> "off", send |-> NoSend, stop |-> FALSE]
    /\ cb = None /\ rx = FALSE /\ recovery = FALSE /\ rebuild = "idle"
    /\ closer = [by |-> "none", at |-> "idle"]
    /\ cleanup_scheduled = FALSE /\ active_close = FALSE /\ reaper_registered = FALSE
    /\ handle = "none"
    /\ n \in [opens : {0}, sends : {0}, batches : {0}, faults : {0}, max : Limits]
    /\ hist = [started |-> {}, evicted |-> {}, stuck |-> FALSE, revived |-> FALSE]

\* The smallest bounds that matter: a session opened once that sends one tracked packet.
OneSend == {[opens |-> 1, sends |-> 1, batches |-> 0, faults |-> 0]}

\* A native call fails: at most n.max.faults of them do.
Fault == n.faults < n.max.faults /\ n' = [n EXCEPT !.faults = @ + 1]
-------------------------------------------------------------------------------
(* The wireless core's transmit gate. *)

tx_timeout(t) == IF t = "ready" THEN "timed_out" ELSE t
tx_begin_recovery(t) == IF t = "timed_out" THEN "recovering" ELSE t
tx_finish_recovery(t, ok) == IF t = "recovering" THEN (IF ok THEN "ready" ELSE "failed") ELSE t
-------------------------------------------------------------------------------
(* The transmit queue: every operation holds the session's lock. *)

Used == Len(q.pending) + (IF q.active = None THEN 0 ELSE 1)
\* Mutation: any waiting packet may be evicted.
Evictable_any(p) == TRUE
\* What evict_oldest_pending_batch may take: batches other than the active one.
Evictable(p) == p[1] # q.batch

\* The batches evicted for count packets: whole ones, oldest first, while there
\* is no room; none if evicting them all would not do.
EvictFor(count) ==
    {b \in {p[1] : p \in {x \in ToSet(q.pending) : Evictable(x)}} :
        Used - Cardinality({i \in DOMAIN q.pending : Evictable(q.pending[i]) /\ q.pending[i][1] < b})
          + count > Capacity}
Fits(count) ==
    Used - Cardinality({i \in DOMAIN q.pending : Evictable(q.pending[i])}) + count <= Capacity

espnow_enqueue ==
    /\ JsIdle /\ handle = "live" /\ life = "active" /\ n.batches < n.max.batches
    /\ \E count \in 1..Capacity :
         LET b == n.batches + 1
             s == EvictFor(count)
         IN
           /\ Fits(count) /\ (s = {} \/ DropOldest)
           /\ q' = [q EXCEPT !.pending = SelectSeq(@, LAMBDA p : p[1] \notin s),
                             !.reserved = [i \in 1..count |-> <<b, i, i = count>>]]
           /\ n' = [n EXCEPT !.batches = b]
           /\ hist' = [hist EXCEPT !.evicted = @ \union s]
    /\ UNCHANGED <<life, tx, drv, own, qdone, send, worker, cb, rx, recovery, rebuild,
                   clean, handle>>

\* The payloads are copied without the lock; then the batch is linked, or a
\* packet that no longer converts returns the reserved slots.
tx_queue_commit_batch ==
    /\ q.reserved # <<>>
    /\ \/ q' = [q EXCEPT !.pending = @ \o q.reserved, !.reserved = <<>>]
       \/ q' = [q EXCEPT !.reserved = <<>>]
    /\ UNCHANGED <<life, tx, drv, own, qdone, send, worker, cb, rx, recovery, rebuild,
                   clean, handle, n, hist>>

StartNext == [q EXCEPT !.active = Head(q.pending), !.pending = Tail(@), !.batch = Head(q.pending)[1]]
CompleteActive ==
    [q EXCEPT !.active = None,
              !.batch = IF q.active # None /\ q.active[3] THEN 0 ELSE @]
DiscardPending(x) == [x EXCEPT !.pending = <<>>]
-------------------------------------------------------------------------------
(* The tx worker. *)

\* esp_now_send of the worker's packet: accepted, or refused.
Transmit(p) ==
    \/ /\ drv.init /\ drv' = [drv EXCEPT !.air = @ \union {p}] /\ n' = n
       /\ worker' = [worker EXCEPT !.at = "loop", !.send = NoSend]
    \/ (IF drv.init THEN Fault ELSE n' = n) /\ drv' = drv
       /\ worker' = [worker EXCEPT !.at = "loop", !.send = NoSend]
Attempted(p) ==
    hist' = [hist EXCEPT !.started = IF p[1] = 0 THEN @ ELSE @ \union {p[1]}]

\* espnow_complete_queued_send
complete_queued_send ==
    /\ worker.at = "loop" /\ qdone # None
    /\ q' = CompleteActive /\ qdone' = None
    /\ UNCHANGED <<life, tx, drv, own, send, worker, cb, rx, recovery, rebuild, clean,
                   handle, n, hist>>

\* start_tracked_send claims the pending send unless a batch is under way.
start_tracked_send ==
    /\ worker.at = "loop" /\ qdone = None /\ q.active = None /\ ~worker.stop
    /\ life = "active" /\ tx = "ready" /\ active_send = NoSend
    /\ q.batch = 0 /\ pending_tracked_send # NoSend
    /\ active_send' = pending_tracked_send /\ pending_tracked_send' = NoSend
    /\ snd' = [snd EXCEPT !.submitted = TRUE]
    /\ worker' = [worker EXCEPT !.at = "tracked", !.send = pending_tracked_send]
    /\ UNCHANGED <<life, tx, drv, own, queue, cb, rx, recovery, rebuild, clean, handle, n, hist>>

\* The native call; a refusal completes the Future the worker still points to.
tracked_submit ==
    /\ worker.at = "tracked"
    /\ Transmit(Tracked(worker.send)) /\ Attempted(Tracked(worker.send))
    /\ IF drv' # drv THEN UNCHANGED <<active_send, snd>>
       ELSE /\ active_send' = NoSend
            /\ snd' = IF snd.live /\ worker.send = n.sends THEN [snd EXCEPT !.completed = TRUE] ELSE snd
    /\ UNCHANGED <<life, tx, own, queue, pending_tracked_send, cb, rx, recovery, rebuild,
                   clean, handle>>

start_queued_send ==
    /\ worker.at = "loop" /\ qdone = None /\ q.active = None /\ ~worker.stop
    /\ life = "active" /\ tx = "ready" /\ active_send = NoSend
    /\ ~(q.batch = 0 /\ pending_tracked_send # NoSend) /\ q.pending # <<>>
    /\ q' = StartNext
    /\ worker' = [worker EXCEPT !.at = "queued"]
    /\ UNCHANGED <<life, tx, drv, own, qdone, send, cb, rx, recovery, rebuild, clean,
                   handle, n, hist>>

queued_submit ==
    /\ worker.at = "queued" /\ Transmit(q.active) /\ Attempted(q.active)
    /\ qdone' = IF drv' # drv THEN None ELSE Rejected
    /\ UNCHANGED <<life, tx, own, q, send, cb, rx, recovery, rebuild, clean, handle>>

\* Both callbacks, or one, or none of them can be unregistered.
Unregister ==
    \/ drv' = [drv EXCEPT !.recv = FALSE, !.send = FALSE] /\ n' = n
    \/ /\ \/ drv.recv /\ drv' = [drv EXCEPT !.send = FALSE]
          \/ drv.send /\ drv' = [drv EXCEPT !.recv = FALSE]
       /\ Fault
Deinit ==
    \/ drv' = [drv EXCEPT !.init = FALSE, !.air = {}] /\ n' = n
    \/ drv.init /\ drv' = drv /\ Fault

\* fail_queued_timeout, until it waits for the callbacks.
fail_queued_timeout ==
    /\ worker.at = "loop" /\ qdone = None /\ q.active # None
    /\ tx' = tx_begin_recovery(tx_timeout(tx)) /\ life' = "failed" /\ Unregister
    /\ worker' = [worker EXCEPT !.at = "timeout"]
    /\ hist' = [hist EXCEPT !.stuck = @ \/ drv'.send \/ drv'.recv, !.revived = @ \/ Closing]
    /\ UNCHANGED <<own, queue, send, cb, rx, recovery, rebuild, clean, handle>>

queued_timeout_cleanup ==
    /\ worker.at = "timeout"
    /\ IF drv.recv \/ drv.send THEN UNCHANGED <<drv, n>> ELSE callbacks_active = 0 /\ Deinit
    /\ q' = DiscardPending(CompleteActive) /\ qdone' = None
    /\ tx' = tx_finish_recovery(tx, FALSE)
    /\ worker' = [worker EXCEPT !.at = "loop"]
    /\ UNCHANGED <<life, own, send, cb, rx, recovery, rebuild, clean, handle, hist>>

worker_exit ==
    /\ worker.at = "loop" /\ worker.stop /\ qdone = None /\ q.active = None /\ active_send = NoSend
    /\ worker' = [worker EXCEPT !.at = "exited"]
    /\ UNCHANGED <<life, tx, drv, own, queue, send, cb, rx, recovery, rebuild, clean,
                   handle, n, hist>>
-------------------------------------------------------------------------------
(* The driver's callbacks. *)

\* send_callback loads active_send; completed is still false.  cb remembers
\* the packet and the send it found.
send_callback ==
    /\ cb = None /\ drv.send
    /\ \E p \in drv.air :
         /\ drv' = [drv EXCEPT !.air = @ \ {p}]
         /\ cb' = <<p, IF active_send # NoSend /\ ~snd.completed THEN active_send ELSE NoSend>>
    /\ UNCHANGED <<life, tx, own, queue, send, worker, rx, recovery, rebuild, clean, handle, n, hist>>

\* It settles that send, or else the active packet of the queue, and leaves.
send_callback_settle ==
    /\ cb # None /\ cb' = None
    /\ IF cb[2] # NoSend
       THEN /\ snd' = IF cb[2] = n.sends THEN [snd EXCEPT !.completed = TRUE, !.by = cb[1]] ELSE snd
            /\ active_send' = NoSend /\ UNCHANGED qdone
       ELSE /\ qdone' = IF q.active # None THEN cb[1] ELSE qdone
            /\ UNCHANGED <<active_send, snd>>
    /\ UNCHANGED <<life, tx, drv, own, q, pending_tracked_send, worker, rx, recovery, rebuild,
                   clean, handle, n, hist>>

receive_callback ==
    /\ ~rx /\ drv.recv /\ life = "active" /\ rx' = TRUE
    /\ UNCHANGED <<life, tx, drv, own, queue, send, worker, cb, recovery, rebuild, clean,
                   handle, n, hist>>

receive_callback_leave ==
    /\ rx /\ rx' = FALSE
    /\ UNCHANGED <<life, tx, drv, own, queue, send, worker, cb, recovery, rebuild, clean,
                   handle, n, hist>>

\* The driver never reports the packet.
PacketLost ==
    /\ \E p \in drv.air : drv' = [drv EXCEPT !.air = @ \ {p}]
    /\ UNCHANGED <<life, tx, own, queue, send, worker, cb, rx, recovery, rebuild, clean,
                   handle, n, hist>>
-------------------------------------------------------------------------------
(* Opening, sending and controlling, on the runtime task. *)

closed_and_quiescent ==
    life = "closed" /\ ~cleanup_scheduled /\ ~active_close /\ ~reaper_registered

\* espnow_request_reap
Reap == reaper_registered' = (reaper_registered \/ life # "closed")

\* open_capture reserves the session; storage, queue and lease may be refused,
\* which leaves them to close_native.
open_capture ==
    /\ JsIdle /\ closed_and_quiescent /\ handle = "none" /\ n.opens < n.max.opens
    /\ life' = "opening" /\ tx' = "ready"
    /\ own' \in [storage : {TRUE}, lease : BOOLEAN, power : {0}, fault : {FALSE}]
    /\ q' = [q EXCEPT !.batch = 0] /\ qdone' = None
    /\ worker' = [at |-> "off", send |-> NoSend, stop |-> FALSE]
    /\ handle' = IF own'.lease THEN "opening" ELSE "failed"
    /\ n' = [n EXCEPT !.opens = @ + 1]
    /\ UNCHANGED <<drv, send, cb, rx, recovery, rebuild, clean, hist>>

\* open_initialize: driver, callbacks, peers, power save and the tx worker, in
\* this order, up to the first call that fails.
open_initialize ==
    /\ JsIdle /\ handle = "opening" /\ life = "opening"
    /\ \/ /\ drv' = [drv EXCEPT !.init = TRUE, !.recv = TRUE, !.send = TRUE]
          /\ \E power \in {0, 1} : own' = [own EXCEPT !.power = power]
          /\ worker' = [worker EXCEPT !.at = "loop"]
          /\ life' = "active" /\ handle' = "live" /\ n' = n
       \/ /\ Fault /\ life' = "failed" /\ handle' = "failed"
          /\ \E init, recv, snd_, power, task \in BOOLEAN :
               /\ (task => power) /\ (power => snd_) /\ (snd_ => recv) /\ (recv => init)
               /\ drv' = [drv EXCEPT !.init = init, !.recv = recv, !.send = snd_]
               /\ own' = [own EXCEPT !.power = IF power THEN 1 ELSE 0]
               /\ worker' = [worker EXCEPT !.at = IF task THEN "loop" ELSE "off"]
    /\ UNCHANGED <<tx, queue, send, cb, rx, recovery, rebuild, clean, hist>>

\* send_start: the lane admits one send at a time.
send_start ==
    /\ JsIdle /\ handle = "live" /\ life = "active" /\ tx = "ready"
    /\ ~snd.live /\ n.sends < n.max.sends /\ pending_tracked_send = NoSend
    /\ n' = [n EXCEPT !.sends = @ + 1] /\ pending_tracked_send' = n.sends + 1
    /\ snd' = [live |-> TRUE, submitted |-> FALSE, completed |-> FALSE, timed |-> FALSE,
               recovering |-> FALSE, by |-> None]
    /\ UNCHANGED <<life, tx, drv, own, queue, active_send, worker, cb, rx, recovery, rebuild,
                   clean, handle, hist>>

\* send_poll is READY; send_finish and send_destroy.
send_finish ==
    /\ JsIdle /\ snd.live /\ snd.completed /\ ~snd.recovering
    /\ snd' = [snd EXCEPT !.live = FALSE]
    /\ active_send' = IF active_send = n.sends THEN NoSend ELSE active_send
    /\ pending_tracked_send' = IF pending_tracked_send = n.sends THEN NoSend ELSE pending_tracked_send
    /\ UNCHANGED <<life, tx, drv, own, queue, worker, cb, rx, recovery, rebuild, clean, handle, n, hist>>

\* send_on_timeout of a send the worker has not claimed takes it back.
send_timeout_pending ==
    /\ JsIdle /\ snd.live /\ ~snd.timed /\ pending_tracked_send = n.sends
    /\ pending_tracked_send' = NoSend
    /\ snd' = [snd EXCEPT !.timed = TRUE]
    /\ UNCHANGED <<life, tx, drv, own, queue, active_send, worker, cb, rx, recovery, rebuild,
                   clean, handle, n, hist>>

\* begin_timeout_recovery of a claimed send, if the transmit gate lets it.
begin_timeout_recovery ==
    /\ JsIdle /\ snd.live /\ ~snd.timed /\ pending_tracked_send # n.sends
    /\ IF tx = "ready"
       THEN /\ tx' = tx_begin_recovery(tx_timeout(tx)) /\ life' = "failed"
            /\ active_send' = NoSend /\ Unregister
            /\ snd' = [snd EXCEPT !.timed = TRUE, !.recovering = TRUE]
            /\ recovery' = TRUE
            /\ hist' = [hist EXCEPT !.stuck = @ \/ drv'.send \/ drv'.recv
                                                 \/ worker.at \in {"tracked", "queued"},
                                   !.revived = @ \/ Closing]
       ELSE /\ snd' = [snd EXCEPT !.timed = TRUE]
            /\ UNCHANGED <<tx, life, drv, active_send, recovery, n, hist>>
    /\ UNCHANGED <<own, queue, pending_tracked_send, worker, cb, rx, rebuild, clean, handle>>

\* send_recovery_worker: it waits for the callbacks only when both are
\* unregistered, and otherwise leaves the driver alone.
RecoveryMayRun == (drv.recv \/ drv.send) \/ callbacks_active = 0
send_recovery_worker ==
    /\ recovery /\ RecoveryMayRun
    /\ IF drv.recv \/ drv.send THEN UNCHANGED <<drv, n>> ELSE Deinit
    /\ active_send' = NoSend /\ life' = "failed"
    /\ tx' = tx_finish_recovery(tx, FALSE)
    /\ snd' = [snd EXCEPT !.completed = TRUE, !.recovering = FALSE]
    /\ recovery' = FALSE
    /\ UNCHANGED <<own, queue, pending_tracked_send, worker, cb, rx, rebuild, clean, handle, hist>>

\* setPowerSave: refused before any change, done, or uncertain, which only close repairs.
set_power_save ==
    /\ JsIdle /\ handle = "live" /\ life = "active" /\ ~own.fault
    /\ \/ \E power \in {0, 1} : own' = [own EXCEPT !.power = power] /\ UNCHANGED <<life, n>>
       \/ own' = [own EXCEPT !.power = 1, !.fault = TRUE] /\ life' = "failed" /\ Fault
    /\ UNCHANGED <<tx, drv, queue, send, worker, cb, rx, recovery, rebuild, clean, handle, hist>>

recover_start ==
    /\ JsIdle /\ handle = "live" /\ rebuild = "idle"
    /\ life = "failed" /\ tx = "failed" /\ ~own.fault /\ ~active_close
    /\ tx' = "recovering" /\ rebuild' = "queued"
    /\ hist' = [hist EXCEPT !.revived = @ \/ Closing \/ worker.stop]
    /\ UNCHANGED <<life, drv, own, queue, send, worker, cb, rx, recovery, clean, handle, n>>

\* recover_worker: restore_native_session refuses unless everything is undone;
\* a failed rebuild is undone by cleanup_failed_restore, as far as it goes.
RestoreAllowed == ~(own.fault \/ drv.init \/ drv.recv \/ drv.send)
restore_native_session ==
    /\ rebuild = "queued"
    /\ \/ /\ RestoreAllowed
          /\ drv' = [drv EXCEPT !.init = TRUE, !.recv = TRUE, !.send = TRUE]
          /\ rebuild' = "restored" /\ n' = n
       \/ ~RestoreAllowed /\ rebuild' = "undo" /\ UNCHANGED <<drv, n>>
       \/ /\ RestoreAllowed /\ Fault /\ rebuild' = "undo"
          /\ \E init, recv, snd_ \in BOOLEAN :
               /\ (snd_ => recv) /\ (recv => init)
               /\ drv' = [drv EXCEPT !.init = init, !.recv = recv, !.send = snd_]
    /\ UNCHANGED <<life, tx, own, queue, send, worker, cb, rx, recovery, clean, handle, hist>>

cleanup_failed_restore ==
    /\ rebuild \in {"undo", "drain"}
    /\ \/ rebuild = "undo" /\ Unregister
          /\ rebuild' = IF drv'.recv \/ drv'.send THEN "failed" ELSE "drain"
       \/ rebuild = "drain" /\ callbacks_active = 0 /\ Deinit /\ rebuild' = "failed"
    /\ UNCHANGED <<life, tx, own, queue, send, worker, cb, rx, recovery, clean, handle, hist>>

recover_finish ==
    /\ rebuild \in {"restored", "failed"}
    /\ tx' = tx_finish_recovery(tx, rebuild = "restored")
    /\ life' = IF rebuild = "restored" THEN "active" ELSE "failed"
    /\ rebuild' = "idle"
    /\ UNCHANGED <<drv, own, queue, send, worker, cb, rx, recovery, clean, handle, n, hist>>
-------------------------------------------------------------------------------
(* Closing: by close(), by the reaper, or by what a failed open leaves. *)

\* begin_close: nothing more is accepted, a pending send fails, the worker stops.
BeginClose ==
    IF life \in {"closed", "closing"} THEN UNCHANGED <<life, q, pending_tracked_send, snd, worker, hist>>
    ELSE /\ life' = "closing"
         /\ q' = DiscardPending(q)
         /\ pending_tracked_send' = NoSend
         /\ snd' = IF pending_tracked_send = NoSend THEN snd ELSE [snd EXCEPT !.completed = TRUE]
         /\ worker' = [worker EXCEPT !.stop = TRUE]
         /\ hist' = [hist EXCEPT !.revived = @ \/ recovery \/ rebuild # "idle" \/ worker.at = "timeout"]

\* close() hands the cleanup to a worker; another cleaner or a full worker
\* queue leaves it to the reaper.
session_close ==
    /\ JsIdle /\ handle = "live" /\ life \in {"active", "failed", "closing"} /\ rebuild = "idle"
    /\ IF cleanup_scheduled
       THEN /\ Reap
            /\ UNCHANGED <<life, q, pending_tracked_send, snd, worker, closer,
                           cleanup_scheduled, active_close, hist>>
       ELSE /\ BeginClose
            /\ \/ /\ closer' = [by |-> "worker", at |-> "begin"]
                  /\ cleanup_scheduled' = TRUE /\ active_close' = TRUE
                  /\ UNCHANGED reaper_registered
               \/ Reap /\ UNCHANGED <<closer, cleanup_scheduled, active_close>>
    /\ UNCHANGED <<tx, drv, own, qdone, active_send, cb, rx, recovery, rebuild, handle, n>>

\* The event queue is closed, or the session object is collected.
request_reap ==
    /\ JsIdle /\ handle = "live"
    /\ \/ life # "closing" /\ handle' = handle
       \/ handle' = "none"
    /\ Reap
    /\ UNCHANGED <<life, tx, drv, own, queue, send, worker, cb, rx, recovery, rebuild,
                   closer, cleanup_scheduled, active_close, n, hist>>

\* close_native, from the reaper or from a failed open.
close_native ==
    /\ JsIdle /\ life # "closed" /\ ~active_close /\ ~cleanup_scheduled
    /\ reaper_registered \/ handle = "failed"
    /\ BeginClose
    /\ cleanup_scheduled' = TRUE /\ closer' = [by |-> "js", at |-> "task"]
    /\ handle' = IF handle = "failed" THEN "none" ELSE handle
    /\ UNCHANGED <<tx, drv, own, qdone, active_send, cb, rx, recovery, rebuild, active_close,
                   reaper_registered, n>>

\* espnow_reap finds the session closed; a session object with this generation
\* is of no more use.
reap_done ==
    /\ JsIdle /\ life = "closed" /\ (reaper_registered \/ handle = "live")
    /\ reaper_registered' = FALSE /\ handle' = "none"
    /\ UNCHANGED <<life, tx, drv, own, queue, send, worker, cb, rx, recovery, rebuild,
                   closer, cleanup_scheduled, active_close, n, hist>>

\* close_worker begins the close again and waits for the tx worker.
close_worker ==
    /\ closer.by = "worker" /\ closer.at \in {"begin", "exit"}
    /\ \/ closer.at = "begin" /\ BeginClose /\ closer' = [closer EXCEPT !.at = "exit"]
       \/ /\ closer.at = "exit" /\ worker.at \in {"off", "exited"}
          /\ closer' = [closer EXCEPT !.at = "task"]
          /\ UNCHANGED <<life, q, pending_tracked_send, snd, worker, hist>>
    /\ UNCHANGED <<tx, drv, own, qdone, active_send, cb, rx, recovery, rebuild,
                   cleanup_scheduled, active_close, reaper_registered, handle, n>>

\* finish_close stops: the runtime leaves it to the reaper and to a background
\* worker if one is free, a worker answers close() and ends.
CloseFails ==
    /\ active_close' = FALSE
    /\ reaper_registered' = (reaper_registered \/ closer.by = "js" \/ active_close)
    /\ \/ /\ closer.by = "js"
          /\ closer' = [by |-> "worker", at |-> "begin"] /\ cleanup_scheduled' = TRUE
       \/ closer' = [by |-> "none", at |-> "idle"] /\ cleanup_scheduled' = FALSE
CloseGoesOn(at) ==
    closer' = [closer EXCEPT !.at = at] /\ UNCHANGED <<cleanup_scheduled, active_close, reaper_registered>>

\* finish_close up to the drain: the tx worker is deleted once it has exited,
\* and the callbacks are unregistered one after the other.
finish_close_detach ==
    /\ closer.at \in {"task", "recv", "send"}
    /\ \/ /\ closer.at = "task" /\ worker.at \notin {"off", "exited"}
          /\ CloseFails /\ UNCHANGED <<worker, drv, n>>
       \/ /\ closer.at = "task" /\ worker.at \in {"off", "exited"}
          /\ worker' = [worker EXCEPT !.at = "off"]
          /\ CloseGoesOn("recv") /\ UNCHANGED <<drv, n>>
       \/ /\ closer.at = "recv"
          /\ \/ drv' = [drv EXCEPT !.recv = FALSE] /\ n' = n /\ CloseGoesOn("send")
             \/ drv.recv /\ drv' = drv /\ Fault /\ CloseFails
          /\ UNCHANGED worker
       \/ /\ closer.at = "send"
          /\ \/ drv' = [drv EXCEPT !.send = FALSE] /\ n' = n /\ CloseGoesOn("drain")
             \/ drv.send /\ drv' = drv /\ Fault /\ CloseFails
          /\ UNCHANGED worker
    /\ UNCHANGED <<life, tx, own, queue, send, cb, rx, recovery, rebuild, handle, hist>>

\* The worker waits for the callbacks, the runtime does not.
Drained == callbacks_active = 0
finish_close_drain ==
    /\ closer.at = "drain"
    /\ \/ Drained /\ CloseGoesOn("power")
       \/ ~Drained /\ closer.by = "js" /\ CloseFails
    /\ UNCHANGED <<life, tx, drv, own, queue, send, worker, cb, rx, recovery, rebuild,
                   handle, n, hist>>

\* The wake window and the interval are restored, then the driver and the
\* radio lease go; what succeeded is not repeated.
finish_close_release ==
    /\ closer.at \in {"power", "deinit", "radio"}
    /\ \/ /\ closer.at = "power" /\ UNCHANGED drv
          /\ \/ own' = [own EXCEPT !.power = 0] /\ n' = n /\ CloseGoesOn("deinit")
             \/ own.power = 1 /\ \E p \in {1, 2} : own' = [own EXCEPT !.power = p]
                /\ Fault /\ CloseFails
       \/ /\ closer.at = "deinit" /\ UNCHANGED own /\ Deinit
          /\ IF n' = n THEN CloseGoesOn("radio") ELSE CloseFails
       \/ /\ closer.at = "radio" /\ UNCHANGED drv
          /\ \/ own' = [own EXCEPT !.lease = FALSE] /\ n' = n /\ CloseGoesOn("reset")
             \/ own.lease /\ own' = own /\ Fault /\ CloseFails
    /\ UNCHANGED <<life, tx, queue, send, worker, cb, rx, recovery, rebuild, handle, hist>>

\* reset_session_storage and the end of the close.
finish_close_reset ==
    /\ closer.at = "reset"
    /\ own' = [own EXCEPT !.storage = FALSE]
    /\ q' = [q EXCEPT !.pending = <<>>, !.active = None, !.batch = 0]
    /\ active_send' = NoSend /\ pending_tracked_send' = NoSend
    /\ tx' = "ready" /\ life' = "closed"
    /\ closer' = [by |-> "none", at |-> "idle"]
    /\ cleanup_scheduled' = FALSE /\ active_close' = FALSE
    /\ handle' = IF active_close THEN "none" ELSE handle
    /\ UNCHANGED <<drv, qdone, snd, worker, cb, rx, recovery, rebuild, reaper_registered, n, hist>>
-------------------------------------------------------------------------------
Worker == \/ complete_queued_send \/ start_tracked_send \/ tracked_submit
          \/ start_queued_send \/ queued_submit \/ fail_queued_timeout
          \/ queued_timeout_cleanup \/ worker_exit
Callbacks == send_callback_settle \/ receive_callback_leave
PoolWorkers == \/ send_recovery_worker \/ restore_native_session \/ cleanup_failed_restore
               \/ recover_finish
Cleaners == \/ close_native \/ reap_done \/ close_worker \/ finish_close_detach
            \/ finish_close_drain \/ finish_close_release \/ finish_close_reset
Calls == \/ open_capture \/ espnow_enqueue \/ send_start \/ set_power_save
         \/ recover_start \/ session_close \/ request_reap
\* Once a recovery and a close have overlapped the script calls nothing more.
Scripts == ~hist.revived /\ Calls
Scheduler == open_initialize \/ tx_queue_commit_batch \/ send_finish
Deadline == send_timeout_pending \/ begin_timeout_recovery
Driver == send_callback \/ receive_callback \/ PacketLost
Next == \/ Worker \/ Callbacks \/ PoolWorkers \/ Cleaners
        \/ Scripts \/ Scheduler \/ Deadline \/ Driver

Weak(k) == \/ k = 1 /\ Worker
           \/ k = 2 /\ Callbacks
           \/ k = 3 /\ PoolWorkers
           \/ k = 4 /\ Cleaners
Strong(k) == (k = 1 /\ Scheduler) \/ (k = 2 /\ Deadline)
Fairness == (\A k \in 1 .. 4 : WF_vars(Weak(k))) /\ \A k \in 1 .. 2 : SF_vars(Strong(k))

Spec == Init /\ [][Next]_vars
FairSpec == Spec /\ Fairness
-------------------------------------------------------------------------------
(* Properties. *)

TypeOK ==
    /\ life \in {"closed", "opening", "active", "closing", "failed"}
    /\ tx \in {"ready", "timed_out", "recovering", "failed"}
    /\ active_send \in 0..n.max.sends /\ pending_tracked_send \in 0..n.max.sends
    /\ Len(q.pending) + Len(q.reserved) <= Capacity
    /\ worker.at \in {"off", "loop", "tracked", "queued", "timeout", "exited"}

\* A completion belongs to the packet it completes: a late callback never
\* settles another send, and never the next packet of the queue.
OwnCompletion ==
    ~hist.stuck => /\ snd.by # None => snd.by = Tracked(n.sends)
                   /\ qdone \notin {None, Rejected} => q.active = qdone

\* drop-oldest-batch evicts whole batches that have not started.
EvictsOnlyUnstarted == hist.started \intersect hist.evicted = {}

\* While a callback uses the session its storage is there, and a callback that
\* found a send finds it alive, unless the driver would not unregister the
\* callbacks of a send that timed out.
CallbacksSafe ==
    /\ rx /\ ~hist.revived => own.storage
    /\ cb # None /\ cb[2] # NoSend /\ ~hist.stuck => snd.live /\ cb[2] = n.sends

\* A closed session has nothing registered and holds nothing.
ClosedIsReleased ==
    life = "closed" /\ ~hist.revived =>
                       /\ ~drv.init /\ ~drv.recv /\ ~drv.send /\ drv.air = {}
                       /\ ~own.storage /\ ~own.lease /\ own.power = 0
                       /\ worker.at \in {"off", "exited"}

NowSafe == TypeOK /\ OwnCompletion /\ EvictsOnlyUnstarted /\ CallbacksSafe /\ ClosedIsReleased

\* A close, once begun, ends, whoever cleans up and whatever fails on the way.
Owed(k) == k = 1 /\ life = "closing"
Paid(k) == life = "closed" \/ hist.revived
CloseEnds == Owed(1) ~> Paid(1)

\* A send whose deadline passed is completed and leaves the lane.
TimedOutSendEnds == snd.timed ~> ~snd.live
==============================================================================
