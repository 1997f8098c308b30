----------------------------- MODULE EventQueue -----------------------------
(***************************************************************************)
(* One native event queue, from its creation to the release of its memory: *)
(* event_queue.c and event_queue_drain.c.                                  *)
(*                                                                         *)
(* Producers run on any task (send, under the send lock) or in a driver's  *)
(* callback or interrupt (try_send_from_callback, send_from_isr, without   *)
(* it).  The runtime task receives, closes, disposes, finalizes and reaps; *)
(* an operation of it that blocks or calls out is several steps, and it    *)
(* runs one operation at a time.  A section under the queue's spin lock is *)
(* one step.                                                               *)
(*                                                                         *)
(* The source is external and of one of the two kinds the code has: its    *)
(* close callback waits for the producers inside (a mutex held around the  *)
(* send), or only asks for the end, and then the source retains the queue  *)
(* until they have left.                                                   *)
(***************************************************************************)
EXTENDS Integers, Sequences, FiniteSets

CONSTANTS Senders,      \* tasks that call send
          Callbacks,    \* contexts that call try_send_from_callback or send_from_isr
          Receives,     \* receive() operations over the life of the queue
          Capacity,
          DropOldest,   \* overflow == DROP_OLDEST
          MaxEvents     \* bound on the events offered

ASSUME QueueAssumption ==
    /\ IsFiniteSet(Senders) /\ IsFiniteSet(Callbacks) /\ IsFiniteSet(Receives)
    /\ Senders \intersect Callbacks = {}
    /\ {"free", "runtime"} \intersect (Senders \union Callbacks) = {}
    /\ {"none", "close", "dispose", "reap"} \intersect Receives = {}
    /\ Capacity \in Nat \ {0} /\ MaxEvents \in Nat
    /\ DropOldest \in BOOLEAN

Producers == Senders \union Callbacks
Events == 1..MaxEvents
None == "none"
Free == "free"
Runtime == "runtime"

VARIABLES
    queue, closed, send_lock, dropped, high_water,
    close_cb,           \* the close callback has not been taken yet
    dispose_requested, destroying, reaper_registered, reaper_hold,
    native_retain_count, receiver,
    list,               \* the list that names the queue: head, orphans or none
    opaque,             \* the JavaScript object still names the queue
    held,               \* JavaScript still holds the object
    source,             \* the source: open, waits in close, retains the queue
    pc, event, drops,   \* each producer's position, event and losses to count
    fate,               \* what became of each event: new, offered, queued, taken by
                        \* a receive, or gone
    phase, got,         \* each receive: its position and the event it took
    timer, timed_out,   \* each receive's timer and what its callback stored
    js, op,             \* the runtime task's position and operation
    closes, lost, peak  \* history: calls of the close callback, events lost to
                        \* overflow and largest depth since the last reset

life == <<dispose_requested, destroying, reaper_registered, reaper_hold, native_retain_count, list>>
content == <<queue, high_water, fate, peak, lost>>
producer == <<pc, event, drops>>
receive == <<phase, got, timer, timed_out, receiver>>
object == <<opaque, held>>
task == <<js, op>>
history == <<closes>>
vars == <<closed, send_lock, dropped, close_cb, source, life, content, producer,
          receive, object, task, history>>

Init ==
    /\ queue = <<>> /\ closed = FALSE /\ send_lock = Free
    /\ dropped = 0 /\ high_water = 0 /\ close_cb = TRUE
    /\ dispose_requested = FALSE /\ destroying = FALSE
    /\ reaper_registered = FALSE /\ reaper_hold = FALSE
    /\ receiver = None /\ list = "head" /\ opaque = TRUE /\ held = TRUE
    /\ \/ /\ source = [open |-> TRUE, waits |-> TRUE, retains |-> FALSE]
          /\ native_retain_count = 0
       \/ /\ source = [open |-> TRUE, waits |-> FALSE, retains |-> TRUE]
          /\ native_retain_count = 1
    /\ pc = [p \in Producers |-> "out"] /\ event = [p \in Producers |-> 0]
    /\ drops = [p \in Producers |-> 0]
    /\ fate = [e \in Events |-> "new"]
    /\ phase = [r \in Receives |-> "new"] /\ got = [r \in Receives |-> 0]
    /\ timer = [r \in Receives |-> "off"] /\ timed_out = [r \in Receives |-> FALSE]
    /\ js = "idle" /\ op = None
    /\ closes = 0 /\ lost = 0 /\ peak = 0

Larger(a, b) == IF a > b THEN a ELSE b
Goto(p, label) == pc' = [pc EXCEPT ![p] = label]
\* The producers inside the source.
Inside == {p \in Producers : pc[p] # "out"}
\* The receives whose driver state exists.
Live == {r \in Receives : phase[r] \notin {"new", "dead"}}
-------------------------------------------------------------------------------
(* The RTOS queue: every access is a section under the spin lock. *)

\* event_queue_enqueue_send, which also observes the new depth.
Enqueue(e) ==
    /\ Len(queue) < Capacity /\ queue' = Append(queue, e)
    /\ high_water' = Larger(high_water, Len(queue'))
    /\ fate' = [fate EXCEPT ![e] = "queued"]
    /\ peak' = Larger(peak, Len(queue')) /\ UNCHANGED lost

\* event_queue_drain_receive, with what becomes of the event.
Dequeue(as) ==
    /\ queue # <<>> /\ queue' = Tail(queue)
    /\ fate' = [fate EXCEPT ![Head(queue)] = as]
    /\ UNCHANGED <<high_water, peak>>

\* Mutation: a registered receiver or a retain does not keep the queue.
TakeDestroy_retained(retains, dispose, rx) == dispose /\ rx = None /\ ~destroying
\* event_queue_take_destroy_ownership_locked.
TakeDestroy(retains, dispose, rx) ==
    dispose /\ rx = None /\ retains = 0 /\ ~destroying

\* Mutation: a release only counts; the decision is taken elsewhere.
Release_only == native_retain_count' = native_retain_count - 1 /\ UNCHANGED destroying
\* esp32_mquickjs_event_queue_release: count and decision in one section.
Release ==
    /\ native_retain_count > 0
    /\ native_retain_count' = native_retain_count - 1
    /\ destroying' = \/ destroying
                     \/ TakeDestroy(native_retain_count - 1, dispose_requested, receiver)
-------------------------------------------------------------------------------
(* Producers. *)

\* The source produces an event and calls the queue with it.
Offer(p, e) ==
    /\ source.open /\ pc[p] = "out" /\ fate[e] = "new"
    /\ \A f \in Events : f < e => fate[f] # "new"
    /\ Goto(p, "check") /\ event' = [event EXCEPT ![p] = e]
    /\ drops' = [drops EXCEPT ![p] = 0]
    /\ fate' = [fate EXCEPT ![e] = "offered"]
    /\ UNCHANGED <<closed, send_lock, dropped, close_cb, source, life, queue, high_water,
                   peak, lost, receive, object, task, history>>

\* The event stays with the producer, which takes its payload back.
Refuse(p) ==
    /\ Goto(p, "out") /\ fate' = [fate EXCEPT ![event[p]] = "gone"]
    /\ event' = [event EXCEPT ![p] = 0] /\ UNCHANGED <<queue, high_water, peak, lost, drops>>

\* The first look at closed, before any lock.
Check(p) ==
    /\ pc[p] = "check"
    /\ \/ closed /\ Refuse(p)
       \/ /\ p \in Callbacks /\ DropOldest /\ Refuse(p)  \* only an interrupt may
       \/ /\ ~closed
          /\ Goto(p, IF p \in Senders THEN "lock" ELSE "send")
          /\ UNCHANGED <<content, event, drops>>
    /\ UNCHANGED <<closed, send_lock, dropped, close_cb, source, life, receive, object,
                   task, history>>

\* The send lock, and the second look under it; the lock of a refused send is
\* given up later (Count).
Lock(p) ==
    /\ pc[p] = "lock" /\ send_lock = Free
    /\ send_lock' = p
    /\ \/ /\ closed /\ Goto(p, "refused") /\ fate' = [fate EXCEPT ![event[p]] = "gone"]
       \/ ~closed /\ Goto(p, "send") /\ UNCHANGED fate
    /\ UNCHANGED <<closed, dropped, close_cb, source, life, queue, high_water, peak, lost, event,
                   drops, receive, object, task, history>>

\* The event is lost to overflow; n losses are to be counted.
Overflow(p, n) ==
    /\ drops' = [drops EXCEPT ![p] = n]
    /\ fate' = [fate EXCEPT ![event[p]] = "gone"] /\ lost' = lost + 1
    /\ Goto(p, "refused") /\ UNCHANGED <<queue, high_water, peak, event>>

\* esp32_mquickjs_event_queue_enqueue and its callback and interrupt forms:
\* the first attempt.
Send(p) ==
    /\ pc[p] = "send"
    /\ \/ Enqueue(event[p]) /\ Goto(p, IF p \in Senders THEN "count" ELSE "wake")
          /\ UNCHANGED <<event, drops>>
       \/ /\ Len(queue) = Capacity /\ p \in Senders /\ DropOldest
          /\ Goto(p, "evict") /\ UNCHANGED <<content, event, drops>>
       \/ /\ Len(queue) = Capacity /\ ~(p \in Senders /\ DropOldest)
          /\ Overflow(p, 1)
    /\ UNCHANGED <<closed, send_lock, dropped, close_cb, source, life, receive, object,
                   task, history>>

\* The oldest event makes room; a receiver may have taken it meanwhile, and
\* then the new event is given up although there is room.
Evict(p) ==
    /\ pc[p] = "evict"
    /\ \/ /\ Dequeue("gone") /\ lost' = lost + 1 /\ Goto(p, "retry")
          /\ drops' = [drops EXCEPT ![p] = 1] /\ UNCHANGED event
       \/ queue = <<>> /\ Overflow(p, 1)
    /\ UNCHANGED <<closed, send_lock, dropped, close_cb, source, life, receive, object,
                   task, history>>

\* The second attempt: an interrupt may have refilled the queue.
Retry(p) ==
    /\ pc[p] = "retry"
    /\ \/ Enqueue(event[p]) /\ Goto(p, "count") /\ UNCHANGED <<event, drops>>
       \/ Len(queue) = Capacity /\ Overflow(p, 2)
    /\ UNCHANGED <<closed, send_lock, dropped, close_cb, source, life, receive, object,
                   task, history>>

\* Losses are added under the spin lock; send then gives up the send lock.
\* A producer whose event was refused returns, the others wake the receiver.
Count(p) ==
    /\ pc[p] \in {"count", "refused"}
    /\ dropped' = dropped + drops[p] /\ drops' = [drops EXCEPT ![p] = 0]
    /\ send_lock' = IF send_lock = p THEN Free ELSE send_lock
    /\ Goto(p, IF pc[p] = "refused" THEN "out" ELSE "wake")
    /\ event' = [event EXCEPT ![p] = 0]
    /\ UNCHANGED <<closed, close_cb, source, life, content, receive, object, task, history>>

\* event_queue_wake_receiver reads the receiver's token and returns.
Wake(p) ==
    /\ pc[p] = "wake" /\ Goto(p, "out") /\ event' = [event EXCEPT ![p] = 0]
    /\ UNCHANGED <<closed, send_lock, dropped, close_cb, source, life, content, drops,
                   receive, object, task, history>>

\* A source that retains the queue gives it up once it has closed and its
\* producers have left; this may free the queue on the source's own task.
SourceReleases ==
    /\ source.retains /\ ~source.open /\ Inside = {}
    /\ source' = [source EXCEPT !.retains = FALSE] /\ Release
    /\ UNCHANGED <<closed, send_lock, dropped, close_cb, dispose_requested, reaper_registered,
                   reaper_hold, list, content, producer, receive, object, task, history>>
-------------------------------------------------------------------------------
(* The receive() operation: an event_queue_future_* driver. *)

\* Capture roots the object and retains the queue.
prepare(r) ==
    /\ js = "idle" /\ phase[r] = "new" /\ opaque /\ held
    /\ ~dispose_requested /\ ~destroying
    /\ native_retain_count' = native_retain_count + 1
    /\ phase' = [phase EXCEPT ![r] = "captured"]
    /\ UNCHANGED <<closed, send_lock, dropped, close_cb, source, dispose_requested,
                   destroying, reaper_registered, reaper_hold, list, content, producer,
                   got, timer, timed_out, receiver, object, task, history>>

\* start registers the only receiver, or fails.
start(r) ==
    /\ js = "idle" /\ phase[r] = "captured"
    /\ \/ /\ receiver = None /\ receiver' = r
          /\ phase' = [phase EXCEPT ![r] = "registered"] /\ js' = "start" /\ op' = r
       \/ /\ receiver # None /\ UNCHANGED <<receiver, task>>
          /\ phase' = [phase EXCEPT ![r] = "over"]
    /\ UNCHANGED <<closed, send_lock, dropped, close_cb, source, life, content, producer,
                   got, timer, timed_out, object, history>>

\* It then looks at the queue; only a quiet and open one needs the timeout:
\* none, immediate, or a timer, which may fail to start.
StartTimeout ==
    /\ js = "start" /\ js' = "idle" /\ op' = None
    /\ \/ /\ phase' = [phase EXCEPT ![op] = "pending"]
          /\ UNCHANGED <<timer, timed_out, receiver>>
       \/ /\ queue = <<>> /\ ~closed /\ phase' = [phase EXCEPT ![op] = "pending"]
          /\ timed_out' = [timed_out EXCEPT ![op] = TRUE] /\ UNCHANGED <<timer, receiver>>
       \/ /\ queue = <<>> /\ ~closed /\ phase' = [phase EXCEPT ![op] = "pending"]
          /\ timer' = [timer EXCEPT ![op] = "armed"] /\ UNCHANGED <<timed_out, receiver>>
       \/ /\ queue = <<>> /\ ~closed /\ phase' = [phase EXCEPT ![op] = "over"]
          /\ receiver' = None /\ UNCHANGED <<timer, timed_out>>
    /\ UNCHANGED <<closed, send_lock, dropped, close_cb, source, life, content, producer,
                   got, object, history>>

\* Mutation: a closed queue does not end the receive.
PollEnds_open(r) == timed_out[r]
\* What ends a receive that finds no event.
PollEnds(r) == timed_out[r] \/ closed

\* poll: an event first, then the timeout or the end of the source.
poll(r) ==
    /\ js = "idle" /\ phase[r] = "pending"
    /\ \/ Dequeue("taken") /\ UNCHANGED lost /\ got' = [got EXCEPT ![r] = Head(queue)]
       \/ queue = <<>> /\ PollEnds(r) /\ UNCHANGED <<content, got>>
    /\ phase' = [phase EXCEPT ![r] = "ready"] /\ receiver' = None
    /\ UNCHANGED <<closed, send_lock, dropped, close_cb, source, life, producer, timer,
                   timed_out, object, task, history>>

\* finish converts the event, which is then JavaScript's.
finish(r) ==
    /\ js = "idle" /\ phase[r] = "ready"
    /\ phase' = [phase EXCEPT ![r] = "over"]
    /\ fate' = IF got[r] = 0 THEN fate ELSE [fate EXCEPT ![got[r]] = "gone"]
    /\ got' = [got EXCEPT ![r] = 0]
    /\ UNCHANGED <<closed, send_lock, dropped, close_cb, source, life, queue, high_water,
                   peak, lost, producer, timer, timed_out, receiver, object, task, history>>

\* cancel ends a receive that has not completed.
cancel(r) ==
    /\ js = "idle" /\ phase[r] = "pending"
    /\ phase' = [phase EXCEPT ![r] = "over"] /\ receiver' = None
    /\ UNCHANGED <<closed, send_lock, dropped, close_cb, source, life, content, producer,
                   got, timer, timed_out, object, task, history>>

\* Mutation: an event taken but not converted is forgotten.
DropTaken_not(r) == UNCHANGED fate
\* The event a receive took and never converted is dropped.
DropTaken(r) ==
    fate' = IF got[r] = 0 THEN fate ELSE [fate EXCEPT ![got[r]] = "gone"]

\* destroy: drop, stop and delete the timer, free the state, release.  A
\* timer whose callback has been fetched is no longer stopped.
destroy(r) ==
    /\ js = "idle" /\ phase[r] \in {"captured", "ready", "over"}
    /\ DropTaken(r) /\ got' = [got EXCEPT ![r] = 0]
    /\ timer' = [timer EXCEPT ![r] = IF @ = "armed" THEN "off" ELSE @]
    /\ timed_out' = [timed_out EXCEPT ![r] = FALSE]
    /\ phase' = [phase EXCEPT ![r] = "dead"] /\ Release
    /\ UNCHANGED <<closed, send_lock, dropped, close_cb, source, dispose_requested,
                   reaper_registered, reaper_hold, list, queue, high_water, peak, lost,
                   producer, receiver, object, task, history>>

\* event_queue_timer_cb on the timer task: the dispatch of the callback, its
\* look at completed, and its store.  What it does to freed state is outside
\* the model.
TimerFetch(r) ==
    /\ timer[r] = "armed" /\ timer' = [timer EXCEPT ![r] = "fetched"] /\ UNCHANGED timed_out
TimerCheck(r) ==
    /\ timer[r] = "fetched"
    /\ timer' = [timer EXCEPT ![r] = IF phase[r] = "pending" THEN "late" ELSE "off"]
    /\ UNCHANGED timed_out
TimerStore(r) ==
    /\ timer[r] = "late" /\ timer' = [timer EXCEPT ![r] = "off"]
    /\ timed_out' = [timed_out EXCEPT ![r] = phase[r] # "dead"]
Timer(r) ==
    /\ TimerFetch(r) \/ TimerCheck(r) \/ TimerStore(r)
    /\ UNCHANGED <<closed, send_lock, dropped, close_cb, source, life, content, producer,
                   phase, got, receiver, object, task, history>>
-------------------------------------------------------------------------------
(* Close, dispose, finalize and reap, on the runtime task. *)

\* JavaScript calls close() (on a closed queue it changes nothing), or a
\* module disposes of the queue's object, which it never does after a request
\* to the reaper.
close ==
    /\ js = "idle" /\ opaque /\ ~closed /\ js' = "close" /\ op' = "close"
    /\ UNCHANGED <<closed, send_lock, dropped, close_cb, source, life, content, producer,
                   receive, object, history>>
dispose ==
    /\ js = "idle" /\ opaque /\ ~reaper_hold
    /\ opaque' = FALSE /\ list' = None /\ js' = "close" /\ op' = "dispose"
    /\ UNCHANGED <<closed, send_lock, dropped, close_cb, source, dispose_requested, destroying,
                   reaper_registered, reaper_hold, native_retain_count, content, producer,
                   receive, held, history>>

\* A close is over after the callback; dispose and the reaper go on to drain.
Return ==
    /\ js' = IF op = "close" THEN "idle" ELSE "drain"
    /\ op' = IF op = "close" THEN None ELSE op

\* The close callback is taken under the spin lock.
TakeCallback == close_cb' = FALSE

\* esp32_mquickjs_event_queue_close under the send lock; a second close
\* changes nothing.
CloseLocked ==
    /\ js = "close" /\ send_lock = Free
    /\ \/ closed /\ Return /\ UNCHANGED <<closed, close_cb>>
       \/ ~closed /\ close_cb /\ closed' = TRUE /\ TakeCallback /\ js' = "source" /\ UNCHANGED op
       \/ ~closed /\ ~close_cb /\ closed' = TRUE /\ Return /\ UNCHANGED close_cb
    /\ UNCHANGED <<send_lock, dropped, source, life, content, producer, receive, object, history>>

\* The close callback, called without a lock.  One kind of source waits
\* in it for the producers it admitted.
SourceCloses ==
    /\ js = "source" /\ (source.waits => Inside = {})
    /\ source' = [source EXCEPT !.open = FALSE] /\ closes' = closes + 1
    /\ Return
    /\ UNCHANGED <<closed, send_lock, dropped, close_cb, life, content, producer, receive,
                   object>>

\* discard_all and the reaper drain under the send lock; callbacks may still
\* add events between two receives.
DrainLock ==
    /\ js = "drain" /\ send_lock = Free /\ send_lock' = Runtime /\ js' = "draining"
    /\ UNCHANGED <<closed, dropped, close_cb, source, life, content, producer, receive,
                   object, op, history>>
DrainOne ==
    /\ js = "draining" /\ Dequeue("gone") /\ UNCHANGED lost
    /\ UNCHANGED <<closed, send_lock, dropped, close_cb, source, life, producer, receive,
                   object, task, history>>
DrainEnd ==
    /\ js = "draining" /\ queue = <<>> /\ send_lock' = Free /\ js' = "finish"
    /\ UNCHANGED <<closed, dropped, close_cb, source, life, content, producer, receive,
                   object, op, history>>

\* The end of dispose: the mark and the decision in one section.
DisposeEnd ==
    /\ js = "finish" /\ op = "dispose" /\ js' = "idle" /\ op' = None
    /\ dispose_requested' = TRUE
    /\ destroying' = (destroying \/ TakeDestroy(native_retain_count, TRUE, receiver))
    /\ UNCHANGED <<closed, send_lock, dropped, close_cb, source, reaper_registered, reaper_hold,
                   native_retain_count, list, content, producer, receive, object, history>>

\* event_queue_request_reap: closed at once and without the send lock, one
\* retain for the reaper; a finalizer also orphans the queue.
RequestReap(disposing) ==
    /\ closed' = TRUE /\ dispose_requested' = (dispose_requested \/ disposing)
    /\ list' = IF disposing THEN "orphans" ELSE list
    /\ reaper_registered' = TRUE /\ reaper_hold' = TRUE
    /\ native_retain_count' = native_retain_count + (IF reaper_hold THEN 0 ELSE 1)
    /\ UNCHANGED destroying

\* A module asks on behalf of a source that is still open.
request_close ==
    /\ js = "idle" /\ opaque /\ source.open /\ ~reaper_hold /\ RequestReap(FALSE)
    /\ UNCHANGED <<send_lock, dropped, close_cb, source, content, producer, receive,
                   object, task, history>>

\* JavaScript drops the object; a live receive roots it until its end.
Unreferenced ==
    /\ js = "idle" /\ held /\ held' = FALSE
    /\ UNCHANGED <<closed, send_lock, dropped, close_cb, source, life, content, producer,
                   receive, opaque, task, history>>
finalizer ==
    /\ js = "idle" /\ ~held /\ Live = {} /\ opaque /\ opaque' = FALSE /\ RequestReap(TRUE)
    /\ UNCHANGED <<send_lock, dropped, close_cb, source, content, producer, receive, held,
                   task, history>>

\* The queue is the reaper's: registered in the head list, or orphaned.
Reapable == (list = "head" /\ reaper_registered) \/ list = "orphans"

\* event_queue_reap takes the close callback under the send lock ...
reap ==
    /\ js = "idle" /\ Reapable /\ send_lock = Free /\ op' = "reap" /\ TakeCallback
    /\ js' = IF close_cb THEN "source" ELSE "drain"
    /\ UNCHANGED <<closed, send_lock, dropped, source, life, content, producer, receive,
                   object, history>>
\* ... gives up, to be called again, when the lock for the drain is late ...
ReapLate ==
    /\ js = "drain" /\ op = "reap" /\ send_lock # Free /\ js' = "idle" /\ op' = None
    /\ UNCHANGED <<closed, send_lock, dropped, close_cb, source, life, content, producer,
                   receive, object, history>>

\* ... and at the end gives up its retain and decides in one section.
ReapRelease ==
    LET left == native_retain_count - (IF reaper_hold THEN 1 ELSE 0)
    IN  /\ reaper_registered' = FALSE /\ reaper_hold' = FALSE
        /\ native_retain_count' = left
        /\ destroying' = (destroying \/ TakeDestroy(left, dispose_requested, receiver))
ReapEnd ==
    /\ js = "finish" /\ op = "reap" /\ js' = "idle" /\ op' = None /\ ReapRelease
    /\ list' = IF list = "orphans" THEN None ELSE list
    /\ UNCHANGED <<closed, send_lock, dropped, close_cb, source, dispose_requested, content,
                   producer, receive, object, history>>

\* reset_event_queue_counters visits the registered queues.
reset_counters ==
    /\ js = "idle" /\ list = "head"
    /\ dropped' = 0 /\ high_water' = Len(queue)
    /\ lost' = lost - dropped /\ peak' = Len(queue)
    /\ UNCHANGED <<closed, send_lock, close_cb, source, life, queue, fate, producer, receive,
                   object, task, closes>>

\* Everything is over: nobody is left to act on the queue.
Finished ==
    /\ ~opaque /\ list = None /\ js = "idle" /\ Inside = {} /\ Live = {} /\ ~source.retains
    /\ UNCHANGED vars
-------------------------------------------------------------------------------
Produce(p) ==
    Check(p) \/ Lock(p) \/ Send(p) \/ Evict(p) \/ Retry(p) \/ Count(p) \/ Wake(p)
Operation ==
    StartTimeout \/ CloseLocked \/ SourceCloses \/ DrainLock \/ DrainOne \/ DrainEnd
    \/ DisposeEnd \/ ReapLate \/ ReapEnd
Receive(r) ==
    prepare(r) \/ start(r) \/ poll(r) \/ finish(r) \/ cancel(r) \/ destroy(r)

Next ==
    \/ \E p \in Producers, e \in Events : Offer(p, e)
    \/ \E p \in Producers : Produce(p)
    \/ SourceReleases
    \/ \E r \in Receives : Receive(r) \/ Timer(r)
    \/ Operation
    \/ close \/ dispose \/ request_close \/ Unreferenced \/ finalizer \/ reap \/ reset_counters
    \/ Finished

Spec == Init /\ [][Next]_vars

\* Every task runs; the runtime task polls its operations, collects what it
\* has finished and polls the reaper.  Nobody has to close or to let go.
Fairness ==
    /\ \A p \in Producers : WF_vars(Produce(p))
    /\ WF_vars(Operation) /\ WF_vars(SourceReleases) /\ WF_vars(reap)
    /\ \A r \in Receives :
        WF_vars(start(r) \/ poll(r) \/ finish(r)) /\ WF_vars(phase[r] = "over" /\ destroy(r))

FairSpec == Spec /\ Fairness
-------------------------------------------------------------------------------
(* Properties. *)

TypeOK ==
    /\ queue \in Seq(Events) /\ Len(queue) <= Capacity
    /\ closed \in BOOLEAN /\ send_lock \in Senders \union {Free, Runtime}
    /\ dropped \in Nat /\ high_water \in 0..Capacity /\ close_cb \in BOOLEAN
    /\ dispose_requested \in BOOLEAN /\ destroying \in BOOLEAN
    /\ reaper_registered \in BOOLEAN /\ reaper_hold \in BOOLEAN
    /\ native_retain_count \in Nat /\ receiver \in Receives \union {None}
    /\ list \in {"head", "orphans", None} /\ opaque \in BOOLEAN /\ held \in BOOLEAN
    /\ source \in [open : BOOLEAN, waits : BOOLEAN, retains : BOOLEAN]
    /\ pc \in [Producers -> {"out", "check", "lock", "send", "evict", "retry", "count", "refused",
                         "wake"}]
    /\ event \in [Producers -> 0..MaxEvents] /\ drops \in [Producers -> 0..2]
    /\ fate \in [Events -> {"new", "offered", "queued", "taken", "gone"}]
    /\ phase \in [Receives -> {"new", "captured", "registered", "pending", "ready", "over", "dead"}]
    /\ got \in [Receives -> 0..MaxEvents] /\ timed_out \in [Receives -> BOOLEAN]
    /\ timer \in [Receives -> {"off", "armed", "fetched", "late"}]
    /\ js \in {"idle", "start", "close", "source", "drain", "draining", "finish"}
    /\ op \in {None, "close", "dispose", "reap"} \union Receives
    /\ closes \in Nat /\ lost \in Int /\ peak \in Nat

\* The retains are the reaper's, the source's and one of every receive whose
\* state exists: nobody's retain is lost or given up twice.
RetainsExact ==
    native_retain_count = Cardinality(Live) + (IF reaper_hold THEN 1 ELSE 0)
                          + (IF source.retains THEN 1 ELSE 0)

\* The memory is freed only when no producer, receive, lock holder or
\* operation of the runtime task is still using the queue.
FreedWhenUnused ==
    destroying => /\ Inside = {} /\ Live = {} /\ js = "idle" /\ send_lock = Free
                  /\ receiver = None /\ ~Reapable

\* Every accepted event is in the queue or with the receive that took it, and
\* when the memory is freed all of them were delivered or dropped: no payload
\* is lost with the queue.  (A source that does not wait may add an event after
\* the drain; its payloads are tokens of its own pool, which it resets.)
PayloadsAccounted ==
    /\ {e \in Events : fate[e] = "queued"} = {queue[i] : i \in 1..Len(queue)}
    /\ {e \in Events : fate[e] = "taken"} = {got[r] : r \in Receives} \ {0}
    /\ destroying /\ source.waits => \A e \in Events : fate[e] \notin {"queued", "taken"}

\* The counters are exact: every event lost to overflow is counted or will be
\* counted by the producer that lost it, and a reset forgets just those that
\* were counted; the high-water mark is the largest depth since the last reset,
\* however fast a receiver takes an event away.
Uncounted == {l \in Producers \X (1 .. 2) : l[2] <= drops[l[1]]}
CountersExact == lost = dropped + Cardinality(Uncounted) /\ high_water = peak

\* The source is told to close at most once, by whichever of close, dispose
\* and the reaper comes first, and before the queue's memory is freed.
ToldOnce == closes <= 1 /\ (destroying => closes = 1)

\* A pending receive ends once there is an event for it or the queue closes.
ReceiveEnds ==
    \A r \in Receives :
        (phase[r] = "pending" /\ (queue # <<>> \/ closed)) ~> phase[r] # "pending"

\* A queue that was finalized or disposed of is freed.
DisposedIsFreed == dispose_requested ~> destroying

\* Retains are exact and the queue is freed last.
EndSafe == RetainsExact /\ FreedWhenUnused

\* Every payload is with the queue, with a receiver or freed, the counters agree
\* with what happened to the events, and a source is told of the close once.
QueueSafe == TypeOK /\ PayloadsAccounted /\ CountersExact /\ ToldOnce
===============================================================================
