-------------------------- MODULE EventQueueProofs --------------------------
(***************************************************************************)
(* The event queue keeps every payload, counts every loss, tells its       *)
(* source once and is freed last: for any number of senders, callbacks and *)
(* receives, any capacity and any number of events.                        *)
(***************************************************************************)
EXTENDS EventQueue, TLAPS, FiniteSetTheorems, SequenceTheorems

(* The inductive invariant.  Its parts relate the variables of one actor   *)
(* to each other or to those of another one.                               *)

\* Where a producer still has its event.
Offering == {"check", "lock", "send", "evict", "retry"}
\* Where a sender holds the send lock.
Locking == {"send", "evict", "retry", "count", "refused"}

\* The parts of the type invariant, by who writes the variables.
ContentType ==
    /\ queue \in Seq(Events) /\ Len(queue) <= Capacity
    /\ high_water \in 0 .. Capacity /\ peak \in Nat
    /\ fate \in [Events -> {"new", "offered", "queued", "taken", "gone"}]
CountType == dropped \in Nat /\ lost \in Int
ProducerType ==
    /\ pc \in [Producers -> {"out", "check", "lock", "send", "evict", "retry", "count",
                              "refused", "wake"}]
    /\ event \in [Producers -> 0 .. MaxEvents] /\ drops \in [Producers -> 0 .. 2]
    /\ \A p \in Producers : pc[p] \in Offering => event[p] # 0
    /\ \A p \in Callbacks : pc[p] \notin {"lock", "evict", "retry", "count"}
LockType == send_lock \in Senders \union {Free, Runtime}
ReceiveType ==
    /\ phase \in [Receives -> {"new", "captured", "registered", "pending", "ready", "over",
                                "dead"}]
    /\ got \in [Receives -> 0 .. MaxEvents] /\ timed_out \in [Receives -> BOOLEAN]
    /\ timer \in [Receives -> {"off", "armed", "fetched", "late"}]
    /\ receiver \in Receives \union {None}
LifeType ==
    /\ closed \in BOOLEAN /\ close_cb \in BOOLEAN
    /\ dispose_requested \in BOOLEAN /\ destroying \in BOOLEAN
    /\ reaper_registered \in BOOLEAN /\ reaper_hold \in BOOLEAN
    /\ list \in {"head", "orphans", None} /\ opaque \in BOOLEAN /\ held \in BOOLEAN
    /\ js \in {"idle", "start", "close", "source", "drain", "draining", "finish"}
    /\ op \in {None, "close", "dispose", "reap"} \union Receives
SourceType == source \in [open : BOOLEAN, waits : BOOLEAN, retains : BOOLEAN] /\ closes \in Nat

\* The runtime task is in one operation at a time, and a dispose or a
\* finalizer takes the object away before it asks for the end.
TaskInv ==
    /\ js = "idle" <=> op = None
    /\ js = "start" <=> op \in Receives
    /\ js = "start" => phase[op] = "registered" /\ receiver = op
    /\ js = "close" => op \in {"close", "dispose"}
    /\ js \in {"drain", "draining", "finish"} => op \in {"dispose", "reap"} /\ ~close_cb
    /\ js \in {"source", "drain", "draining", "finish"} => closed
    /\ op = "close" => opaque
    /\ op = "dispose" => ~opaque /\ ~dispose_requested /\ ~reaper_hold /\ list = None
    /\ op = "reap" => reaper_hold
    /\ opaque => ~dispose_requested /\ list = "head"
    /\ reaper_registered = reaper_hold
    /\ list = "orphans" => reaper_hold

\* The receiver is the receive that registered last and has not ended, and
\* only a receive that is ready has an event.
ReceiverInv ==
    /\ receiver # None => phase[receiver] \in {"registered", "pending"}
    /\ \A r \in Receives : phase[r] \in {"registered", "pending"} => receiver = r
    /\ \A r \in Receives : got[r] # 0 => phase[r] = "ready"
    /\ \A r \in Receives : phase[r] = "registered" => js = "start" /\ op = r

\* The source is told exactly when the callback has been taken and has
\* returned, and whoever takes the queue away has seen to that.
SourceInv ==
    /\ close_cb => closes = 0 /\ source.open
    /\ js = "source" => closes = 0 /\ ~close_cb /\ source.open
    /\ ~close_cb /\ js # "source" => closes = 1 /\ ~source.open
    /\ closed /\ close_cb => reaper_hold
    /\ reaper_hold \/ dispose_requested => closed
    /\ source.waits => ~source.retains
    /\ source.open => source.waits \/ source.retains

\* A source that has closed and retains nothing has no producer inside.
InsideInv == ~source.open /\ ~source.retains => Inside = {}

\* Who holds the send lock is inside a section under it.
LockInv ==
    /\ \A p \in Senders : pc[p] \in Locking <=> send_lock = p
    /\ send_lock = Runtime <=> js = "draining"

\* A queue to be freed is nobody's.
EndInv == destroying => dispose_requested /\ native_retain_count = 0 /\ receiver = None

\* Every event has one place, with its producer, in the queue or with a
\* receive, and the place knows what became of it.
OfferedInv ==
    /\ \A p \in Producers : pc[p] \in Offering => fate[event[p]] = "offered"
    /\ \A p, q \in Producers :
           (pc[p] \in Offering /\ pc[q] \in Offering /\ event[p] = event[q]) => p = q
QueuedInv ==
    /\ \A i, j \in 1 .. Len(queue) : queue[i] = queue[j] => i = j
    /\ \A i \in 1 .. Len(queue) : fate[queue[i]] = "queued"
    /\ \A e \in Events : fate[e] = "queued" => \E i \in 1 .. Len(queue) : queue[i] = e
TakenInv ==
    /\ \A e \in Events : fate[e] = "taken" => \E r \in Receives : got[r] = e
    /\ \A r \in Receives : got[r] # 0 => fate[got[r]] = "taken"
    /\ \A r, s \in Receives : (got[r] = got[s] /\ got[r] # 0) => r = s
PayloadInv == OfferedInv /\ QueuedInv /\ TakenInv

\* Once a source that waits has been told and the queue drained, it stays
\* empty.
DrainedInv ==
    source.waits /\ (js = "finish" \/ (dispose_requested /\ ~reaper_hold)) => queue = <<>>

\* Losses still to be counted are those of producers about to count.
DropInv ==
    /\ \A p \in Producers : pc[p] \notin {"retry", "count", "refused"} => drops[p] = 0
    /\ \A p \in Producers : pc[p] = "retry" => drops[p] = 1

TypeInv ==
    ContentType /\ CountType /\ ProducerType /\ LockType /\ ReceiveType /\ LifeType /\ SourceType
OwnerInv == TaskInv /\ ReceiverInv /\ SourceInv /\ InsideInv /\ LockInv /\ EndInv
IInv ==
    /\ TypeInv /\ OwnerInv /\ RetainsExact
    /\ PayloadInv /\ DrainedInv /\ DropInv /\ CountersExact
-------------------------------------------------------------------------------
USE DEF life, content, producer, receive, object, task, history, vars

\* What an access of the RTOS queue does to its contents.
LEMMA EnqueueType == ASSUME ContentType, NEW e \in Events, Enqueue(e) PROVE ContentType'
<1> USE QueueAssumption DEF QueueAssumption, ContentType, Enqueue
<1>1. queue' \in Seq(Events) /\ Len(queue') = Len(queue) + 1
    OBVIOUS
<1>2. Len(queue') <= Capacity /\ Len(queue') \in Nat
    BY <1>1
<1>3. high_water' \in 0 .. Capacity /\ peak' \in Nat
    BY <1>2 DEF Larger
<1> QED
    BY <1>1, <1>2, <1>3
LEMMA DequeueType ==
    ASSUME ContentType, NEW as \in {"taken", "gone"}, Dequeue(as)
    PROVE  ContentType' /\ Head(queue) \in Events /\ Head(queue) = queue[1]
<1> USE QueueAssumption DEF QueueAssumption, ContentType, Dequeue
<1>1. queue' \in Seq(Events) /\ Len(queue') = Len(queue) - 1
      /\ Head(queue) \in Events /\ Head(queue) = queue[1]
    OBVIOUS
<1>2. Len(queue') <= Capacity
    BY <1>1
<1> QED
    BY <1>1, <1>2

\* The queue holds events and never more than its capacity.
LEMMA ContentTypeStep == ContentType /\ ProducerType /\ ReceiveType /\ [Next]_vars =>
   ContentType'
<1> SUFFICES ASSUME ContentType, ProducerType, ReceiveType, [Next]_vars PROVE ContentType'
    OBVIOUS
<1> USE QueueAssumption DEF QueueAssumption, ContentType, ProducerType, ReceiveType,
   Offering, Events, Producers
<1>1. ASSUME NEW p \in Producers, NEW e \in Events, Offer(p, e) PROVE ContentType'
    BY <1>1 DEF Offer
<1>2. ASSUME NEW p \in Producers, Check(p) PROVE ContentType'
    BY <1>2 DEF Check, Refuse
<1>3. ASSUME NEW p \in Producers, Lock(p) PROVE ContentType'
    BY <1>3 DEF Lock
<1>4. ASSUME NEW p \in Producers, Send(p) PROVE ContentType'
    <2>1. event[p] \in Events
        BY <1>4 DEF Send
    <2>2. CASE Enqueue(event[p])
        BY <2>1, <2>2, EnqueueType
    <2>3. CASE ~Enqueue(event[p])
        BY <2>3, <1>4 DEF Send, Overflow
    <2>4. QED
        BY <2>2, <2>3
<1>5. ASSUME NEW p \in Producers, Evict(p) PROVE ContentType'
    <2>1. CASE Dequeue("gone")
        BY <2>1, DequeueType
    <2>2. CASE ~Dequeue("gone")
        BY <2>2, <1>5 DEF Evict, Overflow
    <2>3. QED
        BY <2>1, <2>2
<1>6. ASSUME NEW p \in Producers, Retry(p) PROVE ContentType'
    <2>1. event[p] \in Events
        BY <1>6 DEF Retry
    <2>2. CASE Enqueue(event[p])
        BY <2>1, <2>2, EnqueueType
    <2>3. CASE ~Enqueue(event[p])
        BY <2>3, <1>6 DEF Retry, Overflow
    <2>4. QED
        BY <2>2, <2>3
<1>7. ASSUME NEW r \in Receives, poll(r) PROVE ContentType'
    <2>1. CASE Dequeue("taken")
        BY <2>1, DequeueType
    <2>2. CASE ~Dequeue("taken")
        BY <2>2, <1>7 DEF poll
    <2>3. QED
        BY <2>1, <2>2
<1>8. ASSUME NEW r \in Receives, finish(r) PROVE ContentType'
    BY <1>8 DEF finish
<1>9. ASSUME NEW r \in Receives, destroy(r) PROVE ContentType'
    BY <1>9 DEF destroy, DropTaken
<1>10. CASE DrainOne
    BY <1>10, DequeueType DEF DrainOne
<1>11. CASE reset_counters
    BY <1>11 DEF reset_counters
<1>12. CASE UNCHANGED <<queue, high_water, fate, peak>>
    BY <1>12
<1>13. QED
    BY <1>1, <1>2, <1>3, <1>4, <1>5, <1>6, <1>7, <1>8, <1>9, <1>10, <1>11, <1>12 DEF Next,
       Produce, Count, Wake, SourceReleases, Receive, prepare, start, cancel, Timer,
       Operation, StartTimeout, CloseLocked, SourceCloses, DrainLock, DrainEnd,
       DisposeEnd, ReapLate, ReapEnd, close, dispose, request_close, Unreferenced,
       finalizer, reap, Finished

\* Counts of losses are numbers.
LEMMA CountTypeStep == CountType /\ ProducerType /\ [Next]_vars => CountType'
<1> SUFFICES ASSUME CountType, ProducerType, [Next]_vars PROVE CountType'
    OBVIOUS
<1> USE QueueAssumption DEF QueueAssumption, CountType, ProducerType, Producers
<1>1. ASSUME NEW p \in Producers, Send(p) PROVE CountType'
    BY <1>1 DEF Send, Enqueue, Overflow
<1>2. ASSUME NEW p \in Producers, Evict(p) PROVE CountType'
    BY <1>2 DEF Evict, Dequeue, Overflow
<1>3. ASSUME NEW p \in Producers, Retry(p) PROVE CountType'
    BY <1>3 DEF Retry, Enqueue, Overflow
<1>4. ASSUME NEW p \in Producers, Count(p) PROVE CountType'
    BY <1>4 DEF Count
<1>5. CASE reset_counters
    BY <1>5 DEF reset_counters
<1>6. CASE UNCHANGED <<dropped, lost>>
    BY <1>6
<1>7. QED
    BY <1>1, <1>2, <1>3, <1>4, <1>5, <1>6 DEF Next, Offer, Produce, Check, Lock, Wake,
       SourceReleases, Receive, prepare, start, poll, finish, cancel, destroy, Timer,
       Operation, StartTimeout, CloseLocked, SourceCloses, DrainLock, DrainOne, DrainEnd,
       DisposeEnd, ReapLate, ReapEnd, close, dispose, request_close, Unreferenced,
       finalizer, reap, Finished, Refuse

\* A producer has its event until it is queued or refused.
LEMMA ProducerTypeStep == ProducerType /\ [Next]_vars => ProducerType'
<1> SUFFICES ASSUME ProducerType, [Next]_vars PROVE ProducerType'
    OBVIOUS
<1> USE QueueAssumption DEF QueueAssumption, ProducerType, Offering, Goto, Events,
   Producers
<1>1. ASSUME NEW p \in Producers, NEW e \in Events, Offer(p, e) PROVE ProducerType'
    BY <1>1 DEF Offer
<1>2. ASSUME NEW p \in Producers, Check(p) PROVE ProducerType'
    BY <1>2 DEF Check, Refuse
<1>3. ASSUME NEW p \in Producers, Lock(p) PROVE ProducerType'
    BY <1>3 DEF Lock
<1>4. ASSUME NEW p \in Producers, Send(p) PROVE ProducerType'
    BY <1>4 DEF Send, Overflow
<1>5. ASSUME NEW p \in Producers, Evict(p) PROVE ProducerType'
    BY <1>5 DEF Evict, Overflow
<1>6. ASSUME NEW p \in Producers, Retry(p) PROVE ProducerType'
    BY <1>6 DEF Retry, Overflow
<1>7. ASSUME NEW p \in Producers, Count(p) PROVE ProducerType'
    BY <1>7 DEF Count
<1>8. ASSUME NEW p \in Producers, Wake(p) PROVE ProducerType'
    BY <1>8 DEF Wake
<1>9. CASE UNCHANGED <<pc, event, drops>>
    BY <1>9
<1>10. QED
    BY <1>1, <1>2, <1>3, <1>4, <1>5, <1>6, <1>7, <1>8, <1>9 DEF Next, Produce,
       SourceReleases, Receive, prepare, start, poll, finish, cancel, destroy, Timer,
       Operation, StartTimeout, CloseLocked, SourceCloses, DrainLock, DrainOne, DrainEnd,
       DisposeEnd, ReapLate, ReapEnd, close, dispose, request_close, Unreferenced,
       finalizer, reap, reset_counters, Finished

\* The send lock is free, a sender's or the runtime task's.
LEMMA LockTypeStep == LockType /\ ProducerType /\ [Next]_vars => LockType'
<1> SUFFICES ASSUME LockType, ProducerType, [Next]_vars PROVE LockType'
    OBVIOUS
<1> USE QueueAssumption DEF QueueAssumption, LockType, ProducerType, Producers
<1>1. ASSUME NEW p \in Producers, Lock(p) PROVE LockType'
    BY <1>1 DEF Lock
<1>2. ASSUME NEW p \in Producers, Count(p) PROVE LockType'
    BY <1>2 DEF Count
<1>3. CASE DrainLock
    BY <1>3 DEF DrainLock
<1>4. CASE DrainEnd
    BY <1>4 DEF DrainEnd
<1>5. CASE UNCHANGED <<send_lock>>
    BY <1>5
<1>6. QED
    BY <1>1, <1>2, <1>3, <1>4, <1>5 DEF Next, Offer, Produce, Check, Send, Evict, Retry,
       Wake, SourceReleases, Receive, prepare, start, poll, finish, cancel, destroy,
       Timer, Operation, StartTimeout, CloseLocked, SourceCloses, DrainOne, DisposeEnd,
       ReapLate, ReapEnd, close, dispose, request_close, Unreferenced, finalizer, reap,
       reset_counters, Finished, Refuse

\* The types of the receives' variables.
LEMMA ReceiveTypeStep == ContentType /\ ReceiveType /\ [Next]_vars => ReceiveType'
<1> SUFFICES ASSUME ContentType, ReceiveType, [Next]_vars PROVE ReceiveType'
    OBVIOUS
<1> USE QueueAssumption DEF QueueAssumption, ContentType, ReceiveType, Events, None
<1>1. ASSUME NEW r \in Receives, prepare(r) PROVE ReceiveType'
    BY <1>1 DEF prepare
<1>2. ASSUME NEW r \in Receives, start(r) PROVE ReceiveType'
    BY <1>2 DEF start
<1>3. ASSUME NEW r \in Receives, poll(r) PROVE ReceiveType'
    BY <1>3 DEF poll, Dequeue, PollEnds
<1>4. ASSUME NEW r \in Receives, finish(r) PROVE ReceiveType'
    BY <1>4 DEF finish
<1>5. ASSUME NEW r \in Receives, cancel(r) PROVE ReceiveType'
    BY <1>5 DEF cancel
<1>6. ASSUME NEW r \in Receives, destroy(r) PROVE ReceiveType'
    BY <1>6 DEF destroy, DropTaken
<1>7. ASSUME NEW r \in Receives, Timer(r) PROVE ReceiveType'
    BY <1>7 DEF Timer, TimerFetch, TimerCheck, TimerStore
<1>8. CASE StartTimeout
    BY <1>8 DEF StartTimeout
<1>9. CASE UNCHANGED <<phase, got, timer, timed_out, receiver>>
    BY <1>9
<1>10. QED
    BY <1>1, <1>2, <1>3, <1>4, <1>5, <1>6, <1>7, <1>8, <1>9 DEF Next, Offer, Produce,
       Check, Lock, Send, Evict, Retry, Count, Wake, SourceReleases, Receive, Operation,
       CloseLocked, SourceCloses, DrainLock, DrainOne, DrainEnd, DisposeEnd, ReapLate,
       ReapEnd, close, dispose, request_close, Unreferenced, finalizer, reap,
       reset_counters, Finished, Refuse

\* The types of the runtime task's variables.
LEMMA LifeTypeStep == LifeType /\ [Next]_vars => LifeType'
<1> SUFFICES ASSUME LifeType, [Next]_vars PROVE LifeType'
    OBVIOUS
<1> USE QueueAssumption DEF QueueAssumption, LifeType, None
<1>1. CASE SourceReleases
    BY <1>1 DEF SourceReleases, Release, TakeDestroy
<1>2. ASSUME NEW r \in Receives, start(r) PROVE LifeType'
    BY <1>2 DEF start
<1>3. ASSUME NEW r \in Receives, destroy(r) PROVE LifeType'
    BY <1>3 DEF destroy, DropTaken, Release, TakeDestroy
<1>4. CASE StartTimeout
    BY <1>4 DEF StartTimeout
<1>5. CASE CloseLocked
    BY <1>5 DEF CloseLocked, Return, TakeCallback
<1>6. CASE SourceCloses
    BY <1>6 DEF SourceCloses, Return
<1>7. CASE DrainLock
    BY <1>7 DEF DrainLock
<1>8. CASE DrainEnd
    BY <1>8 DEF DrainEnd
<1>9. CASE DisposeEnd
    BY <1>9 DEF DisposeEnd, TakeDestroy
<1>10. CASE ReapLate
    BY <1>10 DEF ReapLate
<1>11. CASE ReapEnd
    BY <1>11 DEF ReapEnd, ReapRelease, TakeDestroy
<1>12. CASE close
    BY <1>12 DEF close
<1>13. CASE dispose
    BY <1>13 DEF dispose
<1>14. CASE request_close
    BY <1>14 DEF request_close, RequestReap
<1>15. CASE Unreferenced
    BY <1>15 DEF Unreferenced
<1>16. CASE finalizer
    BY <1>16 DEF finalizer, RequestReap
<1>17. CASE reap
    BY <1>17 DEF reap, TakeCallback, Reapable
<1>18. CASE UNCHANGED <<closed, close_cb, dispose_requested, destroying,
   reaper_registered, reaper_hold, list, opaque, held, js, op>>
    BY <1>18
<1>19. QED
    BY <1>1, <1>2, <1>3, <1>4, <1>5, <1>6, <1>7, <1>8, <1>9, <1>10, <1>11, <1>12, <1>13,
       <1>14, <1>15, <1>16, <1>17, <1>18 DEF Next, Offer, Produce, Check, Lock, Send,
       Evict, Retry, Count, Wake, Receive, prepare, poll, finish, cancel, Timer,
       Operation, DrainOne, reset_counters, Finished, Refuse

\* The types of the source's variables.
LEMMA SourceTypeStep == SourceType /\ [Next]_vars => SourceType'
<1> SUFFICES ASSUME SourceType, [Next]_vars PROVE SourceType'
    OBVIOUS
<1> USE QueueAssumption DEF QueueAssumption, SourceType
<1>1. CASE SourceReleases
    BY <1>1 DEF SourceReleases
<1>2. CASE SourceCloses
    <2>1. source' \in [open : BOOLEAN, waits : BOOLEAN, retains : BOOLEAN]
        BY <1>2 DEF SourceCloses
    <2>2. QED
        BY <2>1, <1>2 DEF SourceCloses
<1>3. CASE UNCHANGED <<source, closes>>
    BY <1>3
<1>4. QED
    BY <1>1, <1>2, <1>3 DEF Next, Offer, Produce, Check, Lock, Send, Evict, Retry, Count,
       Wake, Receive, prepare, start, poll, finish, cancel, destroy, Timer, Operation,
       StartTimeout, CloseLocked, DrainLock, DrainOne, DrainEnd, DisposeEnd, ReapLate,
       ReapEnd, close, dispose, request_close, Unreferenced, finalizer, reap,
       reset_counters, Finished, Refuse

\* What the runtime task is doing agrees with what it has taken away.
LEMMA TaskStep == LifeType /\ ReceiveType /\ TaskInv /\ SourceInv /\ [Next]_vars =>
   TaskInv'
<1> SUFFICES ASSUME LifeType, ReceiveType, TaskInv, SourceInv, [Next]_vars PROVE TaskInv'
    OBVIOUS
<1> USE QueueAssumption DEF QueueAssumption, LifeType, ReceiveType, TaskInv, SourceInv,
   None
<1>1. ASSUME NEW r \in Receives, prepare(r) PROVE TaskInv'
    BY <1>1 DEF prepare
<1>2. ASSUME NEW r \in Receives, start(r) PROVE TaskInv'
    BY <1>2 DEF start
<1>3. ASSUME NEW r \in Receives, poll(r) PROVE TaskInv'
    BY <1>3 DEF poll
<1>4. ASSUME NEW r \in Receives, finish(r) PROVE TaskInv'
    BY <1>4 DEF finish
<1>5. ASSUME NEW r \in Receives, cancel(r) PROVE TaskInv'
    BY <1>5 DEF cancel
<1>6. ASSUME NEW r \in Receives, destroy(r) PROVE TaskInv'
    BY <1>6 DEF destroy
<1>7. CASE StartTimeout
    BY <1>7 DEF StartTimeout
<1>8. CASE CloseLocked
    BY <1>8 DEF CloseLocked, Return, TakeCallback
<1>9. CASE SourceCloses
    BY <1>9 DEF SourceCloses, Return
<1>10. CASE DrainLock
    BY <1>10 DEF DrainLock
<1>11. CASE DrainEnd
    BY <1>11 DEF DrainEnd
<1>12. CASE DisposeEnd
    BY <1>12 DEF DisposeEnd
<1>13. CASE ReapLate
    BY <1>13 DEF ReapLate
<1>14. CASE ReapEnd
    BY <1>14 DEF ReapEnd, ReapRelease
<1>15. CASE close
    BY <1>15 DEF close
<1>16. CASE dispose
    BY <1>16 DEF dispose
<1>17. CASE request_close
    BY <1>17 DEF request_close, RequestReap
<1>18. CASE finalizer
    BY <1>18 DEF finalizer, RequestReap
<1>19. CASE reap
    BY <1>19 DEF reap, TakeCallback, Reapable
<1>20. CASE UNCHANGED <<js, op, phase, receiver, close_cb, closed, opaque,
   dispose_requested, reaper_hold, list, reaper_registered>>
    BY <1>20
<1>21. QED
    BY <1>1, <1>2, <1>3, <1>4, <1>5, <1>6, <1>7, <1>8, <1>9, <1>10, <1>11, <1>12, <1>13,
       <1>14, <1>15, <1>16, <1>17, <1>18, <1>19, <1>20 DEF Next, Offer, Produce, Check,
       Lock, Send, Evict, Retry, Count, Wake, SourceReleases, Receive, Timer, Operation,
       DrainOne, Unreferenced, reset_counters, Finished, Refuse

\* Only the registered receive is pending.
LEMMA ReceiverStep == LifeType /\ ReceiveType /\ TaskInv /\ ReceiverInv /\ [Next]_vars =>
   ReceiverInv'
<1> SUFFICES ASSUME LifeType, ReceiveType, TaskInv, ReceiverInv, [Next]_vars PROVE
   ReceiverInv'
    OBVIOUS
<1> USE QueueAssumption DEF QueueAssumption, LifeType, ReceiveType, TaskInv, ReceiverInv,
   None
<1>1. ASSUME NEW r \in Receives, prepare(r) PROVE ReceiverInv'
    BY <1>1 DEF prepare
<1>2. ASSUME NEW r \in Receives, start(r) PROVE ReceiverInv'
    BY <1>2 DEF start
<1>3. ASSUME NEW r \in Receives, poll(r) PROVE ReceiverInv'
    BY <1>3 DEF poll, Dequeue
<1>4. ASSUME NEW r \in Receives, finish(r) PROVE ReceiverInv'
    BY <1>4 DEF finish
<1>5. ASSUME NEW r \in Receives, cancel(r) PROVE ReceiverInv'
    BY <1>5 DEF cancel
<1>6. ASSUME NEW r \in Receives, destroy(r) PROVE ReceiverInv'
    BY <1>6 DEF destroy
<1>7. CASE StartTimeout
    BY <1>7, SMTT(30) DEF StartTimeout
<1>8. CASE CloseLocked
    BY <1>8 DEF CloseLocked, Return, TakeCallback
<1>9. CASE SourceCloses
    BY <1>9 DEF SourceCloses, Return
<1>10. CASE DrainLock
    BY <1>10 DEF DrainLock
<1>11. CASE DrainEnd
    BY <1>11 DEF DrainEnd
<1>12. CASE DisposeEnd
    BY <1>12 DEF DisposeEnd
<1>13. CASE ReapLate
    BY <1>13 DEF ReapLate
<1>14. CASE ReapEnd
    BY <1>14 DEF ReapEnd, ReapRelease
<1>15. CASE close
    BY <1>15 DEF close
<1>16. CASE dispose
    BY <1>16 DEF dispose
<1>17. CASE request_close
    BY <1>17 DEF request_close
<1>18. CASE Unreferenced
    BY <1>18 DEF Unreferenced
<1>19. CASE finalizer
    BY <1>19 DEF finalizer
<1>20. CASE reap
    BY <1>20 DEF reap, TakeCallback, Reapable
<1>21. CASE UNCHANGED <<js, op, phase, receiver, got>>
    BY <1>21
<1>22. QED
    BY <1>1, <1>2, <1>3, <1>4, <1>5, <1>6, <1>7, <1>8, <1>9, <1>10, <1>11, <1>12, <1>13,
       <1>14, <1>15, <1>16, <1>17, <1>18, <1>19, <1>20, <1>21 DEF Next, Offer, Produce,
       Check, Lock, Send, Evict, Retry, Count, Wake, SourceReleases, Receive, Timer,
       Operation, DrainOne, reset_counters, Finished, Refuse

\* The source is told once.
LEMMA SourceStep == LifeType /\ SourceType /\ TaskInv /\ SourceInv /\ [Next]_vars =>
   SourceInv'
<1> SUFFICES ASSUME LifeType, SourceType, TaskInv, SourceInv, [Next]_vars PROVE SourceInv'
    OBVIOUS
<1> USE QueueAssumption DEF QueueAssumption, LifeType, SourceType, TaskInv, SourceInv,
   None
<1>1. CASE SourceReleases
    BY <1>1 DEF SourceReleases
<1>2. ASSUME NEW r \in Receives, start(r) PROVE SourceInv'
    BY <1>2 DEF start
<1>3. CASE StartTimeout
    BY <1>3 DEF StartTimeout
<1>4. CASE CloseLocked
    BY <1>4 DEF CloseLocked, Return, TakeCallback
<1>5. CASE SourceCloses
    BY <1>5 DEF SourceCloses, Return
<1>6. CASE DrainLock
    BY <1>6 DEF DrainLock
<1>7. CASE DrainEnd
    BY <1>7 DEF DrainEnd
<1>8. CASE DisposeEnd
    BY <1>8 DEF DisposeEnd
<1>9. CASE ReapLate
    BY <1>9 DEF ReapLate
<1>10. CASE ReapEnd
    BY <1>10 DEF ReapEnd, ReapRelease
<1>11. CASE close
    BY <1>11 DEF close
<1>12. CASE dispose
    BY <1>12 DEF dispose
<1>13. CASE request_close
    BY <1>13 DEF request_close, RequestReap
<1>14. CASE Unreferenced
    BY <1>14 DEF Unreferenced
<1>15. CASE finalizer
    BY <1>15 DEF finalizer, RequestReap
<1>16. CASE reap
    BY <1>16 DEF reap, TakeCallback, Reapable
<1>17. CASE UNCHANGED <<js, source, closes, close_cb, closed, dispose_requested,
   reaper_hold>>
    BY <1>17
<1>18. QED
    BY <1>1, <1>2, <1>3, <1>4, <1>5, <1>6, <1>7, <1>8, <1>9, <1>10, <1>11, <1>12, <1>13,
       <1>14, <1>15, <1>16, <1>17 DEF Next, Offer, Produce, Check, Lock, Send, Evict,
       Retry, Count, Wake, Receive, prepare, poll, finish, cancel, destroy, Timer,
       Operation, DrainOne, reset_counters, Finished, Refuse

\* A source that has ended admits nobody.
LEMMA InsideStep == ProducerType /\ LifeType /\ SourceType /\ SourceInv /\ InsideInv /\
   [Next]_vars => InsideInv'
<1> SUFFICES ASSUME ProducerType, LifeType, SourceType, SourceInv, InsideInv, [Next]_vars
   PROVE InsideInv'
    OBVIOUS
<1> USE QueueAssumption DEF QueueAssumption, ProducerType, LifeType, SourceType,
   SourceInv, InsideInv, Inside, Goto
<1>1. ASSUME NEW p \in Producers, NEW e \in Events, Offer(p, e) PROVE InsideInv'
    BY <1>1 DEF Offer
<1>2. ASSUME NEW p \in Producers, Check(p) PROVE InsideInv'
    BY <1>2 DEF Check, Refuse
<1>3. ASSUME NEW p \in Producers, Lock(p) PROVE InsideInv'
    BY <1>3 DEF Lock
<1>4. ASSUME NEW p \in Producers, Send(p) PROVE InsideInv'
    BY <1>4 DEF Send, Overflow
<1>5. ASSUME NEW p \in Producers, Evict(p) PROVE InsideInv'
    BY <1>5 DEF Evict, Overflow
<1>6. ASSUME NEW p \in Producers, Retry(p) PROVE InsideInv'
    BY <1>6 DEF Retry, Overflow
<1>7. ASSUME NEW p \in Producers, Count(p) PROVE InsideInv'
    BY <1>7 DEF Count
<1>8. ASSUME NEW p \in Producers, Wake(p) PROVE InsideInv'
    BY <1>8 DEF Wake
<1>9. CASE SourceReleases
    BY <1>9 DEF SourceReleases
<1>10. CASE SourceCloses
    BY <1>10 DEF SourceCloses
<1>11. CASE UNCHANGED <<source, pc>>
    BY <1>11
<1>12. QED
    BY <1>1, <1>2, <1>3, <1>4, <1>5, <1>6, <1>7, <1>8, <1>9, <1>10, <1>11 DEF Next,
       Produce, Receive, prepare, start, poll, finish, cancel, destroy, Timer, Operation,
       StartTimeout, CloseLocked, DrainLock, DrainOne, DrainEnd, DisposeEnd, ReapLate,
       ReapEnd, close, dispose, request_close, Unreferenced, finalizer, reap,
       reset_counters, Finished

\* The send lock is its holder's until the holder gives it up.
LEMMA LockStep == ProducerType /\ LockType /\ LifeType /\ LockInv /\ [Next]_vars =>
   LockInv'
<1> SUFFICES ASSUME ProducerType, LockType, LifeType, LockInv, [Next]_vars PROVE LockInv'
    OBVIOUS
<1> USE QueueAssumption DEF QueueAssumption, ProducerType, LockType, LifeType, LockInv,
   Locking, Goto, Producers, Free, Runtime, None
<1>1. ASSUME NEW p \in Producers, NEW e \in Events, Offer(p, e) PROVE LockInv'
    BY <1>1 DEF Offer
<1>2. ASSUME NEW p \in Producers, Check(p) PROVE LockInv'
    BY <1>2 DEF Check, Refuse
<1>3. ASSUME NEW p \in Producers, Lock(p) PROVE LockInv'
    BY <1>3 DEF Lock
<1>4. ASSUME NEW p \in Producers, Send(p) PROVE LockInv'
    BY <1>4 DEF Send, Overflow
<1>5. ASSUME NEW p \in Producers, Evict(p) PROVE LockInv'
    BY <1>5 DEF Evict, Overflow
<1>6. ASSUME NEW p \in Producers, Retry(p) PROVE LockInv'
    BY <1>6 DEF Retry, Overflow
<1>7. ASSUME NEW p \in Producers, Count(p) PROVE LockInv'
    BY <1>7 DEF Count
<1>8. ASSUME NEW p \in Producers, Wake(p) PROVE LockInv'
    BY <1>8 DEF Wake
<1>9. ASSUME NEW r \in Receives, start(r) PROVE LockInv'
    BY <1>9 DEF start
<1>10. CASE StartTimeout
    BY <1>10 DEF StartTimeout
<1>11. CASE CloseLocked
    BY <1>11 DEF CloseLocked, Return
<1>12. CASE SourceCloses
    BY <1>12 DEF SourceCloses, Return
<1>13. CASE DrainLock
    BY <1>13 DEF DrainLock
<1>14. CASE DrainEnd
    BY <1>14 DEF DrainEnd
<1>15. CASE DisposeEnd
    BY <1>15 DEF DisposeEnd
<1>16. CASE ReapLate
    BY <1>16 DEF ReapLate
<1>17. CASE ReapEnd
    BY <1>17 DEF ReapEnd
<1>18. CASE close
    BY <1>18 DEF close
<1>19. CASE dispose
    BY <1>19 DEF dispose
<1>20. CASE reap
    BY <1>20 DEF reap
<1>21. CASE UNCHANGED <<send_lock, pc, js>>
    BY <1>21
<1>22. QED
    BY <1>1, <1>2, <1>3, <1>4, <1>5, <1>6, <1>7, <1>8, <1>9, <1>10, <1>11, <1>12, <1>13,
       <1>14, <1>15, <1>16, <1>17, <1>18, <1>19, <1>20, <1>21 DEF Next, Produce,
       SourceReleases, Receive, prepare, poll, finish, cancel, destroy, Timer, Operation,
       DrainOne, request_close, Unreferenced, finalizer, reset_counters, Finished

\* The receives whose state exists are finitely many.
LEMMA LiveType == ReceiveType => IsFiniteSet(Live) /\ Cardinality(Live) \in Nat
    BY QueueAssumption, FS_Subset, FS_CardinalityType DEF QueueAssumption, Live

\* The retains of a queue to be freed are gone, and with them their owners.
LEMMA FreedRetains ==
    ReceiveType /\ RetainsExact /\ native_retain_count = 0
        => Live = {} /\ ~reaper_hold /\ ~source.retains
    BY LiveType, FS_EmptySet DEF RetainsExact

\* A retain is counted for as long as its owner exists.
LEMMA RetainsStep == LifeType /\ SourceType /\ ReceiveType /\ TaskInv /\ RetainsExact /\
   [Next]_vars => RetainsExact'
<1> SUFFICES ASSUME LifeType, SourceType, ReceiveType, TaskInv, RetainsExact, [Next]_vars
   PROVE RetainsExact'
    OBVIOUS
<1> USE LiveType, QueueAssumption DEF QueueAssumption, LifeType, SourceType, ReceiveType,
   TaskInv, RetainsExact
<1>1. CASE SourceReleases
    <2>1. Live' = Live
        BY <1>1 DEF SourceReleases, Live
    <2>2. QED
        BY <2>1, <1>1 DEF SourceReleases, Release
<1>2. ASSUME NEW r \in Receives, prepare(r) PROVE RetainsExact'
    <2>1. Live' = Live \union {r} /\ r \notin Live
        BY <1>2 DEF prepare, Live
    <2>2. Cardinality(Live') = Cardinality(Live) + 1
        BY <2>1, FS_AddElement
    <2>3. QED
        BY <2>2, <1>2 DEF prepare
<1>3. ASSUME NEW r \in Receives, start(r) PROVE RetainsExact'
    <2>1. Live' = Live
        BY <1>3 DEF start, Live
    <2>2. QED
        BY <2>1, <1>3 DEF start
<1>4. ASSUME NEW r \in Receives, poll(r) PROVE RetainsExact'
    <2>1. Live' = Live
        BY <1>4 DEF poll, Live
    <2>2. QED
        BY <2>1, <1>4 DEF poll
<1>5. ASSUME NEW r \in Receives, finish(r) PROVE RetainsExact'
    <2>1. Live' = Live
        BY <1>5 DEF finish, Live
    <2>2. QED
        BY <2>1, <1>5 DEF finish
<1>6. ASSUME NEW r \in Receives, cancel(r) PROVE RetainsExact'
    <2>1. Live' = Live
        BY <1>6 DEF cancel, Live
    <2>2. QED
        BY <2>1, <1>6 DEF cancel
<1>7. ASSUME NEW r \in Receives, destroy(r) PROVE RetainsExact'
    <2>1. Live' = Live \ {r} /\ r \in Live
        BY <1>7 DEF destroy, Live
    <2>2. Cardinality(Live') = Cardinality(Live) - 1
        BY <2>1, FS_RemoveElement
    <2>3. QED
        BY <2>2, <1>7 DEF destroy, Release
<1>8. CASE StartTimeout
    <2>1. Live' = Live
        BY <1>8 DEF StartTimeout, Live
    <2>2. QED
        BY <2>1, <1>8 DEF StartTimeout
<1>9. CASE SourceCloses
    <2>1. Live' = Live
        BY <1>9 DEF SourceCloses, Live
    <2>2. QED
        BY <2>1, <1>9 DEF SourceCloses
<1>10. CASE ReapEnd
    <2>1. Live' = Live
        BY <1>10 DEF ReapEnd, Live
    <2>2. QED
        BY <2>1, <1>10 DEF ReapEnd, ReapRelease
<1>11. CASE request_close
    <2>1. Live' = Live /\ UNCHANGED source /\ RequestReap(FALSE)
        BY <1>11 DEF request_close, Live
    <2>2. QED
        BY <2>1 DEF RequestReap
<1>12. CASE finalizer
    <2>1. Live' = Live /\ UNCHANGED source /\ RequestReap(TRUE)
        BY <1>12 DEF finalizer, Live
    <2>2. QED
        BY <2>1 DEF RequestReap
<1>13. CASE UNCHANGED <<native_retain_count, phase, reaper_hold, source>>
    BY <1>13 DEF Live
<1>14. QED
    BY <1>1, <1>2, <1>3, <1>4, <1>5, <1>6, <1>7, <1>8, <1>9, <1>10, <1>11, <1>12, <1>13
       DEF Next, Offer, Produce, Check, Lock, Send, Evict, Retry, Count, Wake, Receive,
       Timer, Operation, CloseLocked, DrainLock, DrainOne, DrainEnd, DisposeEnd, ReapLate,
       close, dispose, Unreferenced, reap, reset_counters, Finished, Refuse

\* Nobody takes a queue again that is to be freed.
LEMMA EndStep == LifeType /\ SourceType /\ ReceiveType /\ TaskInv /\ ReceiverInv /\
   RetainsExact /\ EndInv /\ [Next]_vars => EndInv'
<1> SUFFICES ASSUME LifeType, SourceType, ReceiveType, TaskInv, ReceiverInv, RetainsExact,
   EndInv, [Next]_vars PROVE EndInv'
    OBVIOUS
<1> USE LiveType, FreedRetains, QueueAssumption DEF QueueAssumption, LifeType,
   ReceiveType, TaskInv, ReceiverInv, EndInv, None, Live
<1>1. CASE SourceReleases
    BY <1>1 DEF SourceReleases, Release, TakeDestroy
<1>2. ASSUME NEW r \in Receives, prepare(r) PROVE EndInv'
    BY <1>2 DEF prepare
<1>3. ASSUME NEW r \in Receives, start(r) PROVE EndInv'
    BY <1>3 DEF start
<1>4. CASE StartTimeout
    BY <1>4 DEF StartTimeout
<1>5. ASSUME NEW r \in Receives, poll(r) PROVE EndInv'
    BY <1>5 DEF poll
<1>6. ASSUME NEW r \in Receives, cancel(r) PROVE EndInv'
    BY <1>6 DEF cancel
<1>7. ASSUME NEW r \in Receives, destroy(r) PROVE EndInv'
    BY <1>7 DEF destroy, Release, TakeDestroy
<1>8. CASE DisposeEnd
    BY <1>8 DEF DisposeEnd, TakeDestroy
<1>9. CASE ReapEnd
    BY <1>9 DEF ReapEnd, ReapRelease, TakeDestroy
<1>10. CASE request_close
    BY <1>10 DEF request_close, RequestReap
<1>11. CASE finalizer
    BY <1>11 DEF finalizer, RequestReap
<1>12. CASE UNCHANGED <<destroying, dispose_requested, native_retain_count, receiver>>
    BY <1>12
<1>13. QED
    BY <1>1, <1>2, <1>3, <1>4, <1>5, <1>6, <1>7, <1>8, <1>9, <1>10, <1>11, <1>12 DEF Next,
       Offer, Produce, Check, Lock, Send, Evict, Retry, Count, Wake, Receive, finish,
       Timer, Operation, CloseLocked, SourceCloses, DrainLock, DrainOne, DrainEnd,
       ReapLate, close, dispose, Unreferenced, reap, reset_counters, Finished, Refuse

\* When the memory is freed nobody is left who would use it.
LEMMA FreedIsUnused == TypeInv /\ OwnerInv /\ RetainsExact => FreedWhenUnused
<1> SUFFICES ASSUME TypeInv, OwnerInv, RetainsExact, destroying
             PROVE  /\ Inside = {} /\ Live = {} /\ js = "idle" /\ send_lock = Free
                    /\ receiver = None /\ ~Reapable
    BY DEF FreedWhenUnused
<1> USE QueueAssumption DEF QueueAssumption, TypeInv, OwnerInv
<1>1. dispose_requested /\ native_retain_count = 0 /\ receiver = None
    BY DEF EndInv
<1>2. Live = {} /\ ~reaper_hold /\ ~source.retains
    BY <1>1, FreedRetains
<1>3. op = None /\ js = "idle"
    BY <1>1, <1>2 DEF TaskInv, LifeType, ReceiveType, Live
<1>4. Inside = {}
    BY <1>1, <1>2, <1>3 DEF SourceInv, InsideInv
<1>5. send_lock = Free
    BY <1>3, <1>4 DEF LockInv, LockType, Locking, Inside, Producers
<1>6. ~Reapable
    BY <1>2 DEF Reapable, TaskInv
<1> QED
    BY <1>1, <1>2, <1>3, <1>4, <1>5, <1>6

\* An access of the RTOS queue moves one event into it or its oldest event
\* out of it.
LEMMA EnqueueMoves ==
    ASSUME ContentType, QueuedInv, NEW e \in Events, fate[e] = "offered", Enqueue(e)
    PROVE  QueuedInv'
<1> USE DEF ContentType, QueuedInv, Enqueue
<1>1. queue' \in Seq(Events) /\ Len(queue') = Len(queue) + 1 /\ queue'[Len(queue) + 1] = e
      /\ \A i \in 1 .. Len(queue) : queue'[i] = queue[i]
    OBVIOUS
<1>2. \A i \in 1 .. Len(queue) : queue[i] # e /\ queue[i] \in Events
    OBVIOUS
<1>3. fate'[e] = "queued" /\ \A f \in Events : f # e => fate'[f] = fate[f]
    OBVIOUS
<1>4. \A i, j \in 1 .. Len(queue') : queue'[i] = queue'[j] => i = j
    BY <1>1, <1>2
<1>5. \A i \in 1 .. Len(queue') : fate'[queue'[i]] = "queued"
    <2>1. \A i \in 1 .. Len(queue) : fate'[queue[i]] = "queued"
        BY <1>2, <1>3
    <2>2. \A i \in 1 .. Len(queue') : i \in 1 .. Len(queue) \/ i = Len(queue) + 1
        BY <1>1
    <2>3. QED
        BY <1>1, <1>3, <2>1, <2>2
<1>6. \A f \in Events : fate'[f] = "queued" => \E i \in 1 .. Len(queue') : queue'[i] = f
    BY <1>1, <1>3
<1> QED
    BY <1>4, <1>5, <1>6
LEMMA DequeueMoves ==
    ASSUME ContentType, QueuedInv, NEW as \in {"taken", "gone"}, Dequeue(as)
    PROVE  /\ QueuedInv' /\ Head(queue) \in Events /\ fate[Head(queue)] = "queued"
           /\ fate' = [fate EXCEPT ![Head(queue)] = as]
<1> USE DEF ContentType, QueuedInv, Dequeue
<1>1. queue' \in Seq(Events) /\ Len(queue') = Len(queue) - 1 /\ Len(queue) \in Nat \ {0}
      /\ \A i \in 1 .. Len(queue') : queue'[i] = queue[i + 1]
    OBVIOUS
<1>2. Head(queue) = queue[1] /\ Head(queue) \in Events /\ fate[Head(queue)] = "queued"
    BY <1>1
<1>3. \A i \in 1 .. Len(queue') : queue'[i] # Head(queue) /\ queue'[i] \in Events
    BY <1>1, <1>2
<1>4. fate'[Head(queue)] = as /\ \A f \in Events : f # Head(queue) => fate'[f] = fate[f]
    BY <1>2
<1>5. \A i, j \in 1 .. Len(queue') : queue'[i] = queue'[j] => i = j
    BY <1>1
<1>6. \A i \in 1 .. Len(queue') : fate'[queue'[i]] = "queued"
    <2>1. \A i \in 1 .. Len(queue') : fate[queue'[i]] = "queued"
        BY <1>1
    <2>2. QED
        BY <1>3, <1>4, <2>1
<1>7. \A f \in Events : fate'[f] = "queued" => \E i \in 1 .. Len(queue') : queue'[i] = f
    <2> SUFFICES ASSUME NEW f \in Events, fate'[f] = "queued"
                 PROVE  \E i \in 1 .. Len(queue') : queue'[i] = f
        OBVIOUS
    <2>1. f # Head(queue) /\ fate[f] = "queued"
        BY <1>2, <1>4
    <2>2. PICK i \in 1 .. Len(queue) : queue[i] = f
        BY <2>1
    <2>3. i # 1 /\ i - 1 \in 1 .. Len(queue') /\ queue'[i - 1] = f
        BY <1>1, <1>2, <2>1, <2>2
    <2>4. QED
        BY <2>3
<1> QED
    BY <1>2, <1>5, <1>6, <1>7

\* What becomes of an event outside the queue does not concern the queue.
LEMMA FateMoves ==
    ASSUME ContentType, QueuedInv, UNCHANGED queue,
           NEW e \in Events, fate[e] # "queued",
           NEW s \in {"offered", "gone"}, fate' = [fate EXCEPT ![e] = s]
    PROVE  QueuedInv'
    BY DEF ContentType, QueuedInv

\* The queue holds exactly the events that are queued, each once.
LEMMA QueuedStep == ContentType /\ ProducerType /\ ReceiveType /\ OfferedInv /\ QueuedInv
   /\ TakenInv /\ [Next]_vars => QueuedInv'
<1> SUFFICES ASSUME ContentType, ProducerType, ReceiveType, OfferedInv, QueuedInv,
   TakenInv, [Next]_vars PROVE QueuedInv'
    OBVIOUS
<1> USE QueueAssumption DEF QueueAssumption, ContentType, ProducerType, ReceiveType,
   Offering, Events, Producers
<1>1. ASSUME NEW p \in Producers, NEW e \in Events, Offer(p, e) PROVE QueuedInv'
    BY <1>1, FateMoves DEF Offer
<1>2. ASSUME NEW p \in Producers, Check(p) PROVE QueuedInv'
    <2>1. event[p] \in Events /\ fate[event[p]] = "offered"
        BY <1>2 DEF Check, OfferedInv
    <2>2. CASE Refuse(p)
        BY <2>1, <2>2, FateMoves DEF Refuse
    <2>3. CASE ~Refuse(p)
        BY <2>3, <1>2 DEF Check, QueuedInv
    <2>4. QED
        BY <2>2, <2>3
<1>3. ASSUME NEW p \in Producers, Lock(p) PROVE QueuedInv'
    <2>1. event[p] \in Events /\ fate[event[p]] = "offered"
        BY <1>3 DEF Lock, OfferedInv
    <2>2. CASE closed
        BY <2>1, <2>2, <1>3, FateMoves DEF Lock
    <2>3. CASE ~closed
        BY <2>3, <1>3, SMTT(30) DEF Lock, QueuedInv
    <2>4. QED
        BY <2>2, <2>3, <1>3 DEF Lock
<1>4. ASSUME NEW p \in Producers, Send(p) PROVE QueuedInv'
    <2>1. event[p] \in Events /\ fate[event[p]] = "offered"
        BY <1>4 DEF Send, OfferedInv
    <2>2. CASE Enqueue(event[p]) /\ Goto(p, IF p \in Senders THEN "count" ELSE "wake") /\ UNCHANGED event
        BY <2>1, <2>2, EnqueueMoves
    <2>3. CASE Goto(p, "evict") /\ UNCHANGED <<content, event, drops>>
        BY <2>3 DEF QueuedInv
    <2>4. CASE Overflow(p, 1)
        BY <2>1, <2>4, FateMoves DEF Overflow
    <2>5. QED
        BY <2>2, <2>3, <2>4, <1>4 DEF Send
<1>5. ASSUME NEW p \in Producers, Evict(p) PROVE QueuedInv'
    <2>1. event[p] \in Events /\ fate[event[p]] = "offered"
        BY <1>5 DEF Evict, OfferedInv
    <2>2. CASE Dequeue("gone") /\ Goto(p, "retry") /\ UNCHANGED event
        BY <2>2, DequeueMoves
    <2>3. CASE Overflow(p, 1)
        BY <2>1, <2>3, FateMoves DEF Overflow
    <2>4. QED
        BY <2>2, <2>3, <1>5 DEF Evict
<1>6. ASSUME NEW p \in Producers, Retry(p) PROVE QueuedInv'
    <2>1. event[p] \in Events /\ fate[event[p]] = "offered"
        BY <1>6 DEF Retry, OfferedInv
    <2>2. CASE Enqueue(event[p]) /\ Goto(p, "count") /\ UNCHANGED event
        BY <2>1, <2>2, EnqueueMoves
    <2>3. CASE Overflow(p, 2)
        BY <2>1, <2>3, FateMoves DEF Overflow
    <2>4. QED
        BY <2>2, <2>3, <1>6 DEF Retry
<1>7. ASSUME NEW r \in Receives, poll(r) PROVE QueuedInv'
    <2>1. CASE Dequeue("taken") /\ got' = [got EXCEPT ![r] = Head(queue)]
        BY <2>1, DequeueMoves
    <2>2. CASE UNCHANGED <<content, got>>
        BY <2>2 DEF QueuedInv
    <2>3. QED
        BY <2>1, <2>2, <1>7 DEF poll
<1>8. ASSUME NEW r \in Receives, finish(r) PROVE QueuedInv'
    BY <1>8, FateMoves DEF finish, QueuedInv, TakenInv
<1>9. ASSUME NEW r \in Receives, destroy(r) PROVE QueuedInv'
    BY <1>9, FateMoves DEF destroy, DropTaken, QueuedInv, TakenInv
<1>10. CASE DrainOne
    BY <1>10, DequeueMoves DEF DrainOne
<1>11. CASE UNCHANGED <<queue, fate>>
    BY <1>11 DEF QueuedInv
<1>12. QED
    BY <1>1, <1>2, <1>3, <1>4, <1>5, <1>6, <1>7, <1>8, <1>9, <1>10, <1>11 DEF Next,
       Produce, Count, Wake, SourceReleases, Receive, prepare, start, cancel, Timer,
       Operation, StartTimeout, CloseLocked, SourceCloses, DrainLock, DrainEnd,
       DisposeEnd, ReapLate, ReapEnd, close, dispose, request_close, Unreferenced,
       finalizer, reap, reset_counters, Finished

\* A producer parts with its event, or what becomes of another one does not
\* concern the producers; likewise for the receives.
LEMMA OfferedLeaves ==
    ASSUME ContentType, ProducerType, OfferedInv,
           NEW p \in Producers, pc[p] \in Offering, NEW label, label \notin Offering,
           pc' = [pc EXCEPT ![p] = label], \A q \in Producers \ {p} : event'[q] = event[q],
           NEW s, fate' = [fate EXCEPT ![event[p]] = s]
    PROVE  OfferedInv'
<1>1. \A q \in Producers : pc'[q] \in Offering =>
          q # p /\ pc[q] \in Offering /\ event'[q] = event[q]
    BY DEF ProducerType
<1>2. \A q \in Producers : pc'[q] \in Offering => event[q] # event[p] /\ event[q] \in Events
    BY <1>1 DEF OfferedInv, ProducerType, Events
<1>3. \A q \in Producers : pc'[q] \in Offering => fate'[event[q]] = fate[event[q]]
    BY <1>2 DEF ContentType
<1> QED
    BY <1>1, <1>3 DEF OfferedInv
LEMMA OfferedStays ==
    ASSUME ContentType, OfferedInv, UNCHANGED <<pc, event>>,
           NEW e \in Events, fate[e] # "offered", NEW s, fate' = [fate EXCEPT ![e] = s]
    PROVE  OfferedInv'
    BY DEF ContentType, OfferedInv
LEMMA TakenStays ==
    ASSUME ContentType, ReceiveType, TakenInv, UNCHANGED got, NEW e \in Events, fate[e] # "taken",
           NEW s, s # "taken", fate' = [fate EXCEPT ![e] = s]
    PROVE  TakenInv'
    BY DEF ContentType, ReceiveType, TakenInv, Events

\* A producer's event is its own until it is queued or refused.
LEMMA OfferedStep == ContentType /\ ProducerType /\ ReceiveType /\ OfferedInv /\ QueuedInv
   /\ TakenInv /\ [Next]_vars => OfferedInv'
<1> SUFFICES ASSUME ContentType, ProducerType, ReceiveType, OfferedInv, QueuedInv,
   TakenInv, [Next]_vars PROVE OfferedInv'
    OBVIOUS
<1> USE DEF Offering, Goto, Producers
<1>1. ASSUME NEW p \in Producers, NEW e \in Events, Offer(p, e) PROVE OfferedInv'
    <2>1. \A q \in Producers : pc[q] \in Offering => event[q] \in Events \ {e}
        BY <1>1 DEF Offer, OfferedInv, ProducerType, Events
    <2>2. \A q \in Producers \ {p} : pc'[q] = pc[q] /\ event'[q] = event[q]
        BY <1>1 DEF Offer, ProducerType
    <2>3. event'[p] = e /\ fate'[e] = "offered" /\ \A f \in Events \ {e} : fate'[f] = fate[f]
        BY <1>1 DEF Offer, ProducerType, ContentType
    <2>4. QED
        BY <2>1, <2>2, <2>3 DEF OfferedInv
<1>2. ASSUME NEW p \in Producers, Check(p) PROVE OfferedInv'
    <2>1. CASE Refuse(p)
        BY <2>1, <1>2, OfferedLeaves DEF Check, Refuse, ProducerType
    <2>2. CASE ~Refuse(p)
        BY <2>2, <1>2 DEF Check, OfferedInv, ProducerType
    <2>3. QED
        BY <2>1, <2>2, <1>2 DEF Check
<1>3. ASSUME NEW p \in Producers, Lock(p) PROVE OfferedInv'
    <2>1. CASE closed
        BY <2>1, <1>3, OfferedLeaves DEF Lock
    <2>2. CASE ~closed
        BY <2>2, <1>3 DEF Lock, OfferedInv, ProducerType
    <2>3. QED
        BY <2>1, <2>2, <1>3 DEF Lock
<1>4. ASSUME NEW p \in Producers, Send(p) PROVE OfferedInv'
    <2>1. CASE Enqueue(event[p]) /\ Goto(p, IF p \in Senders THEN "count" ELSE "wake") /\ UNCHANGED event
        BY <2>1, <1>4, OfferedLeaves DEF Send, Enqueue
    <2>2. CASE Goto(p, "evict") /\ UNCHANGED <<content, event, drops>>
        BY <2>2, <1>4 DEF Send, OfferedInv, ProducerType
    <2>3. CASE Overflow(p, 1)
        BY <2>3, <1>4, OfferedLeaves DEF Send, Overflow
    <2>4. QED
        BY <2>1, <2>2, <2>3, <1>4 DEF Send
<1>5. ASSUME NEW p \in Producers, Evict(p) PROVE OfferedInv'
    <2>1. CASE Dequeue("gone") /\ Goto(p, "retry") /\ UNCHANGED event
        <3>1. pc'[p] \in Offering /\ pc[p] \in Offering
              /\ \A q \in Producers \ {p} : pc'[q] = pc[q]
            BY <2>1, <1>5 DEF Evict, ProducerType
        <3>2. \A q \in Producers : pc[q] \in Offering =>
                  event[q] \in Events /\ event[q] # Head(queue)
            BY <2>1, DequeueMoves DEF OfferedInv, ProducerType, Events
        <3>3. \A q \in Producers : pc[q] \in Offering => fate'[event[q]] = fate[event[q]]
            BY <2>1, <3>2, DequeueMoves DEF ContentType
        <3>4. QED
            BY <2>1, <3>1, <3>3 DEF OfferedInv
    <2>2. CASE Overflow(p, 1)
        BY <2>2, <1>5, OfferedLeaves DEF Evict, Overflow
    <2>3. QED
        BY <2>1, <2>2, <1>5 DEF Evict
<1>6. ASSUME NEW p \in Producers, Retry(p) PROVE OfferedInv'
    <2>1. CASE Enqueue(event[p]) /\ Goto(p, "count") /\ UNCHANGED event
        BY <2>1, <1>6, OfferedLeaves DEF Retry, Enqueue
    <2>2. CASE Overflow(p, 2)
        BY <2>2, <1>6, OfferedLeaves DEF Retry, Overflow
    <2>3. QED
        BY <2>1, <2>2, <1>6 DEF Retry
<1>7. ASSUME NEW p \in Producers, Count(p) PROVE OfferedInv'
    BY <1>7 DEF Count, OfferedInv, ProducerType
<1>8. ASSUME NEW p \in Producers, Wake(p) PROVE OfferedInv'
    BY <1>8 DEF Wake, OfferedInv, ProducerType
<1>9. ASSUME NEW r \in Receives, poll(r) PROVE OfferedInv'
    <2>1. CASE Dequeue("taken") /\ got' = [got EXCEPT ![r] = Head(queue)]
        BY <2>1, <1>9, DequeueMoves, OfferedStays DEF poll
    <2>2. CASE UNCHANGED <<content, got>>
        BY <2>2, <1>9 DEF poll, OfferedInv
    <2>3. QED
        BY <2>1, <2>2, <1>9 DEF poll
<1>10. ASSUME NEW r \in Receives, finish(r) PROVE OfferedInv'
    <2>1. CASE got[r] = 0
        BY <2>1, <1>10 DEF finish, OfferedInv
    <2>2. CASE got[r] # 0
        <3>1. got[r] \in Events /\ fate[got[r]] = "taken" /\ fate' = [fate EXCEPT ![got[r]] = "gone"]
            BY <2>2, <1>10 DEF finish, TakenInv, ReceiveType, Events
        <3>2. QED
            BY <3>1, <1>10, OfferedStays DEF finish
    <2>3. QED
        BY <2>1, <2>2, <1>10 DEF finish
<1>11. ASSUME NEW r \in Receives, destroy(r) PROVE OfferedInv'
    <2>1. CASE got[r] = 0
        BY <2>1, <1>11 DEF destroy, DropTaken, OfferedInv
    <2>2. CASE got[r] # 0
        <3>1. got[r] \in Events /\ fate[got[r]] = "taken" /\ fate' = [fate EXCEPT ![got[r]] = "gone"]
            BY <2>2, <1>11 DEF destroy, DropTaken, TakenInv, ReceiveType, Events
        <3>2. QED
            BY <3>1, <1>11, OfferedStays DEF destroy
    <2>3. QED
        BY <2>1, <2>2, <1>11 DEF destroy
<1>12. CASE DrainOne
    BY <1>12, DequeueMoves, OfferedStays DEF DrainOne
<1>13. CASE UNCHANGED <<pc, event, fate>>
    BY <1>13 DEF OfferedInv
<1>14. QED
    BY <1>1, <1>2, <1>3, <1>4, <1>5, <1>6, <1>7, <1>8, <1>9, <1>10, <1>11, <1>12, <1>13
       DEF Next, Produce, SourceReleases, Receive, prepare, start, cancel, Timer,
       Operation, StartTimeout, CloseLocked, SourceCloses, DrainLock, DrainEnd,
       DisposeEnd, ReapLate, ReapEnd, close, dispose, request_close, Unreferenced,
       finalizer, reap, reset_counters, Finished

\* An event taken is with the one receive that took it.
LEMMA TakenStep == ContentType /\ ProducerType /\ ReceiveType /\ ReceiverInv /\ OfferedInv
   /\ QueuedInv /\ TakenInv /\ [Next]_vars => TakenInv'
<1> SUFFICES ASSUME ContentType, ProducerType, ReceiveType, ReceiverInv, OfferedInv,
   QueuedInv, TakenInv, [Next]_vars PROVE TakenInv'
    OBVIOUS
<1> USE DEF TakenInv
<1>1. ASSUME NEW p \in Producers, NEW e \in Events, Offer(p, e) PROVE TakenInv'
    BY <1>1, TakenStays DEF Offer
<1>2. ASSUME NEW p \in Producers, Check(p) PROVE TakenInv'
    <2>1. event[p] \in Events /\ fate[event[p]] = "offered"
        BY <1>2 DEF Check, OfferedInv, Offering, ProducerType, Events
    <2>2. QED
        BY <2>1, <1>2, TakenStays DEF Check, Refuse
<1>3. ASSUME NEW p \in Producers, Lock(p) PROVE TakenInv'
    <2>1. event[p] \in Events /\ fate[event[p]] = "offered"
        BY <1>3 DEF Lock, OfferedInv, Offering, ProducerType, Events
    <2>2. QED
        BY <2>1, <1>3, TakenStays DEF Lock
<1>4. ASSUME NEW p \in Producers, Send(p) PROVE TakenInv'
    <2>1. event[p] \in Events /\ fate[event[p]] = "offered"
        BY <1>4 DEF Send, OfferedInv, Offering, ProducerType, Events
    <2>2. CASE Enqueue(event[p]) /\ Goto(p, IF p \in Senders THEN "count" ELSE "wake") /\ UNCHANGED event
        BY <2>1, <2>2, <1>4, TakenStays DEF Send, Enqueue
    <2>3. CASE Goto(p, "evict") /\ UNCHANGED <<content, event, drops>>
        BY <2>3, <1>4 DEF Send
    <2>4. CASE Overflow(p, 1)
        BY <2>1, <2>4, <1>4, TakenStays DEF Send, Overflow
    <2>5. QED
        BY <2>2, <2>3, <2>4, <1>4 DEF Send
<1>5. ASSUME NEW p \in Producers, Evict(p) PROVE TakenInv'
    <2>1. event[p] \in Events /\ fate[event[p]] = "offered"
        BY <1>5 DEF Evict, OfferedInv, Offering, ProducerType, Events
    <2>2. CASE Dequeue("gone") /\ Goto(p, "retry") /\ UNCHANGED event
        BY <2>2, <1>5, DequeueMoves, TakenStays DEF Evict
    <2>3. CASE Overflow(p, 1)
        BY <2>1, <2>3, <1>5, TakenStays DEF Evict, Overflow
    <2>4. QED
        BY <2>2, <2>3, <1>5 DEF Evict
<1>6. ASSUME NEW p \in Producers, Retry(p) PROVE TakenInv'
    <2>1. event[p] \in Events /\ fate[event[p]] = "offered"
        BY <1>6 DEF Retry, OfferedInv, Offering, ProducerType, Events
    <2>2. CASE Enqueue(event[p]) /\ Goto(p, "count") /\ UNCHANGED event
        BY <2>1, <2>2, <1>6, TakenStays DEF Retry, Enqueue
    <2>3. CASE Overflow(p, 2)
        BY <2>1, <2>3, <1>6, TakenStays DEF Retry, Overflow
    <2>4. QED
        BY <2>2, <2>3, <1>6 DEF Retry
<1>7. ASSUME NEW r \in Receives, poll(r) PROVE TakenInv'
    <2>1. CASE Dequeue("taken") /\ got' = [got EXCEPT ![r] = Head(queue)]
        <3>1. got[r] = 0 /\ got' = [got EXCEPT ![r] = Head(queue)]
            BY <2>1, <1>7 DEF poll, ReceiverInv
        <3>2. \A s \in Receives \ {r} : got'[s] = got[s] /\ got[s] # Head(queue)
            BY <3>1, <2>1, DequeueMoves DEF ReceiveType, Events
        <3>3. got'[r] = Head(queue) /\ fate'[Head(queue)] = "taken" /\ Head(queue) \in Events
              /\ \A e \in Events \ {Head(queue)} : fate'[e] = fate[e]
            BY <3>1, <2>1, DequeueMoves DEF ReceiveType, ContentType
        <3>4. \A s \in Receives \ {r} : got[s] # 0 => got[s] \in Events
            BY DEF ReceiveType, Events
        <3>5. \A s \in Receives : got'[s] # 0 => fate'[got'[s]] = "taken"
            BY <3>2, <3>3, <3>4
        <3>6. \A s, t \in Receives : (got'[s] = got'[t] /\ got'[s] # 0) => s = t
            BY <3>2, <3>3
        <3>7. \A e \in Events : fate'[e] = "taken" => \E s \in Receives : got'[s] = e
            <4> SUFFICES ASSUME NEW e \in Events \ {Head(queue)}, fate[e] = "taken"
                         PROVE  \E s \in Receives : got'[s] = e
                BY <3>3
            <4>1. PICK s \in Receives : got[s] = e
                OBVIOUS
            <4>2. s # r
                BY <3>1, <4>1 DEF Events
            <4>3. QED
                BY <3>2, <4>1, <4>2
        <3>8. QED
            BY <3>5, <3>6, <3>7
    <2>2. CASE UNCHANGED <<content, got>>
        BY <2>2
    <2>3. QED
        BY <2>1, <2>2, <1>7 DEF poll
<1>8. ASSUME NEW r \in Receives, finish(r) PROVE TakenInv'
    <2>1. CASE got[r] = 0
        <3>1. got' = got
            BY <2>1, <1>8 DEF finish, ReceiveType
        <3>2. QED
            BY <2>1, <3>1, <1>8 DEF finish
    <2>2. CASE got[r] # 0
        <3>1. got[r] \in Events /\ fate[got[r]] = "taken" /\ fate' = [fate EXCEPT ![got[r]] = "gone"]
            BY <2>2, <1>8 DEF finish, ReceiveType, Events
        <3>2. got'[r] = 0 /\ \A s \in Receives \ {r} : got'[s] = got[s] /\ got[s] # got[r]
            BY <2>2, <1>8 DEF finish, ReceiveType
        <3>3. fate'[got[r]] = "gone" /\ \A e \in Events \ {got[r]} : fate'[e] = fate[e]
            BY <3>1 DEF ContentType
        <3>4. \A s \in Receives \ {r} : got[s] # 0 => got[s] \in Events
            BY DEF ReceiveType, Events
        <3>5. QED
            BY <3>2, <3>3, <3>4
    <2>3. QED
        BY <2>1, <2>2
<1>9. ASSUME NEW r \in Receives, destroy(r) PROVE TakenInv'
    <2>1. CASE got[r] = 0
        <3>1. got' = got
            BY <2>1, <1>9 DEF destroy, ReceiveType
        <3>2. QED
            BY <2>1, <3>1, <1>9 DEF destroy, DropTaken
    <2>2. CASE got[r] # 0
        <3>1. got[r] \in Events /\ fate[got[r]] = "taken" /\ fate' = [fate EXCEPT ![got[r]] = "gone"]
            BY <2>2, <1>9 DEF destroy, DropTaken, ReceiveType, Events
        <3>2. got'[r] = 0 /\ \A s \in Receives \ {r} : got'[s] = got[s] /\ got[s] # got[r]
            BY <2>2, <1>9 DEF destroy, ReceiveType
        <3>3. fate'[got[r]] = "gone" /\ \A e \in Events \ {got[r]} : fate'[e] = fate[e]
            BY <3>1 DEF ContentType
        <3>4. \A s \in Receives \ {r} : got[s] # 0 => got[s] \in Events
            BY DEF ReceiveType, Events
        <3>5. QED
            BY <3>2, <3>3, <3>4
    <2>3. QED
        BY <2>1, <2>2
<1>10. CASE DrainOne
    BY <1>10, DequeueMoves, TakenStays DEF DrainOne
<1>11. CASE UNCHANGED <<fate, got>>
    BY <1>11
<1>12. QED
    BY <1>1, <1>2, <1>3, <1>4, <1>5, <1>6, <1>7, <1>8, <1>9, <1>10, <1>11 DEF Next,
       Produce, Count, Wake, SourceReleases, Receive, prepare, start, cancel, Timer,
       Operation, StartTimeout, CloseLocked, SourceCloses, DrainLock, DrainEnd,
       DisposeEnd, ReapLate, ReapEnd, close, dispose, request_close, Unreferenced,
       finalizer, reap, reset_counters, Finished

\* A drained queue stays empty when nobody is left inside its source.
LEMMA DrainedStep == ProducerType /\ LifeType /\ SourceType /\ TaskInv /\ SourceInv /\
   InsideInv /\ DrainedInv /\ [Next]_vars => DrainedInv'
<1> SUFFICES ASSUME ProducerType, LifeType, SourceType, TaskInv, SourceInv, InsideInv,
   DrainedInv, [Next]_vars PROVE DrainedInv'
    OBVIOUS
<1> USE QueueAssumption DEF QueueAssumption, LifeType, SourceType, TaskInv, SourceInv,
   InsideInv, DrainedInv, None, Inside
<1>1. ASSUME NEW p \in Producers, Send(p) PROVE DrainedInv'
    BY <1>1 DEF Send
<1>2. ASSUME NEW p \in Producers, Evict(p) PROVE DrainedInv'
    BY <1>2 DEF Evict
<1>3. ASSUME NEW p \in Producers, Retry(p) PROVE DrainedInv'
    BY <1>3 DEF Retry
<1>4. CASE SourceReleases
    BY <1>4 DEF SourceReleases
<1>5. ASSUME NEW r \in Receives, start(r) PROVE DrainedInv'
    BY <1>5 DEF start
<1>6. ASSUME NEW r \in Receives, poll(r) PROVE DrainedInv'
    BY <1>6 DEF poll, Dequeue
<1>7. CASE StartTimeout
    BY <1>7 DEF StartTimeout
<1>8. CASE CloseLocked
    BY <1>8 DEF CloseLocked, Return, TakeCallback
<1>9. CASE SourceCloses
    BY <1>9 DEF SourceCloses, Return
<1>10. CASE DrainLock
    BY <1>10 DEF DrainLock
<1>11. CASE DrainOne
    BY <1>11 DEF DrainOne, Dequeue
<1>12. CASE DrainEnd
    BY <1>12 DEF DrainEnd
<1>13. CASE DisposeEnd
    BY <1>13 DEF DisposeEnd
<1>14. CASE ReapLate
    BY <1>14 DEF ReapLate
<1>15. CASE ReapEnd
    BY <1>15 DEF ReapEnd, ReapRelease
<1>16. CASE close
    BY <1>16 DEF close
<1>17. CASE dispose
    BY <1>17 DEF dispose
<1>18. CASE request_close
    BY <1>18 DEF request_close, RequestReap
<1>19. CASE finalizer
    BY <1>19 DEF finalizer, RequestReap
<1>20. CASE reap
    BY <1>20 DEF reap, TakeCallback, Reapable
<1>21. CASE UNCHANGED <<queue, source, js, dispose_requested, reaper_hold>>
    BY <1>21
<1>22. QED
    BY <1>1, <1>2, <1>3, <1>4, <1>5, <1>6, <1>7, <1>8, <1>9, <1>10, <1>11, <1>12, <1>13,
       <1>14, <1>15, <1>16, <1>17, <1>18, <1>19, <1>20, <1>21 DEF Next, Offer, Produce,
       Check, Lock, Count, Wake, Receive, prepare, finish, cancel, destroy, Timer,
       Operation, Unreferenced, reset_counters, Finished, Refuse

\* Losses to be counted are those of producers about to count.
LEMMA DropStep == ProducerType /\ DropInv /\ [Next]_vars => DropInv'
<1> SUFFICES ASSUME ProducerType, DropInv, [Next]_vars PROVE DropInv'
    OBVIOUS
<1> USE QueueAssumption DEF QueueAssumption, ProducerType, DropInv, Goto, Producers
<1>1. ASSUME NEW p \in Producers, NEW e \in Events, Offer(p, e) PROVE DropInv'
    BY <1>1 DEF Offer
<1>2. ASSUME NEW p \in Producers, Check(p) PROVE DropInv'
    BY <1>2 DEF Check, Refuse
<1>3. ASSUME NEW p \in Producers, Lock(p) PROVE DropInv'
    BY <1>3 DEF Lock
<1>4. ASSUME NEW p \in Producers, Send(p) PROVE DropInv'
    BY <1>4 DEF Send, Overflow
<1>5. ASSUME NEW p \in Producers, Evict(p) PROVE DropInv'
    BY <1>5 DEF Evict, Overflow
<1>6. ASSUME NEW p \in Producers, Retry(p) PROVE DropInv'
    BY <1>6 DEF Retry, Overflow
<1>7. ASSUME NEW p \in Producers, Count(p) PROVE DropInv'
    BY <1>7 DEF Count
<1>8. ASSUME NEW p \in Producers, Wake(p) PROVE DropInv'
    BY <1>8 DEF Wake
<1>9. CASE UNCHANGED <<pc, drops>>
    BY <1>9
<1>10. QED
    BY <1>1, <1>2, <1>3, <1>4, <1>5, <1>6, <1>7, <1>8, <1>9 DEF Next, Produce,
       SourceReleases, Receive, prepare, start, poll, finish, cancel, destroy, Timer,
       Operation, StartTimeout, CloseLocked, SourceCloses, DrainLock, DrainOne, DrainEnd,
       DisposeEnd, ReapLate, ReapEnd, close, dispose, request_close, Unreferenced,
       finalizer, reap, reset_counters, Finished

\* The losses still to be counted change with one producer's.
LEMMA UncountedType == IsFiniteSet(Uncounted) /\ Cardinality(Uncounted) \in Nat
<1>1. IsFiniteSet(Producers \X (1 .. 2))
    <2>1. IsFiniteSet(Producers)
        BY QueueAssumption, FS_Union DEF QueueAssumption, Producers
    <2>2. 1 \in Int /\ 2 \in Int
        OBVIOUS
    <2>3. IsFiniteSet(1 .. 2)
        BY <2>2, FS_Interval
    <2>4. QED
        BY <2>1, <2>3, FS_Product
<1>2. Uncounted \in SUBSET (Producers \X (1 .. 2))
    BY DEF Uncounted
<1> QED
    BY <1>1, <1>2, FS_Subset, FS_CardinalityType
LEMMA LossAdded ==
    ASSUME ProducerType, NEW p \in Producers, drops[p] \in {0, 1},
           drops' = [drops EXCEPT ![p] = drops[p] + 1]
    PROVE  Cardinality(Uncounted') = Cardinality(Uncounted) + 1
<1>1. Uncounted' = Uncounted \union {<<p, drops[p] + 1>>}
      /\ <<p, drops[p] + 1>> \notin Uncounted
    BY DEF Uncounted, ProducerType
<1> QED
    BY <1>1, UncountedType, FS_AddElement
LEMMA LossesCounted ==
    ASSUME ProducerType, NEW p \in Producers, drops' = [drops EXCEPT ![p] = 0]
    PROVE  Cardinality(Uncounted') = Cardinality(Uncounted) - drops[p]
<1> DEFINE One == Uncounted \ {<<p, 2>>}
<1>1. Uncounted' = One \ {<<p, 1>>}
    BY DEF Uncounted, ProducerType
<1>2. /\ drops[p] \in 0 .. 2
      /\ <<p, 2>> \in Uncounted <=> drops[p] = 2
      /\ <<p, 1>> \in One <=> drops[p] \in {1, 2}
    BY DEF Uncounted, ProducerType
<1>3. /\ IsFiniteSet(One)
      /\ Cardinality(One) = IF <<p, 2>> \in Uncounted THEN Cardinality(Uncounted) - 1
                                                     ELSE Cardinality(Uncounted)
    BY UncountedType, FS_RemoveElement
<1> HIDE DEF One
<1>4. Cardinality(Uncounted') = IF <<p, 1>> \in One THEN Cardinality(One) - 1
                                                   ELSE Cardinality(One)
    BY <1>1, <1>3, FS_RemoveElement
<1> QED
    BY <1>2, <1>3, <1>4, UncountedType

\* Every loss is counted or will be, and the high-water mark is the largest
\* depth.
LEMMA CountersStep == ContentType /\ CountType /\ ProducerType /\ DropInv /\ CountersExact
   /\ [Next]_vars => CountersExact'
<1> SUFFICES ASSUME ContentType, CountType, ProducerType, DropInv, CountersExact,
   [Next]_vars PROVE CountersExact'
    OBVIOUS
<1> USE UncountedType DEF CountersExact
<1>1. ASSUME NEW p \in Producers, NEW e \in Events, Offer(p, e) PROVE CountersExact'
    <2>1. drops' = drops
        BY <1>1 DEF Offer, DropInv, ProducerType
    <2>2. QED
        BY <2>1, <1>1 DEF Offer, Uncounted
<1>2. ASSUME NEW p \in Producers, Send(p) PROVE CountersExact'
    <2>1. CASE UNCHANGED drops /\ lost' = lost /\ (UNCHANGED <<high_water, peak>> \/ Enqueue(event[p]))
        BY <2>1, <1>2 DEF Send, Uncounted, Enqueue
    <2>2. CASE Overflow(p, 1)
        <3>1. drops[p] = 0
            BY <1>2 DEF Send, DropInv
        <3>2. QED
            <4>1. drops' = [drops EXCEPT ![p] = drops[p] + 1] /\ lost' = lost + 1
                  /\ UNCHANGED <<dropped, high_water, peak>>
                BY <2>2, <1>2, <3>1 DEF Send, Overflow
            <4>2. Cardinality(Uncounted') = Cardinality(Uncounted) + 1
                BY <3>1, <4>1, LossAdded
            <4>3. QED
                BY <4>1, <4>2 DEF CountType
    <2>3. QED
        BY <2>1, <2>2, <1>2 DEF Send, Enqueue
<1>3. ASSUME NEW p \in Producers, Evict(p) PROVE CountersExact'
    <2>1. drops[p] = 0
        BY <1>3 DEF Evict, DropInv
    <2>2. drops' = [drops EXCEPT ![p] = drops[p] + 1] /\ lost' = lost + 1
          /\ UNCHANGED <<dropped, high_water, peak>>
        BY <2>1, <1>3 DEF Evict, Overflow, Dequeue
    <2>3. Cardinality(Uncounted') = Cardinality(Uncounted) + 1
        BY <2>1, <2>2, LossAdded
    <2>4. QED
        BY <2>2, <2>3 DEF CountType
<1>4. ASSUME NEW p \in Producers, Retry(p) PROVE CountersExact'
    <2>1. CASE Enqueue(event[p]) /\ UNCHANGED drops
        BY <2>1, <1>4 DEF Retry, Uncounted, Enqueue
    <2>2. CASE Overflow(p, 2)
        <3>1. drops[p] = 1
            BY <1>4 DEF Retry, DropInv
        <3>2. QED
            <4>1. drops' = [drops EXCEPT ![p] = drops[p] + 1] /\ lost' = lost + 1
                  /\ UNCHANGED <<dropped, high_water, peak>>
                BY <2>2, <1>4, <3>1 DEF Retry, Overflow
            <4>2. Cardinality(Uncounted') = Cardinality(Uncounted) + 1
                BY <3>1, <4>1, LossAdded
            <4>3. QED
                BY <4>1, <4>2 DEF CountType
    <2>3. QED
        BY <2>1, <2>2, <1>4 DEF Retry
<1>5. ASSUME NEW p \in Producers, Count(p) PROVE CountersExact'
    <2>1. drops[p] \in 0 .. 2
        BY DEF ProducerType
    <2>2. dropped' = dropped + drops[p] /\ UNCHANGED <<lost, high_water, peak>>
          /\ drops' = [drops EXCEPT ![p] = 0]
        BY <1>5 DEF Count
    <2>3. Cardinality(Uncounted') = Cardinality(Uncounted) - drops[p]
        BY <2>2, LossesCounted
    <2>4. QED
        BY <2>1, <2>2, <2>3 DEF CountType
<1>6. CASE reset_counters
    BY <1>6 DEF reset_counters, Uncounted, CountType
<1>7. CASE UNCHANGED <<lost, dropped, drops, high_water, peak>>
    BY <1>7 DEF Uncounted
<1>8. QED
    BY <1>1, <1>2, <1>3, <1>4, <1>5, <1>6, <1>7 DEF Next, Produce, Check, Lock, Wake,
       SourceReleases, Receive, prepare, start, poll, finish, cancel, destroy, Timer,
       Operation, StartTimeout, CloseLocked, SourceCloses, DrainLock, DrainOne, DrainEnd,
       DisposeEnd, ReapLate, ReapEnd, close, dispose, request_close, Unreferenced,
       finalizer, reap, Finished, Refuse, Dequeue

-------------------------------------------------------------------------------
\* The invariant holds initially ...
LEMMA Initially == Init => IInv
<1> SUFFICES ASSUME Init PROVE IInv
    OBVIOUS
<1> USE QueueAssumption DEF QueueAssumption, Init, None, Free, Runtime, Producers, Events
<1>1. TypeInv
    <2>1. ContentType
        BY DEF ContentType, Events
    <2>2. ProducerType /\ LockType /\ CountType
        BY DEF ProducerType, LockType, CountType, Offering
    <2>3. ReceiveType
        BY DEF ReceiveType
    <2>4. LifeType
        BY DEF LifeType
    <2>5. source \in [open : BOOLEAN, waits : BOOLEAN, retains : BOOLEAN]
        <3>1. CASE source = [open |-> TRUE, waits |-> TRUE, retains |-> FALSE]
            BY <3>1
        <3>2. CASE source = [open |-> TRUE, waits |-> FALSE, retains |-> TRUE]
            BY <3>2
        <3>3. QED
            BY <3>1, <3>2
    <2>6. SourceType
        BY <2>5 DEF SourceType
    <2>7. QED
        BY <2>1, <2>2, <2>3, <2>4, <2>6 DEF TypeInv
<1>2. OwnerInv
    <2>1. TaskInv /\ ReceiverInv
        BY DEF TaskInv, ReceiverInv
    <2>2. SourceInv /\ InsideInv
        BY DEF SourceInv, InsideInv
    <2>3. LockInv /\ EndInv
        BY DEF LockInv, Locking, EndInv
    <2>4. QED
        BY <2>1, <2>2, <2>3 DEF OwnerInv
<1>3. RetainsExact
    <2>1. Live = {}
        BY DEF Live
    <2>2. QED
        BY <2>1, FS_EmptySet DEF RetainsExact
<1>4. PayloadInv /\ DrainedInv
    BY DEF PayloadInv, OfferedInv, QueuedInv, TakenInv, Offering, DrainedInv
<1>5. DropInv
    BY DEF DropInv
<1>6. CountersExact
    <2>1. Uncounted = {}
        BY DEF Uncounted
    <2>2. QED
        BY <2>1, FS_EmptySet DEF CountersExact
<1> QED
    BY <1>1, <1>2, <1>3, <1>4, <1>5, <1>6 DEF IInv

\* ... and every step keeps it.
LEMMA Inductive == IInv /\ [Next]_vars => IInv'
<1> SUFFICES ASSUME IInv, [Next]_vars PROVE IInv'
    OBVIOUS
<1> USE DEF IInv, TypeInv, OwnerInv, PayloadInv
<1>1. TypeInv'
    BY ContentTypeStep, CountTypeStep, ProducerTypeStep, LockTypeStep, ReceiveTypeStep,
       LifeTypeStep, SourceTypeStep
<1>2. OwnerInv'
    BY TaskStep, ReceiverStep, SourceStep, InsideStep, LockStep, EndStep
<1>3. RetainsExact' /\ PayloadInv' /\ DrainedInv' /\ DropInv' /\ CountersExact'
    BY RetainsStep, OfferedStep, QueuedStep, TakenStep, DrainedStep, DropStep, CountersStep
<1> QED
    BY <1>1, <1>2, <1>3

LEMMA Invariant == Spec => []IInv
    BY Initially, Inductive, PTL DEF Spec

\* What the invariant says of the payloads.
LEMMA Accounted == IInv => PayloadsAccounted
<1> SUFFICES ASSUME IInv PROVE PayloadsAccounted
    OBVIOUS
<1> USE DEF IInv, TypeInv, OwnerInv, PayloadInv
<1>1. {e \in Events : fate[e] = "queued"} = {queue[i] : i \in 1 .. Len(queue)}
    BY DEF QueuedInv, ContentType
<1>2. {e \in Events : fate[e] = "taken"} = {got[r] : r \in Receives} \ {0}
    BY DEF TakenInv, ReceiveType, Events
<1>3. ASSUME destroying, source.waits, NEW e \in Events PROVE fate[e] \notin {"queued", "taken"}
    <2>1. Live = {} /\ ~reaper_hold /\ dispose_requested
        BY <1>3, FreedRetains DEF EndInv
    <2>2. queue = <<>>
        BY <1>3, <2>1 DEF DrainedInv
    <2>3. fate[e] # "queued"
        BY <2>2 DEF QueuedInv
    <2>4. fate[e] # "taken"
        BY <2>1 DEF TakenInv, ReceiverInv, Live, Events
    <2>5. QED
        BY <2>3, <2>4
<1> QED
    BY <1>1, <1>2, <1>3 DEF PayloadsAccounted
-------------------------------------------------------------------------------
\* The retains are exactly those of the owners that exist, and the memory is
\* freed only when no producer, receive, lock holder or operation of the
\* runtime task is left to use it (event_queue.c: release, request_reap, reap
\* and event_queue_take_destroy_ownership_locked).
THEOREM QueueFreedLast == Spec => []EndSafe
<1>1. IInv => EndSafe
    BY FreedIsUnused DEF IInv, EndSafe
<1> QED
    BY <1>1, Invariant, PTL

\* Every payload is in one place until it was delivered or dropped, the
\* counters are exact and the source is told of the close once (the send,
\* receive and drain paths of event_queue.c and event_queue_drain.c).
THEOREM QueueKeepsPayloads == Spec => []QueueSafe
<1>1. IInv => TypeOK
    BY LiveType DEF IInv, TypeInv, ContentType, CountType, ProducerType, LockType, ReceiveType,
       LifeType, SourceType, RetainsExact, TypeOK
<1>2. IInv => ToldOnce
    <2> SUFFICES ASSUME IInv PROVE ToldOnce
        OBVIOUS
    <2> USE DEF IInv, TypeInv, OwnerInv
    <2>1. destroying => js = "idle" /\ ~reaper_hold
        BY FreedIsUnused, FreedRetains DEF FreedWhenUnused, EndInv
    <2>2. QED
        BY <2>1 DEF ToldOnce, SourceInv, SourceType, EndInv, LifeType
<1>3. IInv => QueueSafe
    BY <1>1, <1>2, Accounted DEF IInv, QueueSafe
<1> QED
    BY <1>3, Invariant, PTL
=============================================================================
