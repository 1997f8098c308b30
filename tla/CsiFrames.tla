------------------------------ MODULE CsiFrames ------------------------------
(***************************************************************************)
(* The frame pool of a Wi-Fi CSI session: wifi_csi_resources.c and the     *)
(* store entry that keeps the pool alive (wifi_csi_store.c).               *)
(*                                                                         *)
(* The Wi-Fi task fills a free slot and queues an event for it.  The       *)
(* runtime takes the event (the slot then belongs to a JavaScript frame)   *)
(* or drops it, derives further references, and gives everything up,       *)
(* perhaps long after the session is closed.  A worker may finish the stop *)
(* of the session, which discards what is queued.  The entry is freed when *)
(* the session has retired it and nothing is pinned, leased or in a        *)
(* callback.  Frames and references are only used on the runtime task.     *)
(*                                                                         *)
(* There is no lock around a slot: every access to an atomic is a step.    *)
(* The lease is used at the granularity of LeaseContract (NativeLease      *)
(* shows that its atomics implement it): a release drops the count and, if *)
(* it was the last, marks the lease returned; giving the slot back to the  *)
(* pool is a separate step.                                                *)
(***************************************************************************)
EXTENDS Naturals, Sequences

CONSTANTS Slots,        \* indices of the pool, a set of naturals
          Wifi,         \* the Wi-Fi driver's task
          Runtime,      \* the runtime task
          Worker,       \* the background worker that runs the cleanup
          MaxRefs,      \* bound on derived references of a slot
          QueueLen,     \* capacity of the session's event queue
          IdMax         \* UINT32_MAX for slot generations and sequences

VARIABLES
    used,       \* the slot's bit of the pool's free set is clear
    slot,       \* generation, owner and return_accounted of each slot
    lease,      \* retain count, close_requested and returned of each slot
    res,        \* accepting, identity_exhausted, callbacks_active,
                \* leased_frames and sequence
    entry,      \* the store entry: state and pins
    session,    \* the session's lifecycle
    queue,      \* queued events
    held,       \* derived references that exist (history)
    pc, at      \* each task's position and the event it works on

vars == <<used, slot, lease, res, entry, session, queue, held, pc, at>>
Users == {Runtime, Worker}
Parties == {Wifi} \union Users
Event(i) == [index |-> i, gen |-> slot[i].gen]
Events == [index : Slots, gen : 0..IdMax]
Goto(t, label) == pc' = [pc EXCEPT ![t] = label]
At(t) == at[t].index

UserLabels == {"take", "retain", "release", "close_public", "unpin", "deinit"}
SlotLabels == {"discard", "request_close", "pool_release", "account", "account_cas",
               "account_sub"}
WifiLabels == {"publish", "mark", "init", "count", "send", "leave"}

TypeOK ==
    /\ used \in [Slots -> BOOLEAN]
    /\ slot \in [Slots -> [gen : 0..IdMax, accounted : BOOLEAN,
                           owner : {"none", "event", "public", "closed"}]]
    /\ lease \in [Slots -> [count : 0..MaxRefs + 1, close : BOOLEAN, returned : BOOLEAN]]
    /\ res \in [accepting : BOOLEAN, exhausted : BOOLEAN, callbacks : 0..1,
                leased : Nat, sequence : 0..IdMax]
    /\ entry \in [state : {"free", "active", "retained", "retiring"}, pins : Nat]
    /\ session \in {"stopped", "running", "stopping", "closed"}
    /\ queue \in Seq(Events) /\ Len(queue) <= QueueLen
    /\ held \in [Slots -> 0..MaxRefs]
    /\ pc \in [Parties -> {"idle"} \union UserLabels \union SlotLabels \union WifiLabels]
    /\ at \in [Parties -> Events]

NoEvent == [index |-> CHOOSE i \in Slots : TRUE, gen |-> 0]

\* resources_init, called by store_open: a zeroed pool with its returns
\* accounted.
FreshSlots == [i \in Slots |-> [gen |-> 0, owner |-> "none", accounted |-> TRUE]]
FreshLeases == [i \in Slots |-> [count |-> 0, close |-> FALSE, returned |-> FALSE]]
FreshResources == [accepting |-> FALSE, exhausted |-> FALSE, callbacks |-> 0,
                   leased |-> 0, sequence |-> 0]

Init ==
    /\ used = [i \in Slots |-> FALSE]
    /\ slot = FreshSlots /\ lease = FreshLeases /\ res = FreshResources
    /\ entry = [state |-> "free", pins |-> 0]
    /\ session = "closed" /\ queue = <<>>
    /\ held = [i \in Slots |-> 0]
    /\ pc = [t \in Parties |-> "idle"] /\ at = [t \in Parties |-> NoEvent]
-------------------------------------------------------------------------------
(* The session.  The worker may take over from begin_stop on. *)

\* A new session opens a pool; the entry is pinned by the session.
store_open ==
    /\ entry.state = "free" /\ session = "closed" /\ pc[Runtime] = "idle"
    /\ entry' = [state |-> "active", pins |-> 1]
    /\ used' = [i \in Slots |-> FALSE]
    /\ slot' = FreshSlots /\ lease' = FreshLeases /\ res' = FreshResources
    /\ session' = "stopped"
    /\ UNCHANGED <<queue, held, pc, at>>

\* Capture starts; set_accepting refuses an exhausted pool.
start_native ==
    /\ session = "stopped" /\ pc[Runtime] = "idle"
    /\ session' = "running"
    /\ res' = [res EXCEPT !.accepting = ~res.exhausted]
    /\ UNCHANGED <<used, slot, lease, entry, queue, held, pc, at>>

\* No new callback begins once the driver's hook is cleared; one that runs
\* goes on.
begin_stop ==
    /\ session = "running" /\ pc[Runtime] = "idle"
    /\ session' = "stopping"
    /\ res' = [res EXCEPT !.accepting = FALSE]
    /\ UNCHANGED <<used, slot, lease, entry, queue, held, pc, at>>

\* The queue is discarded before the session is stopped (see Drop).
finish_stop(t) ==
    /\ session = "stopping" /\ pc[t] = "idle"
    /\ res.callbacks = 0 /\ queue = <<>>
    /\ session' = "stopped"
    /\ UNCHANGED <<used, slot, lease, res, entry, queue, held, pc, at>>

\* The session lets its pool go: store_retire marks the entry and releases
\* the session's pin.
store_retire(t) ==
    /\ session = "stopped" /\ pc[t] = "idle" /\ queue = <<>>
    /\ entry.state = "active" /\ entry.pins # 0
    /\ ~res.accepting /\ res.callbacks = 0
    /\ session' = "closed"
    /\ entry' = [entry EXCEPT !.state = "retained"]
    /\ Goto(t, "unpin")
    /\ UNCHANGED <<used, slot, lease, res, queue, held, at>>
-------------------------------------------------------------------------------
(* The Wi-Fi task. *)

\* callback_enter counts the callback before it looks at the flags.
callback_enter ==
    /\ session = "running" /\ pc[Wifi] = "idle"
    /\ res' = [res EXCEPT !.callbacks = @ + 1]
    /\ Goto(Wifi, IF res.exhausted \/ ~res.accepting THEN "leave" ELSE "publish")
    /\ UNCHANGED <<used, slot, lease, entry, session, queue, held, at>>

identity_exhausted == [res EXCEPT !.exhausted = TRUE, !.accepting = FALSE]

\* The packet is not wanted (flags, filters, size), or there is no slot.
PublishRefused ==
    /\ pc[Wifi] = "publish"
    /\ Goto(Wifi, "leave")
    /\ UNCHANGED <<used, slot, lease, entry, session, queue, held, at, res>>

\* Mutation: a slot is taken although its bit says it is in use.
NativePoolAcquire_any(i) == TRUE

\* native_pool_acquire: the lowest free slot.
NativePoolAcquire(i) == ~used[i] /\ \A j \in Slots : j < i => used[j]

\* A slot is claimed and gets its identities, unless one has run out.
PublishClaim ==
    /\ pc[Wifi] = "publish" /\ res.accepting /\ ~res.exhausted
    /\ IF res.sequence = IdMax
       THEN /\ res' = identity_exhausted
            /\ Goto(Wifi, "leave")
            /\ UNCHANGED <<used, slot, at>>
       ELSE \E i \in Slots :
            /\ NativePoolAcquire(i)
            /\ IF slot[i].gen = IdMax
               THEN /\ res' = identity_exhausted
                    /\ Goto(Wifi, "leave")
                    /\ UNCHANGED <<used, slot, at>>
               ELSE /\ used' = [used EXCEPT ![i] = TRUE]
                    /\ slot' = [slot EXCEPT ![i].gen = @ + 1]
                    /\ res' = [res EXCEPT !.sequence = @ + 1]
                    /\ at' = [at EXCEPT ![Wifi] = [index |-> i, gen |-> slot[i].gen + 1]]
                    /\ Goto(Wifi, "mark")
    /\ UNCHANGED <<lease, entry, session, queue, held>>

PublishMark ==
    /\ pc[Wifi] = "mark"
    /\ slot' = [slot EXCEPT ![At(Wifi)].accounted = FALSE, ![At(Wifi)].owner = "event"]
    /\ Goto(Wifi, "init")
    /\ UNCHANGED <<used, lease, res, entry, session, queue, held, at>>

PublishLease ==
    /\ pc[Wifi] = "init"
    /\ lease' = [lease EXCEPT ![At(Wifi)] = [count |-> 1, close |-> FALSE, returned |-> FALSE]]
    /\ Goto(Wifi, "count")
    /\ UNCHANGED <<used, slot, res, entry, session, queue, held, at>>

PublishCount ==
    /\ pc[Wifi] = "count"
    /\ res' = [res EXCEPT !.leased = @ + 1]
    /\ Goto(Wifi, "send")
    /\ UNCHANGED <<used, slot, lease, entry, session, queue, held, at>>

\* The event queue takes the event or, full, leaves it with the callback,
\* which discards it.
PublishSend ==
    /\ pc[Wifi] = "send"
    /\ IF Len(queue) < QueueLen
       THEN queue' = Append(queue, at[Wifi]) /\ Goto(Wifi, "leave")
       ELSE UNCHANGED queue /\ Goto(Wifi, "discard")
    /\ UNCHANGED <<used, slot, lease, res, entry, session, held, at>>

callback_leave ==
    /\ pc[Wifi] = "leave"
    /\ res' = [res EXCEPT !.callbacks = @ - 1]
    /\ Goto(Wifi, "idle")
    /\ UNCHANGED <<used, slot, lease, entry, session, queue, held, at>>
-------------------------------------------------------------------------------
(* wifi_csi_update_event: pin the entry, find the slot, act, unpin. *)

StoreLive == entry.state \in {"active", "retained"}

\* store_acquire pins the entry of the event's generation.
Pin(t, e, label) ==
    /\ pc[t] = "idle" /\ StoreLive
    /\ entry' = [entry EXCEPT !.pins = @ + 1]
    /\ at' = [at EXCEPT ![t] = e]
    /\ Goto(t, label)

\* The runtime receives the oldest event: it takes it, or drops it.  While
\* the session stops, the worker too may discard what is queued.
Receive(t, label) ==
    /\ queue # <<>>
    /\ t = Worker => label = "discard" /\ session = "stopping" /\ res.callbacks = 0
    /\ Pin(t, Head(queue), label)
    /\ queue' = Tail(queue)
    /\ UNCHANGED <<used, slot, lease, res, session, held>>

\* A frame derives a view or a source, or is closed.
FrameUse(i, label) ==
    /\ slot[i].owner = "public"
    /\ label = "retain" => lease[i].count <= MaxRefs
    /\ Pin(Runtime, Event(i), label)
    /\ UNCHANGED <<used, slot, lease, res, session, queue, held>>

\* A derived reference is given up: a view, a source or a batch is closed.
ReleaseRef(i) ==
    /\ held[i] > 0
    /\ held' = [held EXCEPT ![i] = @ - 1]
    /\ Pin(Runtime, Event(i), "release")
    /\ UNCHANGED <<used, slot, lease, res, session, queue>>

slot_from_event(t) == slot[At(t)].gen = at[t].gen

slot_take_event_owner(t) ==
    /\ pc[t] = "take"
    /\ slot' = IF slot_from_event(t) /\ slot[At(t)].owner = "event"
               THEN [slot EXCEPT ![At(t)].owner = "public"] ELSE slot
    /\ Goto(t, "unpin")
    /\ UNCHANGED <<used, lease, res, entry, session, queue, held, at>>

slot_retain(t) ==
    /\ pc[t] = "retain"
    /\ IF slot_from_event(t) /\ ~lease[At(t)].close
       THEN /\ lease' = [lease EXCEPT ![At(t)].count = @ + 1]
            /\ held' = [held EXCEPT ![At(t)] = @ + 1]
       ELSE UNCHANGED <<lease, held>>
    /\ Goto(t, "unpin")
    /\ UNCHANGED <<used, slot, res, entry, session, queue, at>>

\* Where a task continues when it is done with a slot.
Done(t) == IF t = Wifi THEN "leave" ELSE "unpin"

\* discard_event and close_public_owner: whoever changes the owner closes.
CloseOwner(t, label, owner) ==
    /\ pc[t] = label
    /\ IF slot_from_event(t) /\ slot[At(t)].owner = owner
       THEN /\ slot' = [slot EXCEPT ![At(t)].owner = "closed"]
            /\ Goto(t, "request_close")
       ELSE UNCHANGED slot /\ Goto(t, Done(t))
    /\ UNCHANGED <<used, lease, res, entry, session, queue, held, at>>

\* The reference goes; the last one marks the lease returned.
DropReference(t, closing) ==
    LET left == lease[At(t)].count - 1
    IN  /\ lease' = [lease EXCEPT ![At(t)] =
                      [count |-> left, close |-> @.close \/ closing, returned |-> left = 0]]
        /\ Goto(t, IF left = 0 THEN "pool_release" ELSE "account")

RequestClose(t) ==
    /\ pc[t] = "request_close"
    /\ DropReference(t, TRUE)
    /\ UNCHANGED <<used, slot, res, entry, session, queue, held, at>>

slot_release(t) ==
    /\ pc[t] = "release"
    /\ DropReference(t, FALSE)
    /\ UNCHANGED <<used, slot, res, entry, session, queue, held, at>>

PoolRelease(t) ==
    /\ pc[t] = "pool_release"
    /\ used' = [used EXCEPT ![At(t)] = FALSE]
    /\ Goto(t, "account")
    /\ UNCHANGED <<slot, lease, res, entry, session, queue, held, at>>

\* slot_account_return, in three accesses: is the lease returned, is its
\* return not yet accounted, and the count itself.
AccountLoad(t) ==
    /\ pc[t] = "account"
    /\ Goto(t, IF lease[At(t)].returned THEN "account_cas" ELSE Done(t))
    /\ UNCHANGED <<used, slot, lease, res, entry, session, queue, held, at>>

AccountCas(t) ==
    /\ pc[t] = "account_cas"
    /\ slot' = [slot EXCEPT ![At(t)].accounted = TRUE]
    /\ Goto(t, IF slot[At(t)].accounted THEN Done(t) ELSE "account_sub")
    /\ UNCHANGED <<used, lease, res, entry, session, queue, held, at>>

AccountSub(t) ==
    /\ pc[t] = "account_sub"
    /\ res' = [res EXCEPT !.leased = @ - 1]
    /\ Goto(t, Done(t))
    /\ UNCHANGED <<used, slot, lease, entry, session, queue, held, at>>

\* Mutation: leased frames do not keep the pool.
Unused_leased == res.callbacks = 0

\* Nothing uses the pool any more: no callback and no leased frame.
Unused == res.callbacks = 0 /\ res.leased = 0

\* store_release: the last pin of a retired entry starts its destruction.
store_release(t) ==
    /\ pc[t] = "unpin"
    /\ IF entry.pins = 1 /\ entry.state = "retained" /\ Unused
       THEN entry' = [state |-> "retiring", pins |-> 0] /\ Goto(t, "deinit")
       ELSE entry' = [entry EXCEPT !.pins = @ - 1] /\ Goto(t, "idle")
    /\ UNCHANGED <<used, slot, lease, res, session, queue, held, at>>

\* resources_deinit frees the storage, or refuses and the entry is kept.
resources_deinit(t) ==
    /\ pc[t] = "deinit"
    /\ entry' = [entry EXCEPT !.state = IF Unused THEN "free" ELSE "retained"]
    /\ Goto(t, "idle")
    /\ UNCHANGED <<used, slot, lease, res, session, queue, held, at>>
-------------------------------------------------------------------------------
OnSlot(t) ==
    \/ CloseOwner(t, "discard", "event")
    \/ RequestClose(t) \/ PoolRelease(t)
    \/ AccountLoad(t) \/ AccountCas(t) \/ AccountSub(t)

User(t) ==
    \/ finish_stop(t) \/ store_retire(t) \/ Receive(t, "discard")
    \/ store_release(t) \/ resources_deinit(t)

Frames(t) ==
    \/ \E i \in Slots :
         FrameUse(i, "retain") \/ FrameUse(i, "close_public") \/ ReleaseRef(i)
    \/ Receive(t, "take")
    \/ slot_take_event_owner(t) \/ slot_retain(t) \/ slot_release(t)
    \/ CloseOwner(t, "close_public", "public")

Next ==
    \/ store_open \/ start_native \/ begin_stop \/ Frames(Runtime)
    \/ callback_enter \/ PublishRefused \/ PublishClaim \/ PublishMark
    \/ PublishLease \/ PublishCount \/ PublishSend \/ callback_leave
    \/ \E t \in Users : User(t)
    \/ \E t \in Parties : OnSlot(t)

Spec == Init /\ [][Next]_vars
-------------------------------------------------------------------------------
(* Properties *)

Outstanding(i) == held[i] > 0 \/ slot[i].owner = "public"
                  \/ \E k \in 1..Len(queue) : queue[k].index = i
Busy(t) == pc[t] # "idle"

\* The pool is not freed, nor being freed, under anyone who can still touch
\* it: a queued event, a frame, a derived reference, a callback, or a task
\* inside an operation on a frame.
PoolOutlivesUse ==
    entry.state \in {"free", "retiring"} =>
        /\ \A i \in Slots : ~Outstanding(i)
        /\ \A t \in Parties : Busy(t) => pc[t] = "deinit"

\* A slot is recycled only when its frame, its event and every derived
\* reference are gone: what a view reads never changes under it.
Recycles ==
    \A i \in Slots : slot[i].gen # slot'[i].gen /\ entry.state = entry'.state => ~Outstanding(i)
RecycledWhenFree == [][Recycles]_vars

\* leased_frames never falls below the frames that are really out, so the
\* count may delay the pool's end but not hasten it.
LeasedCovers ==
    (\A t \in Parties : ~Busy(t)) =>
        \A i \in Slots : used[i] => res.leased > 0

\* Every count and every position stays in its range, and the count of leased
\* frames covers the frames that are out.
FramesCounted == TypeOK /\ LeasedCovers
==============================================================================
