---------------------------- MODULE MonitorFrames ----------------------------
(***************************************************************************)
(* The frame pool of a Wi-Fi monitor session: wifi_monitor_resources.c.    *)
(*                                                                         *)
(* A receive callback copies a packet into a slot and hands a token for it *)
(* to the event queue.  Whoever receives the token turns it into a frame   *)
(* or discards it; a frame hands out references to its bytes, which may be *)
(* given up on any task and long after the frame is closed.                *)
(*                                                                         *)
(* Every operation runs under the pool's lock and is one step, except      *)
(* publish: it leaves the lock to copy the packet and again to call the    *)
(* queue, so it takes up to four steps.  Tokens are used by their holders: *)
(* the queue or a receiver (events), a frame or a batch (frames), and the  *)
(* views and sources that were derived (refs).                             *)
(***************************************************************************)
EXTENDS Naturals, FiniteSets

CONSTANTS Slots,        \* indices of the pool
          Callers,      \* tasks that may be inside a receive callback
          MaxRefs,      \* bound on derived references of a frame
          IdMax         \* UINT32_MAX for frame identities

ASSUME MonitorAssumption ==
    /\ Slots \subseteq Nat /\ IsFiniteSet(Slots) /\ Slots # {}
    /\ IsFiniteSet(Callers)
    /\ MaxRefs \in Nat /\ IdMax \in Nat \ {0}

VARIABLES
    used,           \* the slots the pool has handed out
    owner,          \* owner of each slot
    identity,       \* generation of each slot's lease
    retain_count,   \* references of each slot's lease
    closing,        \* the slots whose lease was asked to close
    initialized, accepting, next_identity,
    leased_frames, publishers,
    events,         \* tokens in the queue or with a receiver
    frames,         \* tokens of open frames and batches
    refs,           \* references derived from each token
    pc, at          \* each caller's position in publish and its token

slots == <<used, owner, identity, retain_count, closing, leased_frames>>
admission == <<initialized, accepting, next_identity>>
holders == <<events, frames, refs>>
caller == <<pc, at>>
frameVars == <<slots, admission, publishers, holders, caller>>

Tokens == [identity : 1..IdMax, index : Slots]
Owners == {"free", "writing", "event", "public", "closed"}

TypeOK ==
    /\ used \in SUBSET Slots /\ closing \in SUBSET Slots
    /\ owner \in [Slots -> Owners]
    /\ identity \in [Slots -> 0..IdMax]
    /\ retain_count \in [Slots -> Nat]
    /\ initialized \in BOOLEAN /\ accepting \in BOOLEAN
    /\ next_identity \in 0..IdMax /\ leased_frames \in Nat /\ publishers \in Nat
    /\ events \in SUBSET Tokens /\ frames \in SUBSET Tokens
    /\ refs \in [Tokens -> Nat]
    /\ pc \in [Callers -> {"idle", "copy", "hook", "refused", "count"}]
    /\ at \in [Callers -> Tokens]

\* resources_init: every slot is free, nothing is leased, identities start
\* at 1 and admission is closed.
FramesInit ==
    /\ used = {} /\ closing = {}
    /\ owner = [i \in Slots |-> "free"]
    /\ identity = [i \in Slots |-> 0] /\ retain_count = [i \in Slots |-> 0]
    /\ initialized = TRUE /\ accepting = FALSE /\ next_identity = 1
    /\ leased_frames = 0 /\ publishers = 0
    /\ events = {} /\ frames = {}
    /\ refs = [e \in Tokens |-> 0]
    /\ pc = [c \in Callers |-> "idle"]
    /\ at \in [Callers -> Tokens]

Goto(c, label) == pc' = [pc EXCEPT ![c] = label]
-------------------------------------------------------------------------------
(* Helpers that run with the lock held. *)

\* monitor_slot_locked: the token still names the slot's present lease.
Resolves(e) ==
    initialized /\ owner[e.index] # "free" /\ identity[e.index] = e.identity

\* The lease of slot i loses a reference.  The last one marks it returned and
\* gives the index back to the pool, and monitor_account_return_locked, in
\* the same critical section, frees the slot and counts it back.
DropReference(i, closed) ==
    /\ retain_count' = [retain_count EXCEPT ![i] = @ - 1]
    /\ used' = IF retain_count[i] = 1 THEN used \ {i} ELSE used
    /\ owner' = [owner EXCEPT ![i] = IF retain_count[i] = 1 THEN "free" ELSE closed]
    /\ leased_frames' = IF retain_count[i] = 1 THEN leased_frames - 1 ELSE leased_frames
    /\ UNCHANGED identity

\* monitor_close_locked: request_close sets the flag and gives up the root
\* reference; a second request would change nothing but the owner.
CloseLocked(i) ==
    IF i \in closing
    THEN /\ owner' = [owner EXCEPT ![i] = "closed"]
         /\ UNCHANGED <<used, identity, retain_count, closing, leased_frames>>
    ELSE closing' = closing \union {i} /\ DropReference(i, "closed")

\* native_lease_release refuses a lease without references, and the last
\* reference of one that was not closed.
MayRelease(i) == retain_count[i] > 0 /\ (retain_count[i] > 1 \/ i \in closing)
-------------------------------------------------------------------------------
(* Admission and the end of the pool. *)

\* Admission opens only while an identity is left.
set_accepting(on) ==
    /\ initialized /\ (on => next_identity # 0)
    /\ accepting' = on
    /\ UNCHANGED <<slots, initialized, next_identity, publishers, holders, caller>>

\* Mutation: deinit does not wait for the callbacks.
DeinitReady_publishers == initialized /\ ~accepting /\ leased_frames = 0

\* deinit waits for the callbacks and for the frames.
DeinitReady == initialized /\ ~accepting /\ publishers = 0 /\ leased_frames = 0

deinit ==
    /\ DeinitReady
    /\ initialized' = FALSE
    /\ UNCHANGED <<slots, accepting, next_identity, publishers, holders, caller>>
-------------------------------------------------------------------------------
(* publish *)

\* Mutation: identities start again at 1 when they run out.
NextIdentity_wrap == next_identity' = IF next_identity = IdMax THEN 1 ELSE next_identity + 1

\* Identities are never used twice: after the last one there is none.
NextIdentity == next_identity' = IF next_identity = IdMax THEN 0 ELSE next_identity + 1

\* native_pool_acquire hands out the lowest free slot.
PoolAcquire(i) == i \in Slots \ used /\ \A j \in Slots : j < i => j \in used

\* The slot gets the lease of a new frame: native_lease_init.
Claim(i) ==
    /\ used' = used \union {i}
    /\ owner' = [owner EXCEPT ![i] = "writing"]
    /\ identity' = [identity EXCEPT ![i] = next_identity]
    /\ retain_count' = [retain_count EXCEPT ![i] = 1]
    /\ closing' = closing \ {i}
    /\ leased_frames' = leased_frames + 1

\* First critical section: a packet that passed the checks claims a slot.
publish(c) ==
    /\ pc[c] = "idle"
    /\ initialized /\ accepting /\ next_identity # 0
    /\ \E i \in Slots :
         /\ PoolAcquire(i) /\ Claim(i)
         /\ at' = [at EXCEPT ![c] = [identity |-> next_identity, index |-> i]]
    /\ NextIdentity
    /\ publishers' = publishers + 1
    /\ Goto(c, "copy")
    /\ UNCHANGED <<initialized, accepting, holders>>

\* Second one, after the copy: admission may have been closed meanwhile.
PublishCopied(c) ==
    /\ pc[c] = "copy"
    /\ \/ /\ accepting
          /\ owner' = [owner EXCEPT ![at[c].index] = "event"]
          /\ Goto(c, "hook")
          /\ UNCHANGED <<used, identity, retain_count, closing, leased_frames>>
       \/ /\ ~accepting
          /\ CloseLocked(at[c].index)
          /\ Goto(c, "count")
    /\ UNCHANGED <<admission, publishers, holders, at>>

\* The queue takes the token, which may be received and closed at once, or
\* refuses it.
PublishHook(c) ==
    /\ pc[c] = "hook"
    /\ \/ events' = events \union {at[c]} /\ Goto(c, "count")
       \/ UNCHANGED events /\ Goto(c, "refused")
    /\ UNCHANGED <<slots, admission, publishers, frames, refs, at>>

\* monitor_change_owner: a token with the expected owner is closed.
ChangeOwner(e, expected) ==
    IF Resolves(e) /\ owner[e.index] = expected
    THEN CloseLocked(e.index) ELSE UNCHANGED slots

\* publish discards a token that the queue refused.
PublishRefused(c) ==
    /\ pc[c] = "refused"
    /\ ChangeOwner(at[c], "event")
    /\ Goto(c, "count")
    /\ UNCHANGED <<admission, publishers, holders, at>>

\* The callback leaves; it has not touched the slot since the hook.
PublishLeave(c) ==
    /\ pc[c] = "count"
    /\ publishers' = publishers - 1
    /\ Goto(c, "idle")
    /\ UNCHANGED <<slots, admission, holders, at>>
-------------------------------------------------------------------------------
(* Tokens, frames and references. *)

\* The receiver turns the event into a frame; a stale token becomes nothing.
take_event(e) ==
    /\ e \in events
    /\ events' = events \ {e}
    /\ IF Resolves(e) /\ owner[e.index] = "event"
       THEN /\ owner' = [owner EXCEPT ![e.index] = "public"]
            /\ frames' = frames \union {e}
       ELSE UNCHANGED <<owner, frames>>
    /\ UNCHANGED <<used, identity, retain_count, closing, leased_frames>>
    /\ UNCHANGED <<admission, publishers, refs, caller>>

\* The queue drops an event.
discard_event(e) ==
    /\ e \in events
    /\ events' = events \ {e}
    /\ ChangeOwner(e, "event")
    /\ UNCHANGED <<admission, publishers, frames, refs, caller>>

close_frame(e) ==
    /\ e \in frames
    /\ frames' = frames \ {e}
    /\ ChangeOwner(e, "public")
    /\ UNCHANGED <<admission, publishers, events, refs, caller>>

\* Mutation: the bytes are handed out without a reference to the lease.
LeaseRetain_not(i) == UNCHANGED retain_count

\* native_lease_retain
LeaseRetain(i) == retain_count' = [retain_count EXCEPT ![i] = @ + 1]

retain_frame(e) ==
    /\ e \in frames /\ refs[e] < MaxRefs
    /\ Resolves(e) /\ owner[e.index] = "public"
    /\ retain_count[e.index] > 0 /\ e.index \notin closing
    /\ LeaseRetain(e.index)
    /\ refs' = [refs EXCEPT ![e] = @ + 1]
    /\ UNCHANGED <<used, owner, identity, closing, leased_frames>>
    /\ UNCHANGED <<admission, publishers, events, frames, caller>>

release_ref(e) ==
    /\ refs[e] > 0
    /\ refs' = [refs EXCEPT ![e] = @ - 1]
    /\ IF Resolves(e) /\ MayRelease(e.index)
       THEN DropReference(e.index, owner[e.index]) /\ UNCHANGED closing
       ELSE UNCHANGED slots
    /\ UNCHANGED <<admission, publishers, events, frames, caller>>
-------------------------------------------------------------------------------
Publishing(c) ==
    publish(c) \/ PublishCopied(c) \/ PublishHook(c) \/ PublishRefused(c) \/ PublishLeave(c)

Using(e) ==
    take_event(e) \/ discard_event(e) \/ close_frame(e) \/ retain_frame(e) \/ release_ref(e)

FramesNext ==
    \/ \E on \in BOOLEAN : set_accepting(on)
    \/ deinit
    \/ \E c \in Callers : Publishing(c)
    \/ \E e \in Tokens : Using(e)

FramesSpec == FramesInit /\ [][FramesNext]_frameVars
-------------------------------------------------------------------------------
(* Properties *)

\* The callers inside publish.
Inside == {c \in Callers : pc[c] # "idle"}

\* leased_frames and publishers count exactly what is out, and the pool's
\* free set agrees with the owners: what deinit relies on.
LeasedExact ==
    /\ leased_frames = Cardinality(used)
    /\ \A i \in Slots : i \in used <=> owner[i] # "free"
    /\ publishers = Cardinality(Inside)

\* A derived reference always reads the bytes it was derived from, whether
\* its frame is still open or not.
RefsReadable ==
    \A e \in Tokens : refs[e] > 0 => Resolves(e) /\ owner[e.index] \in {"public", "closed"}

\* No event or frame is stale: what the queue delivers can be taken, and an
\* open frame can be read.  (The code answers a stale token with
\* WIFI_MONITOR_STALE_FRAME.)
NeverStale ==
    /\ \A e \in events : Resolves(e) /\ owner[e.index] = "event"
    /\ \A e \in frames : Resolves(e) /\ owner[e.index] = "public"
    /\ \A c \in Callers : pc[c] = "copy" => Resolves(at[c]) /\ owner[at[c].index] = "writing"

\* The pool's storage is freed only when no callback, event, frame or
\* reference is left that could reach it.
FreedWhenUnused ==
    ~initialized =>
        /\ events = {} /\ frames = {}
        /\ \A e \in Tokens : refs[e] = 0
        /\ \A c \in Callers : pc[c] = "idle"

\* The identity of a slot only grows, so a token that outlived its frame
\* never resolves again.
IdentityGrows == [][\A i \in Slots : identity'[i] >= identity[i]]_frameVars

\* A frame nobody holds goes back to the pool: nothing keeps a slot but a
\* callback, an event, a frame or a reference.
NoSlotLeaks ==
    \A i \in used :
        \/ \E c \in Callers : pc[c] \in {"copy", "hook", "refused"} /\ at[c].index = i
        \/ \E e \in Tokens : e.index = i /\ (e \in events \/ e \in frames \/ refs[e] > 0)
-------------------------------------------------------------------------------
(* The inductive invariant. *)

Token(i) == [identity |-> identity[i], index |-> i]
InPublish(c) == pc[c] \in {"copy", "hook", "refused"}

\* A slot that is out has one reference of its root, until it is closed, and
\* one for each derived reference; the root is held by a callback, by an
\* event or by a frame.
HeldBy(i) ==
    /\ owner[i] # "free" => identity[i] > 0 /\ retain_count[i] > 0
    /\ owner[i] # "free" => (i \in closing <=> owner[i] = "closed")
    /\ owner[i] = "closed" => retain_count[i] = refs[Token(i)]
    /\ owner[i] \in {"writing", "event", "public"} => retain_count[i] = 1 + refs[Token(i)]
    /\ owner[i] = "writing" => \E c \in Callers : pc[c] = "copy" /\ at[c] = Token(i)
    /\ owner[i] = "event" => \/ Token(i) \in events
                             \/ \E c \in Callers : pc[c] \in {"hook", "refused"} /\ at[c] = Token(i)
    /\ owner[i] = "public" => Token(i) \in frames

\* Between the copy and the end of the hook a callback owns its event alone.
HookOwns ==
    /\ \A c \in Callers : pc[c] \in {"hook", "refused"} =>
         Resolves(at[c]) /\ owner[at[c].index] = "event" /\ at[c] \notin events
    /\ \A c, d \in Callers : InPublish(c) /\ InPublish(d) /\ at[c].index = at[d].index => c = d

\* Identities in use are older than the next one.
IdentityFresh == next_identity # 0 => \A i \in Slots : identity[i] < next_identity

\* What deinit waited for stays so.
AfterDeinit == ~initialized => ~accepting /\ leased_frames = 0 /\ publishers = 0

MonitorInv ==
    /\ TypeOK /\ LeasedExact /\ RefsReadable /\ NeverStale /\ AfterDeinit
    /\ \A i \in Slots : HeldBy(i)
    /\ HookOwns /\ IdentityFresh

\* What users of frames rely on: counters are exact, retained bytes stay
\* readable, nothing delivered is stale, the storage is freed under nobody and
\* no slot is lost to the pool.
FramesSafe == LeasedExact /\ RefsReadable /\ NeverStale /\ FreedWhenUnused /\ NoSlotLeaks
==============================================================================
