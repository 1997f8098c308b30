------------------------ MODULE FutureSchedulerProofs ------------------------
(***************************************************************************)
(* Proofs about FutureScheduler, for tables, queues and numbers of Futures *)
(* of any size: its types, that every native operation keeps the slot that *)
(* ends it and its lane for itself, and that none is destroyed while it    *)
(* runs; then that until the teardown no Future is lost (its object leads  *)
(* to the slot that will settle it, and one that is queued has its token   *)
(* or its place in a lane), that every submission that got a slot is       *)
(* accepted, and that a callable is active once.                           *)
(*                                                                         *)
(* Every C function that changes a slot either leaves the driver of the    *)
(* slot alone (Stays) or destroys it (Drops).  That is shown once for each *)
(* of the operators that model them, and that both keep the owners of the  *)
(* operations (Owned); what is left for an action is which of the two it   *)
(* does, and that it destroys no operation that runs (Sound).              *)
(*                                                                         *)
(* The C functions that end a Future all do one thing (Over): tell its     *)
(* object and empty the slot, or leave it to the driver.  Every step that  *)
(* creates no Future keeps objects and slots together (Tends), whatever it *)
(* ends or starts; only a new Future, a token taken from the queue and a   *)
(* call need an argument of their own.                                     *)
(***************************************************************************)
EXTENDS FutureScheduler, FiniteSetTheorems, WellFoundedInduction, TLAPS

(* Worlds: what is in fut, and what an operation on one slot does to it. *)

\* The type of fut.
World == [slots : [Slots -> SlotType], handles : [Ids -> HandleType],
          native : [Ids -> NativeStates]]

\* A non-empty set of numbers has a least one.
LEMMA LeastIn ==
    ASSUME NEW S, S \subseteq Nat, S # {}
    PROVE  Least(S) \in S /\ \A y \in S : Least(S) <= y
<1>1. PICK x \in S : \A y \in S : ~ (<<y, x>> \in OpToRel(<, Nat))
  BY NatLessThanWellFounded, WFMin, Zenon
<1> DEFINE R == {p \in Nat \X Nat : p[1] < p[2]}
<1>2. OpToRel(<, Nat) = R
  BY DEF OpToRel
<1>3. \A y \in S : ~ (<<y, x>> \in R)
  BY <1>1, <1>2, Zenon
<1>4. ASSUME NEW y \in S PROVE x <= y
  <2>1. x \in Nat /\ y \in Nat /\ ~ (<<y, x>> \in R)
    BY <1>3
  <2>2. ~ (y < x)
    BY <2>1
  <2>3. QED
    BY <2>1, <2>2
<1>5. QED
  BY <1>4 DEF Least

\* Where the fields of fut are, and what replacing one slot does.
LEMMA WorldFields ==
    ASSUME NEW w \in World
    PROVE  /\ w.slots \in [Slots -> SlotType] /\ w.handles \in [Ids -> HandleType]
           /\ w.native \in [Ids -> NativeStates]
           /\ \A s \in Slots : w.slots[s] \in SlotType
           /\ \A f \in Ids : w.handles[f] \in HandleType /\ w.native[f] \in NativeStates
  BY DEF World

LEMMA PutIs ==
    ASSUME NEW w \in World, NEW s \in Slots, NEW slot \in SlotType
    PROVE  /\ Put(w, s, slot) \in World
           /\ Put(w, s, slot).native = w.native /\ Put(w, s, slot).handles = w.handles
           /\ Put(w, s, slot).slots[s] = slot
           /\ \A t \in Slots : t # s => Put(w, s, slot).slots[t] = w.slots[t]
  BY DEF World, Put

\* The operation of a Future, and the handle of one, change on their own.
LEMMA NativeIs ==
    ASSUME NEW w \in World, NEW f \in Ids, NEW n \in NativeStates
    PROVE  LET v == [w EXCEPT !.native[f] = n] IN
           v \in World /\ v.slots = w.slots /\ v.handles = w.handles
           /\ v.native = [w.native EXCEPT ![f] = n]
  BY DEF World

LEMMA HandleIs ==
    ASSUME NEW w \in World, NEW f \in Ids, NEW h \in HandleType
    PROVE  LET v == [w EXCEPT !.handles[f] = h] IN
           v \in World /\ v.slots = w.slots /\ v.native = w.native
           /\ v.handles = [w.handles EXCEPT ![f] = h]
  BY DEF World

LEMMA EmptyIs == ASSUME NEW g \in Nat PROVE EmptySlot(g) \in SlotType
<1>1. /\ "call" \in AllKinds /\ "queued" \in States /\ <<>> \in Seq(Ids) /\ TRUE \in BOOLEAN
      /\ FALSE \in BOOLEAN /\ 0 \in Ids \union {0} /\ NoKey \in Keys \union {NoKey}
      /\ "none" \in {"none", "armed", "fired"}
  BY DEF AllKinds, States
<1>2. QED
  BY <1>1, Zenon DEF EmptySlot, SlotType
-------------------------------------------------------------------------------
\* An open timeout or continuation has its input.
Served(a) ==
    a.allocated /\ a.state \notin Terminal /\ a.kind \in {"timeout", "map", "flatMap"}
    => a.inputs # <<>>

\* What every operation on a slot keeps: the slot goes on naming its Future or
\* is cleared, and has the input it needs; a driver was there before, and what
\* is queued was queued.
Carries(a, b) ==
    /\ \/ b.allocated = a.allocated /\ b.seq = a.seq
       \/ ~b.allocated /\ b.seq = 0 /\ ~b.driver_active
    /\ Served(a) => Served(b)
    /\ b.driver_active => a.driver_active
    /\ b.allocated /\ b.state = "queued" => a.state = "queued" /\ b.kind = a.kind

NotQueued(a) == a.allocated => a.state # "queued"

Others(w, v, s) == \A t \in Slots : t # s => v.slots[t] = w.slots[t]

\* Every object keeps the slot it was made for.
SameSlots(w, v) == \A f \in Ids : v.handles[f].slot = w.handles[f].slot

\* The operation leaves the driver of s alone ...
Stays(w, v, s) ==
    LET a == w.slots[s]
        b == v.slots[s]
    IN /\ Others(w, v, s) /\ SameSlots(w, v) /\ v.native = w.native /\ Carries(a, b)
       /\ b.driver_active = a.driver_active
       /\ b.driver_started => a.driver_started
       /\ b.driver_active => b.driver_started = a.driver_started /\ b.key = a.key

\* ... or destroys it.
Drops(w, v, s) ==
    LET a == w.slots[s]
        b == v.slots[s]
    IN /\ Others(w, v, s) /\ SameSlots(w, v)
       /\ v.native = [w.native EXCEPT ![a.seq] = "destroyed"]
       /\ Carries(a, b) /\ a.driver_active /\ ~b.driver_active /\ ~b.driver_started

LEMMA Chain ==
    ASSUME NEW w, NEW u, NEW v, NEW s \in Slots
    PROVE  /\ Stays(w, u, s) /\ Stays(u, v, s) => Stays(w, v, s)
           /\ Stays(w, u, s) /\ Drops(u, v, s) => Drops(w, v, s)
           /\ Drops(w, u, s) /\ Stays(u, v, s) => Drops(w, v, s)
  BY DEF Stays, Drops, Others, Carries, SameSlots

LEMMA StaysSame == ASSUME NEW w, NEW s \in Slots PROVE Stays(w, w, s)
  BY DEF Stays, Others, Carries, Served, SameSlots

\* Replacing the slot by one with other bookkeeping.
LEMMA PutStays ==
    ASSUME NEW w \in World, NEW s \in Slots, NEW slot \in SlotType,
           slot.allocated = w.slots[s].allocated, slot.seq = w.slots[s].seq,
           slot.driver_active = w.slots[s].driver_active,
           slot.driver_started = w.slots[s].driver_started, slot.key = w.slots[s].key,
           slot.state = "queued" => slot.state = w.slots[s].state /\ slot.kind = w.slots[s].kind,
           Served(w.slots[s]) => Served(slot)
    PROVE  Put(w, s, slot) \in World /\ Stays(w, Put(w, s, slot), s)
<1>1. Put(w, s, slot) \in World /\ Put(w, s, slot).native = w.native
      /\ Put(w, s, slot).handles = w.handles /\ Put(w, s, slot).slots[s] = slot
      /\ \A t \in Slots : t # s => Put(w, s, slot).slots[t] = w.slots[t]
  BY PutIs
<1>2. QED
  BY <1>1 DEF Stays, Others, Carries, Served, SameSlots

\* A slot in use names its Future, and one with a driver is in use.
NamedSlot(a) == (a.allocated <=> a.seq # 0) /\ (a.driver_active => a.allocated)

LEMMA CarriesNamed ==
    ASSUME NEW a, NEW b \in SlotType, NamedSlot(a), Carries(a, b) PROVE NamedSlot(b)
  BY DEF NamedSlot, Carries, SlotType

LEMMA DestroyIs ==
    ASSUME NEW w \in World, NEW s \in Slots, NamedSlot(w.slots[s])
    PROVE  LET v == DestroyDriver(w, s) IN
           /\ v \in World
           /\ IF w.slots[s].driver_active THEN Drops(w, v, s) ELSE v = w
           /\ v.slots[s].state = w.slots[s].state /\ ~v.slots[s].driver_active
           /\ v.slots[s].seq = w.slots[s].seq /\ v.slots[s].allocated = w.slots[s].allocated
           /\ v.slots[s].generation = w.slots[s].generation
<1> DEFINE a == w.slots[s]
           b == [a EXCEPT !.driver_active = FALSE, !.driver_started = FALSE,
                          !.lane_waiting = FALSE, !.key = NoKey]
<1>1. CASE ~a.driver_active
  BY <1>1, WorldFields DEF DestroyDriver, SlotType
<1>2. CASE a.driver_active
  <2>1. a \in SlotType /\ FALSE \in BOOLEAN /\ NoKey \in Keys \union {NoKey}
    BY WorldFields
  <2>2. b \in SlotType
    BY <2>1, Zenon DEF SlotType
  <2>3. /\ b.allocated = a.allocated /\ b.seq = a.seq /\ b.state = a.state
        /\ b.inputs = a.inputs /\ b.kind = a.kind /\ ~b.driver_active /\ ~b.driver_started
        /\ b.generation = a.generation
    BY <2>1 DEF SlotType
  <2>4. a.seq \in Ids /\ "destroyed" \in NativeStates
    BY <1>2, <2>1 DEF NamedSlot, SlotType, NativeStates
  <2> HIDE DEF b
  <2>5. Put(w, s, b) \in World /\ Put(w, s, b).native = w.native
        /\ Put(w, s, b).handles = w.handles /\ Put(w, s, b).slots[s] = b
        /\ \A t \in Slots : t # s => Put(w, s, b).slots[t] = w.slots[t]
    BY <2>2, PutIs
  <2>6. DestroyDriver(w, s) = [Put(w, s, b) EXCEPT !.native[a.seq] = "destroyed"]
    BY <1>2 DEF DestroyDriver, b
  <2>7. /\ DestroyDriver(w, s) \in World /\ DestroyDriver(w, s).slots = Put(w, s, b).slots
        /\ DestroyDriver(w, s).handles = w.handles
        /\ DestroyDriver(w, s).native = [w.native EXCEPT ![a.seq] = "destroyed"]
    BY <2>4, <2>5, <2>6, NativeIs
  <2>8. Drops(w, DestroyDriver(w, s), s)
    BY <1>2, <2>3, <2>5, <2>7 DEF Drops, Others, Carries, Served, SameSlots
  <2>9. QED
    BY <1>2, <2>3, <2>5, <2>7, <2>8
<1>3. QED
  BY <1>1, <1>2

LEMMA ReleaseIs ==
    ASSUME NEW w \in World, NEW s \in Slots, NamedSlot(w.slots[s])
    PROVE  /\ ReleaseIfTerminal(w, s) \in World
           /\ Stays(w, ReleaseIfTerminal(w, s), s)
<1> DEFINE a == w.slots[s]
           e == EmptySlot(a.generation)
<1>1. CASE a.allocated /\ a.state \in Terminal /\ ~a.driver_active
  <2>1. e \in SlotType
    BY WorldFields, EmptyIs DEF SlotType
  <2>2. /\ ~e.allocated /\ e.seq = 0 /\ e.driver_active = FALSE /\ ~e.driver_started
        /\ a.driver_active = FALSE
    BY <1>1, WorldFields DEF EmptySlot, SlotType
  <2> HIDE DEF e
  <2>3. ReleaseIfTerminal(w, s) = Put(w, s, e)
    BY <1>1 DEF ReleaseIfTerminal, ClearSlot, DestroyDriver, e
  <2>4. Put(w, s, e) \in World /\ Put(w, s, e).native = w.native
        /\ Put(w, s, e).handles = w.handles /\ Put(w, s, e).slots[s] = e
        /\ \A t \in Slots : t # s => Put(w, s, e).slots[t] = w.slots[t]
    BY <2>1, PutIs
  <2>5. QED
    BY <1>1, <2>2, <2>3, <2>4 DEF Stays, Others, Carries, Served, SameSlots
<1>2. CASE ~ (a.allocated /\ a.state \in Terminal /\ ~a.driver_active)
  BY <1>2, StaysSame DEF ReleaseIfTerminal
<1>3. QED
  BY <1>1, <1>2

LEMMA PublishIs ==
    ASSUME NEW w \in World, NEW s \in Slots, NamedSlot(w.slots[s])
    PROVE  /\ PublishTerminal(w, s) \in World
           /\ Stays(w, PublishTerminal(w, s), s)
<1> DEFINE a == w.slots[s]
           b == [a EXCEPT !.handle = FALSE]
           h == [w.handles[a.seq] EXCEPT !.terminal = TRUE, !.state = a.state, !.by = a.result]
           u == Put(w, s, b)
<1>1. CASE a.allocated /\ a.state \in Terminal /\ a.handle
  <2>1. a \in SlotType /\ FALSE \in BOOLEAN /\ TRUE \in BOOLEAN /\ a.seq \in Ids
    BY <1>1, WorldFields DEF NamedSlot, SlotType
  <2>2. b \in SlotType
    BY <2>1, Zenon DEF SlotType
  <2>3. /\ b.allocated = a.allocated /\ b.seq = a.seq /\ b.state = a.state
        /\ b.driver_active = a.driver_active /\ b.driver_started = a.driver_started
        /\ b.key = a.key /\ b.kind = a.kind
    BY <2>1 DEF SlotType
  <2>4. w.handles[a.seq] \in HandleType /\ a.state \in States /\ a.result \in Ids \union {0}
    BY <2>1, WorldFields DEF SlotType
  <2>5. h \in HandleType
    BY <2>1, <2>4, Zenon DEF HandleType
  <2> HIDE DEF b
  <2>6. u \in World /\ Stays(w, u, s)
    BY <1>1, <2>2, <2>3, PutStays DEF Served
  <2>10. u.handles = w.handles
    BY <2>2, PutIs
  <2>11. h.slot = w.handles[a.seq].slot
    BY <2>4 DEF HandleType
  <2>7. PublishTerminal(w, s) = [u EXCEPT !.handles[a.seq] = h]
    <3>1. PublishTerminal(w, s) = [u EXCEPT !.handles[a.seq] =
             [@ EXCEPT !.terminal = TRUE, !.state = a.state, !.by = a.result]]
      BY <1>1, Zenon DEF PublishTerminal, b
    <3>2. QED
      BY <2>10, <3>1, Zenon
  <2> HIDE DEF h, u
  <2>8. PublishTerminal(w, s) \in World /\ PublishTerminal(w, s).slots = u.slots
        /\ PublishTerminal(w, s).native = u.native
        /\ PublishTerminal(w, s).handles = [w.handles EXCEPT ![a.seq] = h]
    BY <2>1, <2>5, <2>6, <2>7, <2>10, HandleIs
  <2>12. SameSlots(w, PublishTerminal(w, s))
    BY <2>1, <2>8, <2>11, WorldFields DEF SameSlots
  <2>9. QED
    BY <2>6, <2>8, <2>12 DEF Stays, Others
<1>2. CASE ~ (a.allocated /\ a.state \in Terminal /\ a.handle)
  BY <1>2, StaysSame DEF PublishTerminal
<1>3. QED
  BY <1>1, <1>2

LEMMA SettleIs ==
    ASSUME NEW w \in World, NEW s \in Slots, NamedSlot(w.slots[s]),
           NEW state \in Terminal, NEW by \in Ids \union {0}
    PROVE  /\ Settle(w, s, state, by) \in World
           /\ Stays(w, Settle(w, s, state, by), s)
           /\ NotQueued(Settle(w, s, state, by).slots[s])
<1> DEFINE a == w.slots[s]
           stored == IF state = "cancelled" THEN a.result ELSE by
           b == [a EXCEPT !.state = state, !.result = stored, !.call_refs = FALSE,
                          !.inputs = <<>>, !.timer = "none"]
           u == Put(w, s, b)
           p == PublishTerminal(u, s)
<1>1. CASE ~a.allocated \/ a.state \in Terminal
  BY <1>1, StaysSame DEF Settle, NotQueued, Terminal
<1>2. CASE a.allocated /\ a.state \notin Terminal
  <2>1. a \in SlotType
    BY WorldFields
  <2>2. stored \in Ids \union {0}
    BY <2>1 DEF SlotType
  <2> HIDE DEF stored
  <2>3. /\ b \in SlotType /\ b.state = state /\ b.allocated = a.allocated /\ b.seq = a.seq
        /\ b.driver_active = a.driver_active /\ b.driver_started = a.driver_started
        /\ b.key = a.key
    <3>1. state \in States /\ "none" \in {"none", "armed", "fired"} /\ <<>> \in Seq(Ids)
          /\ FALSE \in BOOLEAN
      BY DEF States
    <3>2. b \in SlotType
      BY <2>1, <2>2, <3>1, Zenon DEF SlotType
    <3>3. QED
      BY <2>1, <3>2 DEF SlotType
  <2>4. Settle(w, s, state, by) = ReleaseIfTerminal(p, s)
    BY <1>2, Zenon DEF Settle, stored
  <2> HIDE DEF b
  <2>5. state # "queued"
    BY DEF Terminal
  <2>6. u \in World /\ Stays(w, u, s)
    BY <2>3, <2>5, PutStays DEF Served
  <2>12. NotQueued(u.slots[s])
    BY <2>3, <2>5, PutIs DEF NotQueued
  <2>7. \A v \in World : Stays(w, v, s) => NamedSlot(v.slots[s])
    BY WorldFields, CarriesNamed DEF Stays
  <2> HIDE DEF u
  <2>8. p \in World /\ Stays(u, p, s)
    BY <2>6, <2>7, PublishIs
  <2> HIDE DEF p
  <2>9. Stays(w, p, s)
    BY <2>6, <2>8, Chain
  <2>10. ReleaseIfTerminal(p, s) \in World /\ Stays(p, ReleaseIfTerminal(p, s), s)
    BY <2>7, <2>8, <2>9, ReleaseIs
  <2>13. NotQueued(ReleaseIfTerminal(p, s).slots[s])
    BY <2>8, <2>10, <2>12 DEF NotQueued, Stays, Carries
  <2>11. QED
    BY <2>4, <2>9, <2>10, <2>13, Chain
<1>3. QED
  BY <1>1, <1>2

\* What is left of the driver decides: it is destroyed or it stays.
Ends(w, v, s, drops) == v \in World /\ (IF drops THEN Drops(w, v, s) ELSE Stays(w, v, s))

\* The Future of a destroyed driver is not queued afterwards.
Ended(w, v, s, drops) == Ends(w, v, s, drops) /\ (drops => NotQueued(v.slots[s]))

\* Any operation on a slot that names its Future leaves it so.
LEMMA EndsNamed ==
    ASSUME NEW w, NEW s \in Slots, NamedSlot(w.slots[s]), NEW drops \in BOOLEAN,
           NEW v, Ends(w, v, s, drops)
    PROVE  v \in World /\ NamedSlot(v.slots[s])
  BY WorldFields, CarriesNamed DEF Ends, Stays, Drops

LEMMA SettleEnds ==
    ASSUME NEW w \in World, NEW s \in Slots, NamedSlot(w.slots[s]), NEW u, NEW drops \in BOOLEAN,
           Ends(w, u, s, drops), NEW state \in Terminal, NEW by \in Ids \union {0}
    PROVE  /\ Ends(w, Settle(u, s, state, by), s, drops)
           /\ NotQueued(Settle(u, s, state, by).slots[s])
<1>1. u \in World /\ NamedSlot(u.slots[s])
  BY EndsNamed
<1>2. /\ Settle(u, s, state, by) \in World /\ Stays(u, Settle(u, s, state, by), s)
      /\ NotQueued(Settle(u, s, state, by).slots[s])
  BY <1>1, SettleIs
<1>3. QED
  BY <1>2, Chain DEF Ends

LEMMA ReleaseEnds ==
    ASSUME NEW w \in World, NEW s \in Slots, NamedSlot(w.slots[s]), NEW u, NEW drops \in BOOLEAN,
           Ends(w, u, s, drops)
    PROVE  /\ Ends(w, ReleaseIfTerminal(u, s), s, drops)
           /\ Ends(w, PublishTerminal(u, s), s, drops)
           /\ NotQueued(u.slots[s]) => /\ NotQueued(ReleaseIfTerminal(u, s).slots[s])
                                       /\ NotQueued(PublishTerminal(u, s).slots[s])
<1>1. u \in World /\ NamedSlot(u.slots[s])
  BY EndsNamed
<1>2. QED
  <2>1. /\ ReleaseIfTerminal(u, s) \in World /\ Stays(u, ReleaseIfTerminal(u, s), s)
        /\ PublishTerminal(u, s) \in World /\ Stays(u, PublishTerminal(u, s), s)
    BY <1>1, ReleaseIs, PublishIs
  <2>2. NotQueued(u.slots[s]) => /\ NotQueued(ReleaseIfTerminal(u, s).slots[s])
                                 /\ NotQueued(PublishTerminal(u, s).slots[s])
    BY <2>1 DEF NotQueued, Stays, Carries
  <2>3. QED
    BY <2>1, <2>2, Chain DEF Ends

LEMMA DestroyEnds ==
    ASSUME NEW w \in World, NEW s \in Slots, NamedSlot(w.slots[s]), NEW u, Ends(w, u, s, FALSE)
    PROVE  /\ Ends(w, DestroyDriver(u, s), s, w.slots[s].driver_active)
           /\ NotQueued(u.slots[s]) => NotQueued(DestroyDriver(u, s).slots[s])
<1>1. u \in World /\ NamedSlot(u.slots[s]) /\ u.slots[s].driver_active = w.slots[s].driver_active
  BY EndsNamed DEF Ends, Stays
<1>2. QED
  BY <1>1, DestroyIs, Chain DEF Ends, NotQueued

LEMMA RejectEnds ==
    ASSUME NEW w \in World, NEW s \in Slots, NamedSlot(w.slots[s])
    PROVE  Ended(w, RejectAndDestroy(w, s), s, w.slots[s].driver_active)
<1> DEFINE u == Settle(w, s, "rejected", w.slots[s].seq)
           v == DestroyDriver(u, s)
<1>1. w.slots[s].driver_active \in BOOLEAN /\ w.slots[s].seq \in Ids \union {0}
  BY WorldFields DEF SlotType
<1>2. Ends(w, w, s, FALSE) /\ "rejected" \in Terminal
  BY StaysSame DEF Ends, Terminal
<1>3. Ends(w, u, s, FALSE) /\ NotQueued(u.slots[s])
  BY <1>1, <1>2, SettleEnds
<1> HIDE DEF u
<1>4. Ends(w, v, s, w.slots[s].driver_active) /\ NotQueued(v.slots[s])
  BY <1>3, DestroyEnds
<1> HIDE DEF v
<1>5. /\ Ends(w, ReleaseIfTerminal(v, s), s, w.slots[s].driver_active)
      /\ NotQueued(ReleaseIfTerminal(v, s).slots[s])
  BY <1>1, <1>4, ReleaseEnds
<1>6. QED
  BY <1>5 DEF RejectAndDestroy, u, v, Ended

\* A cancellation destroys the driver of a queued Future only, and never that
\* of another one.
LEMMA CancelEnds ==
    ASSUME NEW w \in World, NEW s \in Slots, NamedSlot(w.slots[s]), NEW answer
    PROVE  Ended(w, CancelSlot(w, s, answer), s,
                w.slots[s].driver_active /\ w.slots[s].state = "queued")
<1> DEFINE a == w.slots[s]
           drops == a.driver_active /\ a.state = "queued"
           b == [a EXCEPT !.cancel_requested = TRUE]
<1>1. a \in SlotType /\ drops \in BOOLEAN /\ TRUE \in BOOLEAN /\ "cancelled" \in Terminal
      /\ 0 \in Ids \union {0} /\ "queued" \notin Terminal
  BY WorldFields DEF SlotType, Terminal
<1>2. Ends(w, w, s, FALSE)
  BY StaysSame DEF Ends
<1>3. Ends(w, Settle(w, s, "cancelled", 0), s, FALSE)
  BY <1>1, <1>2, SettleEnds
<1>4. CASE a.state \in Terminal
  BY <1>1, <1>2, <1>4 DEF CancelSlot, Ended
<1>5. CASE a.state = "queued"
  <2>1. Ends(w, DestroyDriver(w, s), s, a.driver_active)
    BY <1>2, DestroyEnds
  <2>2. Ended(w, Settle(DestroyDriver(w, s), s, "cancelled", 0), s, a.driver_active)
    BY <1>1, <2>1, SettleEnds DEF SlotType, Ended
  <2>3. CancelSlot(w, s, answer) = Settle(DestroyDriver(w, s), s, "cancelled", 0)
    BY <1>1, <1>5 DEF CancelSlot
  <2>4. drops = a.driver_active
    BY <1>1, <1>5 DEF SlotType
  <2>5. QED
    BY <2>2, <2>3, <2>4
<1>6. CASE a.state \notin Terminal /\ a.state # "queued"
  <2>1. b \in SlotType
    BY <1>1, Zenon DEF SlotType
  <2>2. /\ b.allocated = a.allocated /\ b.seq = a.seq /\ b.state = a.state
        /\ b.driver_active = a.driver_active /\ b.driver_started = a.driver_started
        /\ b.key = a.key /\ b.inputs = a.inputs /\ b.kind = a.kind
    BY <1>1 DEF SlotType
  <2>3. CancelSlot(w, s, answer) \in {w, Put(w, s, b), Settle(w, s, "cancelled", 0)}
    BY <1>6, Zenon DEF CancelSlot, b
  <2> HIDE DEF b
  <2>4. Ends(w, Put(w, s, b), s, FALSE)
    BY <1>6, <2>1, <2>2, PutStays DEF Ends, Served
  <2>5. drops = FALSE
    BY <1>6
  <2> HIDE DEF drops
  <2>6. QED
    BY <1>2, <1>3, <2>3, <2>4, <2>5 DEF drops, Ended
<1>7. QED
  BY <1>4, <1>5, <1>6

\* A combinator takes over the result of an input.
LEMMA CopyStays ==
    ASSUME NEW w \in World, NEW s \in Slots, NamedSlot(w.slots[s]), NEW source
    PROVE  Ends(w, CopyTerminal(w, s, source), s, FALSE)
<1>1. Ends(w, w, s, FALSE)
  BY StaysSame DEF Ends
<1>2. w.slots[s].seq \in Ids \union {0}
  BY WorldFields DEF SlotType
<1>3. CASE HandleState(w, source) \in Terminal
  BY <1>1, <1>2, <1>3, SettleEnds DEF CopyTerminal
<1>4. CASE HandleState(w, source) \notin Terminal
  BY <1>1, <1>4 DEF CopyTerminal
<1>5. QED
  BY <1>3, <1>4

\* An expired deadline too destroys the driver of a queued Future only.
LEMMA ExpireEnds ==
    ASSUME NEW w \in World, NEW s \in Slots, NamedSlot(w.slots[s]),
           w.slots[s].state \notin Terminal, NEW answer, NEW custom \in Terminal
    PROVE  Ended(w, Expire(w, s, answer, custom), s,
                w.slots[s].driver_active /\ w.slots[s].state = "queued")
<1> DEFINE a == w.slots[s]
           drops == a.driver_active /\ a.state = "queued"
           b == [a EXCEPT !.cancel_requested = TRUE]
           asked == IF a.driver_active /\ a.state = "queued" THEN DestroyDriver(w, s)
                    ELSE IF a.driver_active /\ ~a.cancel_requested /\ answer = "requested"
                    THEN Put(w, s, b) ELSE w
           state == IF a.driver_active THEN custom ELSE "rejected"
<1>1. a \in SlotType /\ drops \in BOOLEAN /\ TRUE \in BOOLEAN /\ a.seq \in Ids \union {0}
      /\ state \in Terminal
  BY WorldFields DEF SlotType, Terminal
<1>2. Ends(w, w, s, FALSE)
  BY StaysSame DEF Ends
<1>3. Ends(w, asked, s, drops)
  <2>1. CASE drops
    BY <1>2, <2>1, DestroyEnds
  <2>2. CASE ~drops
    <3>1. b \in SlotType
      BY <1>1, Zenon DEF SlotType
    <3>2. /\ b.allocated = a.allocated /\ b.seq = a.seq /\ b.state = a.state
          /\ b.driver_active = a.driver_active /\ b.driver_started = a.driver_started
          /\ b.key = a.key /\ b.inputs = a.inputs /\ b.kind = a.kind
      BY <1>1 DEF SlotType
    <3>3. asked \in {w, Put(w, s, b)}
      BY <2>2, Zenon
    <3> HIDE DEF b, asked
    <3>4. Ends(w, Put(w, s, b), s, FALSE)
      BY <3>1, <3>2, PutStays DEF Ends, Served
    <3>5. QED
      BY <1>1, <1>2, <2>2, <3>3, <3>4
  <2>3. QED
    BY <2>1, <2>2
<1>4. Expire(w, s, answer, custom) = Settle(asked, s, state, a.seq)
  BY Zenon DEF Expire
<1> HIDE DEF asked, state
<1>5. QED
  BY <1>1, <1>3, <1>4, SettleEnds, ZenonT(30) DEF Ended

\* What a poll of the slot can give destroys only the driver of an operation
\* that is over.
LEMMA PollReadyEnds ==
    ASSUME NEW w \in World, NEW s \in Slots, NamedSlot(w.slots[s]), NEW v \in PollReady(w, s)
    PROVE  \/ Ends(w, v, s, FALSE)
           \/ /\ w.slots[s].driver_active /\ w.native[w.slots[s].seq] = "done"
              /\ Ended(w, v, s, TRUE)
<1> DEFINE a == w.slots[s]
           d == DestroyDriver(w, s)
<1>1. a \in SlotType /\ a.seq \in Ids \union {0} /\ 0 \in Ids \union {0}
      /\ {"fulfilled", "rejected", "cancelled"} = Terminal
  BY WorldFields DEF SlotType, Terminal
<1>2. Ends(w, w, s, FALSE)
  BY StaysSame DEF Ends
<1>3. CASE a.kind = "sleep"
  <2>1. v = Settle(w, s, "fulfilled", a.seq)
    BY <1>3 DEF PollReady
  <2>2. QED
    BY <1>1, <1>2, <2>1, SettleEnds
<1>4. CASE a.kind # "sleep" /\ (~a.driver_active \/ w.native[a.seq] # "done")
  BY <1>2, <1>4 DEF PollReady
<1>5. CASE a.kind # "sleep" /\ a.driver_active /\ w.native[a.seq] = "done"
  <2>1. Ends(w, d, s, TRUE) /\ d.slots[s].state = a.state
    BY <1>1, <1>2, <1>5, DestroyEnds, DestroyIs DEF SlotType
  <2>2. \/ /\ v = ReleaseIfTerminal(PublishTerminal(d, s), s)
           /\ a.state \in Terminal
        \/ \E state \in Terminal, by \in {0, a.seq} : v = Settle(d, s, state, by)
    BY <1>1, <1>5 DEF PollReady
  <2> HIDE DEF d
  <2>3. \A state \in Terminal, by \in {0, a.seq} : Ended(w, Settle(d, s, state, by), s, TRUE)
    BY <1>1, <2>1, SettleEnds, ZenonT(30) DEF Ended
  <2>4. CASE a.state \in Terminal
    <3>1. NotQueued(d.slots[s])
      BY <2>1, <2>4 DEF NotQueued, Terminal
    <3>2. Ends(w, PublishTerminal(d, s), s, TRUE) /\ NotQueued(PublishTerminal(d, s).slots[s])
      BY <2>1, <3>1, ReleaseEnds
    <3>3. Ended(w, ReleaseIfTerminal(PublishTerminal(d, s), s), s, TRUE)
      BY <3>2, ReleaseEnds DEF Ended
    <3>4. QED
      BY <1>5, <2>2, <2>3, <3>3
  <2>5. QED
    BY <1>5, <2>2, <2>3, <2>4
<1>6. QED
  BY <1>3, <1>4, <1>5
-------------------------------------------------------------------------------
\* The operations of the drivers have their owners: a slot with a driver is in
\* use and its operation not destroyed; it is started exactly if the slot says
\* so, and not while the Future is queued; started operations of one lane are
\* one; and an operation that exists has such a slot.
Driven(w, s) ==
    /\ w.native[w.slots[s].seq] \in {"captured", "running", "done"}
    /\ w.slots[s].driver_started <=> w.native[w.slots[s].seq] # "captured"
    /\ w.slots[s].state = "queued" => ~w.slots[s].driver_started
Unique(w) ==
    \A s, t \in Slots : w.slots[s].allocated /\ w.slots[s].seq = w.slots[t].seq => s = t
Exclusive(w) ==
    \A s, t \in Slots :
       /\ w.slots[s].driver_started /\ w.slots[t].driver_started
       /\ w.slots[s].key = w.slots[t].key
       => s = t \/ w.slots[s].key = NoKey
HasOwner(w, f) ==
    w.native[f] \in {"captured", "running", "done"} =>
       \E s \in Slots : w.slots[s].driver_active /\ w.slots[s].seq = f

\* A driver that waits for its turn was not dropped.
Fresh(a) == a.allocated /\ a.kind = "driver" /\ a.state = "queued" => a.driver_active

Owned(w) ==
    /\ \A s \in Slots : NamedSlot(w.slots[s]) /\ Served(w.slots[s]) /\ Fresh(w.slots[s])
    /\ Unique(w)
    /\ \A s \in Slots : w.slots[s].driver_active => Driven(w, s)
    /\ \A s \in Slots : w.slots[s].driver_started => w.slots[s].driver_active
    /\ Exclusive(w)
    /\ \A f \in Ids : HasOwner(w, f)

\* A slot with a driver names a Future.
LEMMA DriverNames ==
    ASSUME NEW w \in World, Owned(w), NEW s \in Slots, w.slots[s].driver_active
    PROVE  w.slots[s].seq \in Ids /\ w.slots[s].allocated
  BY WorldFields DEF Owned, NamedSlot, SlotType

LEMMA StaysOwned ==
    ASSUME NEW w \in World, NEW v \in World, NEW s \in Slots, Owned(w), Stays(w, v, s)
    PROVE  Owned(v)
<1> USE DEF Stays, Others
<1>1. \A t \in Slots : NamedSlot(v.slots[t]) /\ Served(v.slots[t]) /\ Fresh(v.slots[t])
  <2>1. \A t \in Slots : NamedSlot(v.slots[t]) /\ Served(v.slots[t])
    BY WorldFields, CarriesNamed DEF Owned, Carries
  <2>2. Fresh(v.slots[s])
    BY DEF Owned, Carries, Fresh
  <2>3. QED
    BY <2>1, <2>2 DEF Owned
<1>2. Unique(v)
  BY <1>1 DEF Unique, Carries, Owned, NamedSlot
<1>3. \A t \in Slots : v.slots[t].driver_active => Driven(v, t)
  BY <1>1 DEF Owned, Driven, Carries, NamedSlot
<1>4. \A t \in Slots : v.slots[t].driver_started => v.slots[t].driver_active
  BY DEF Owned, Carries
<1>5. Exclusive(v)
  BY <1>4 DEF Owned, Exclusive, Carries
<1>6. \A f \in Ids : HasOwner(v, f)
  BY <1>1 DEF Owned, HasOwner, Carries, NamedSlot
<1>7. QED
  BY <1>1, <1>2, <1>3, <1>4, <1>5, <1>6 DEF Owned

LEMMA DropsOwned ==
    ASSUME NEW w \in World, NEW v \in World, NEW s \in Slots, Owned(w), Drops(w, v, s),
           NotQueued(v.slots[s])
    PROVE  Owned(v)
<1>0. w.slots[s].seq \in Ids /\ w.slots[s].allocated
  BY DriverNames DEF Drops
<1>1. \A t \in Slots : NamedSlot(v.slots[t]) /\ Served(v.slots[t]) /\ Fresh(v.slots[t])
  <2>1. \A t \in Slots : NamedSlot(v.slots[t]) /\ Served(v.slots[t])
    BY WorldFields, CarriesNamed DEF Drops, Others, Owned, Carries
  <2>2. Fresh(v.slots[s])
    BY DEF NotQueued, Fresh
  <2>3. QED
    BY <2>1, <2>2 DEF Owned, Drops, Others
<1>2. Unique(v)
  BY <1>1 DEF Unique, Drops, Others, Carries, Owned, NamedSlot
<1>3. \A f \in Ids : f # w.slots[s].seq => v.native[f] = w.native[f]
  BY WorldFields DEF Drops
<1>4. v.native[w.slots[s].seq] = "destroyed"
  BY <1>0, WorldFields DEF Drops
<1>5. ASSUME NEW t \in Slots, v.slots[t].driver_active PROVE Driven(v, t)
  <2>1. t # s /\ v.slots[t] = w.slots[t]
    BY <1>5 DEF Drops, Others
  <2>2. w.slots[t].seq \in Ids /\ w.slots[t].seq # w.slots[s].seq
    BY <1>0, <1>5, <2>1, DriverNames DEF Owned, Unique
  <2>3. QED
    BY <1>3, <1>5, <2>1, <2>2 DEF Owned, Driven
<1>6. \A t \in Slots : v.slots[t].driver_started => v.slots[t].driver_active
  BY DEF Owned, Drops, Others
<1>7. Exclusive(v)
  BY DEF Owned, Exclusive, Drops, Others
<1>8. ASSUME NEW f \in Ids PROVE HasOwner(v, f)
  <2>1. CASE f = w.slots[s].seq
    BY <1>4, <2>1 DEF HasOwner
  <2>2. CASE f # w.slots[s].seq
    BY <1>3, <2>2 DEF HasOwner, Owned, Drops, Others
  <2>3. QED
    BY <2>1, <2>2
<1>9. QED
  BY <1>1, <1>2, <1>5, <1>6, <1>7, <1>8 DEF Owned

LEMMA EndsOwned ==
    ASSUME NEW w \in World, NEW s \in Slots, Owned(w), NEW v, NEW drops \in BOOLEAN,
           Ended(w, v, s, drops)
    PROVE  v \in World /\ Owned(v)
  BY StaysOwned, DropsOwned DEF Ends, Ended
-------------------------------------------------------------------------------
(* Soundness: owners are kept and what runs is not destroyed. *)

LEMMA NumbersAre ==
    /\ UserSlots \in Nat /\ UserSlots >= 1 /\ Reserve \in Nat /\ MaxFutures \in Nat
    /\ NoSlot \in Nat /\ NoSlot \notin Slots /\ Slots \subseteq Nat /\ Ids \subseteq Nat
    /\ UserTable \subseteq Slots /\ 0 \in Slots /\ 0 \notin Ids
  BY FutureAssumption DEF NoSlot, Slots, Ids, UserTable

\* What a step may do to the operations: they keep their owners, and one that
\* runs is not destroyed.
Below(w, n) == \A s \in Slots : w.slots[s].seq <= n
Outlives(w, v) == \A f \in Ids : w.native[f] = "running" => v.native[f] # "destroyed"
Sound(w, v) ==
    /\ v \in World /\ Owned(v) /\ Outlives(w, v) /\ SameSlots(w, v)
    /\ \A n \in Nat : Below(w, n) => Below(v, n)

LEMMA SoundSame == ASSUME NEW w \in World, Owned(w) PROVE Sound(w, w)
  BY DEF Sound, Outlives, SameSlots

LEMMA StaysSound ==
    ASSUME NEW w \in World, NEW v \in World, NEW s \in Slots, Owned(w), Stays(w, v, s)
    PROVE  Sound(w, v)
<1>1. Owned(v)
  BY StaysOwned
<1>2. Outlives(w, v)
  BY DEF Stays, Outlives
<1>3. ASSUME NEW n \in Nat, Below(w, n) PROVE Below(v, n)
  BY <1>3 DEF Below, Stays, Others, Carries
<1>4. QED
  BY <1>1, <1>2, <1>3 DEF Sound, Stays

LEMMA EndedSound ==
    ASSUME NEW w \in World, NEW s \in Slots, Owned(w), NEW v, NEW drops \in BOOLEAN,
           Ended(w, v, s, drops),
           drops => w.native[w.slots[s].seq] # "running"
    PROVE  Sound(w, v)
<1>1. CASE ~drops
  BY <1>1, StaysSound DEF Ended, Ends
<1>2. CASE drops
  <2>1. v \in World /\ Owned(v) /\ Drops(w, v, s)
    BY <1>2, EndsOwned DEF Ended, Ends
  <2>2. w.slots[s].seq \in Ids
    BY <2>1, DriverNames DEF Drops
  <2>3. Outlives(w, v)
    BY <1>2, <2>1, <2>2, WorldFields DEF Drops, Outlives
  <2>4. ASSUME NEW n \in Nat, Below(w, n) PROVE Below(v, n)
    BY <2>1, <2>4 DEF Below, Drops, Others, Carries
  <2>5. QED
    BY <2>1, <2>3, <2>4 DEF Sound, Drops
<1>3. QED
  BY <1>1, <1>2

\* The operation of a queued Future has only been captured.
LEMMA QueuedCaptured ==
    ASSUME NEW w \in World, Owned(w), NEW s \in Slots, w.slots[s].driver_active,
           w.slots[s].state = "queued"
    PROVE  w.native[w.slots[s].seq] = "captured" /\ ~w.slots[s].driver_started
  BY DEF Owned, Driven

\* Owners look at slots and operations only.
LEMMA SameSound ==
    ASSUME NEW w \in World, Owned(w), NEW v \in World, v.slots = w.slots, v.native = w.native,
           SameSlots(w, v)
    PROVE  Sound(w, v)
  BY DEF Sound, Owned, Unique, Exclusive, HasOwner, Driven, Outlives, Below

LEMMA SoundChain ==
    ASSUME NEW w \in World, NEW u, NEW v, Sound(w, u), Sound(u, v), v.native = u.native
    PROVE  Sound(w, v)
  BY DEF Sound, Outlives, SameSlots
-------------------------------------------------------------------------------
\* A handle or a token leads to a slot in use, if it leads to one.
LEMMA TokenSlot ==
    ASSUME NEW w \in World, NEW t \in TokenType
    PROVE  /\ ResolveToken(w, t) \in Slots \union {NoSlot}
           /\ ResolveToken(w, t) # NoSlot =>
                 ResolveToken(w, t) \in Slots /\ w.slots[ResolveToken(w, t)].allocated
  BY DEF TokenType, ResolveToken

LEMMA HandleLeads ==
    ASSUME NEW w \in World, NEW f \in Ids
    PROVE  /\ HandleSlot(w, f) \in Slots \union {NoSlot}
           /\ HandleSlot(w, f) # NoSlot =>
                 HandleSlot(w, f) \in Slots /\ w.slots[HandleSlot(w, f)].allocated
<1>1. w.handles[f].slot \in Slots \union {NoSlot} /\ w.handles[f].generation \in Nat
  BY WorldFields DEF HandleType
<1>2. CASE w.handles[f].terminal \/ w.handles[f].slot = NoSlot
  BY <1>2 DEF HandleSlot
<1>3. CASE ~ (w.handles[f].terminal \/ w.handles[f].slot = NoSlot)
  <2> DEFINE t == [slot |-> w.handles[f].slot, generation |-> w.handles[f].generation]
  <2>1. t \in TokenType
    BY <1>1, <1>3 DEF TokenType
  <2>2. HandleSlot(w, f) = ResolveToken(w, t)
    BY <1>3 DEF HandleSlot
  <2>3. QED
    BY <2>1, <2>2, TokenSlot
<1>4. QED
  BY <1>2, <1>3

LEMMA TokenIs ==
    ASSUME NEW w \in World, NEW s \in Slots PROVE Token(w, s) \in TokenType
  BY WorldFields DEF Token, TokenType, SlotType

\* The handle that dies takes along a slot that waited only for it.
LEMMA DropSound ==
    ASSUME NEW w \in World, Owned(w), NEW f \in Ids
    PROVE  Sound(w, DropHandle(w, f))
<1> DEFINE s == HandleSlot(w, f)
           h == [w.handles[f] EXCEPT !.alive = FALSE, !.terminal = FALSE,
                                     !.state = "queued", !.by = 0]
           dead == [w EXCEPT !.handles[f] = [@ EXCEPT !.alive = FALSE, !.terminal = FALSE,
                                            !.state = "queued", !.by = 0]]
           b == [w.slots[s] EXCEPT !.handle = FALSE]
           u == Put(dead, s, b)
<1>1. h \in HandleType
  <2>1. w.handles[f] \in HandleType /\ FALSE \in BOOLEAN /\ "queued" \in States
        /\ 0 \in Ids \union {0}
    BY WorldFields DEF States
  <2>2. QED
    BY <2>1, Zenon DEF HandleType
<1>2. dead \in World /\ dead.slots = w.slots /\ dead.native = w.native /\ SameSlots(w, dead)
  <2>1. dead = [w EXCEPT !.handles[f] = h]
    BY Zenon
  <2>2. h.slot = w.handles[f].slot
    BY WorldFields DEF HandleType
  <2> HIDE DEF dead, h
  <2>3. dead \in World /\ dead.slots = w.slots /\ dead.native = w.native
        /\ dead.handles = [w.handles EXCEPT ![f] = h]
    BY <1>1, <2>1, HandleIs
  <2>4. QED
    BY <2>2, <2>3, WorldFields DEF SameSlots
<1>3. DropHandle(w, f) = IF s # NoSlot /\ w.slots[s].handle THEN ReleaseIfTerminal(u, s)
                         ELSE dead
  BY Zenon DEF DropHandle
<1> HIDE DEF dead
<1>4. Sound(w, dead)
  BY <1>2, SameSound
<1>5. CASE s # NoSlot /\ w.slots[s].handle
  <2>1. s \in Slots /\ dead.slots[s] \in SlotType /\ FALSE \in BOOLEAN
    BY <1>2, <1>5, HandleLeads, WorldFields
  <2>2. b \in SlotType
    BY <1>2, <2>1, Zenon DEF SlotType
  <2> HIDE DEF s
  <2>3. /\ b.allocated = w.slots[s].allocated /\ b.seq = w.slots[s].seq
        /\ b.driver_active = w.slots[s].driver_active
        /\ b.driver_started = w.slots[s].driver_started /\ b.key = w.slots[s].key
        /\ b.state = w.slots[s].state /\ b.kind = w.slots[s].kind
        /\ b.inputs = w.slots[s].inputs
    BY <1>2, <2>1 DEF SlotType
  <2> HIDE DEF b
  <2>4. u \in World /\ Stays(dead, u, s)
    BY <1>2, <2>1, <2>2, <2>3, PutStays DEF Served
  <2> HIDE DEF u
  <2>5. NamedSlot(dead.slots[s]) /\ Ends(dead, u, s, FALSE)
    BY <1>2, <2>1, <2>4 DEF Ends, Owned
  <2>6. Ends(dead, ReleaseIfTerminal(u, s), s, FALSE)
    BY <1>2, <2>1, <2>5, ReleaseEnds
  <2>7. /\ ReleaseIfTerminal(u, s) \in World /\ Stays(dead, ReleaseIfTerminal(u, s), s)
        /\ ReleaseIfTerminal(u, s).native = dead.native
    BY <2>6 DEF Ends, Stays
  <2>8. Sound(dead, ReleaseIfTerminal(u, s))
    BY <1>2, <1>4, <2>1, <2>7, StaysSound DEF Sound
  <2>9. QED
    BY <1>3, <1>4, <1>5, <2>7, <2>8, SoundChain
<1>6. CASE ~ (s # NoSlot /\ w.slots[s].handle)
  BY <1>3, <1>4, <1>6
<1>7. QED
  BY <1>5, <1>6

\* A slot is emptied whatever it holds.
LEMMA ClearEnds ==
    ASSUME NEW w \in World, NEW s \in Slots, NamedSlot(w.slots[s])
    PROVE  Ended(w, ClearSlot(w, s), s, w.slots[s].driver_active)
<1> DEFINE d == DestroyDriver(w, s)
           e == EmptySlot(w.slots[s].generation)
<1>1. Ends(w, w, s, FALSE)
  BY StaysSame DEF Ends
<1>2. Ends(w, d, s, w.slots[s].driver_active) /\ d \in World /\ ~d.slots[s].driver_active
  BY <1>1, DestroyEnds, DestroyIs
<1>3. e \in SlotType
  BY WorldFields, EmptyIs DEF SlotType
<1>4. ~e.allocated /\ e.seq = 0 /\ e.driver_active = FALSE /\ ~e.driver_started
  BY DEF EmptySlot
<1>5. d.slots[s].driver_active = FALSE
  BY <1>2, WorldFields DEF SlotType
<1> HIDE DEF d, e
<1>6. Put(d, s, e) \in World /\ Put(d, s, e).native = d.native /\ Put(d, s, e).slots[s] = e
      /\ Put(d, s, e).handles = d.handles
      /\ \A t \in Slots : t # s => Put(d, s, e).slots[t] = d.slots[t]
  BY <1>2, <1>3, PutIs
<1>7. ClearSlot(w, s) = Put(d, s, e)
  BY DEF ClearSlot, d, e
<1> DEFINE v == Put(d, s, e)
<1>8. Carries(d.slots[s], v.slots[s])
  BY <1>4, <1>6 DEF Carries, Served
<1>9. Stays(d, v, s)
  BY <1>4, <1>5, <1>6, <1>8 DEF Stays, Others, SameSlots
<1>10. NotQueued(v.slots[s])
  BY <1>4, <1>6 DEF NotQueued
<1> HIDE DEF v
<1>11. w.slots[s].driver_active \in BOOLEAN
  BY WorldFields DEF SlotType
<1>12. Ends(w, v, s, w.slots[s].driver_active)
  BY <1>2, <1>6, <1>9, <1>11, Chain DEF Ends, v
<1>13. QED
  BY <1>7, <1>10, <1>12 DEF Ended, v
-------------------------------------------------------------------------------
(* The operations on one slot are sound. *)

\* A lane that is not in use admits a captured operation.
LEMMA StartOwned ==
    ASSUME NEW w \in World, Owned(w), NEW s \in Slots,
           w.slots[s].driver_active, w.slots[s].state = "queued", ~LaneInUse(w, s),
           NEW v \in World, NEW b \in SlotType,
           b.allocated = w.slots[s].allocated, b.seq = w.slots[s].seq,
           b.driver_active = TRUE, b.driver_started = TRUE, b.state = "pending",
           b.key = w.slots[s].key, b.kind = w.slots[s].kind, b.inputs = w.slots[s].inputs,
           v.slots[s] = b, \A t \in Slots : t # s => v.slots[t] = w.slots[t],
           v.native = [w.native EXCEPT ![w.slots[s].seq] = "running"], v.handles = w.handles
    PROVE  Sound(w, v)
<1> DEFINE f == w.slots[s].seq
<1>1. f \in Ids /\ w.slots[s].allocated
  BY DriverNames
<1>2. v.native[f] = "running" /\ \A g \in Ids : g # f => v.native[g] = w.native[g]
  BY <1>1, WorldFields
<1>3. w.native[f] = "captured" /\ ~w.slots[s].driver_started
  BY QueuedCaptured
<1>4. \A t \in Slots : NamedSlot(v.slots[t]) /\ Served(v.slots[t]) /\ Fresh(v.slots[t])
  <2>1. NamedSlot(b) /\ Served(b) /\ Fresh(b)
    <3>1. NamedSlot(w.slots[s]) /\ Served(w.slots[s])
      BY DEF Owned
    <3>2. w.slots[s].state \notin Terminal
      BY DEF Terminal
    <3>3. QED
      BY <1>1, <3>1, <3>2 DEF NamedSlot, Served, Fresh
  <2>2. QED
    BY <2>1 DEF Owned
<1>5. Unique(v)
  BY DEF Owned, Unique
<1>6. ASSUME NEW t \in Slots, v.slots[t].driver_active PROVE Driven(v, t)
  <2>1. CASE t = s
    BY <1>2, <2>1 DEF Driven
  <2>2. CASE t # s
    <3>1. w.slots[t].seq \in Ids /\ w.slots[t].seq # f
      BY <1>1, <1>6, <2>2, DriverNames DEF Owned, Unique
    <3>2. QED
      BY <1>2, <1>6, <2>2, <3>1 DEF Owned, Driven
  <2>3. QED
    BY <2>1, <2>2
<1>7. \A t \in Slots : v.slots[t].driver_started => v.slots[t].driver_active
  BY DEF Owned
<1>8. ASSUME NEW t \in Slots, t # s, w.slots[t].driver_started, w.slots[t].key = w.slots[s].key
      PROVE  w.slots[s].key = NoKey
  <2>1. w.slots[t].driver_active /\ w.slots[t].allocated
    BY <1>8 DEF Owned, NamedSlot
  <2>2. t \in LanePeers(w, s)
    BY <1>8, <2>1 DEF LanePeers
  <2>3. QED
    BY <1>8, <2>2 DEF LaneInUse
<1>9. Exclusive(v)
  <2> SUFFICES ASSUME NEW p \in Slots, NEW q \in Slots, v.slots[p].driver_started,
                      v.slots[q].driver_started, v.slots[p].key = v.slots[q].key, p # q
               PROVE  v.slots[p].key = NoKey
    BY DEF Exclusive
  <2>1. CASE p = s
    BY <1>8, <2>1
  <2>2. CASE q = s
    BY <1>8, <2>2
  <2>3. CASE p # s /\ q # s
    BY <2>3 DEF Owned, Exclusive
  <2>4. QED
    BY <2>1, <2>2, <2>3
<1>10. ASSUME NEW g \in Ids PROVE HasOwner(v, g)
  <2>1. CASE g = f
    BY <2>1 DEF HasOwner
  <2>2. CASE g # f
    BY <1>2, <2>2 DEF HasOwner, Owned
  <2>3. QED
    BY <2>1, <2>2
<1>11. Owned(v)
  BY <1>4, <1>5, <1>6, <1>7, <1>9, <1>10 DEF Owned
<1>12. Outlives(w, v)
  BY <1>2 DEF Outlives
<1>13. \A n \in Nat : Below(w, n) => Below(v, n)
  BY DEF Below
<1>14. QED
  BY <1>11, <1>12, <1>13 DEF Sound, SameSlots

LEMMA StartSound ==
    ASSUME NEW w \in World, Owned(w), NEW s \in Slots, NEW ok \in BOOLEAN,
           w.slots[s].driver_active, w.slots[s].state = "queued", ~LaneInUse(w, s)
    PROVE  Sound(w, StartDriver(w, s, ok))
<1> DEFINE a == w.slots[s]
           b == [a EXCEPT !.lane_waiting = FALSE, !.driver_started = TRUE, !.state = "pending"]
           u == Put(w, s, b)
           v == [u EXCEPT !.native[a.seq] = "running"]
<1>1. a \in SlotType /\ a.seq \in Ids /\ a.driver_active = TRUE
  BY WorldFields, DriverNames DEF SlotType
<1>2. b \in SlotType
  <2>1. FALSE \in BOOLEAN /\ TRUE \in BOOLEAN /\ "pending" \in States
    BY DEF States
  <2>2. QED
    BY <1>1, <2>1, Zenon DEF SlotType
<1>3. /\ b.allocated = a.allocated /\ b.seq = a.seq /\ b.driver_active = TRUE
      /\ b.driver_started = TRUE /\ b.state = "pending" /\ b.key = a.key
      /\ b.kind = a.kind /\ b.inputs = a.inputs
  BY <1>1 DEF SlotType
<1> HIDE DEF b
<1>4. u \in World /\ u.native = w.native /\ u.handles = w.handles /\ u.slots[s] = b
      /\ \A t \in Slots : t # s => u.slots[t] = w.slots[t]
  BY <1>2, PutIs
<1>5. StartDriver(w, s, ok) = IF ok THEN v ELSE RejectAndDestroy(u, s)
  BY Zenon DEF StartDriver, b
<1> HIDE DEF u
<1>6. CASE ok
  <2>1. "running" \in NativeStates
    BY DEF NativeStates
  <2>2. v \in World /\ v.slots = u.slots /\ v.native = [w.native EXCEPT ![a.seq] = "running"]
        /\ v.handles = w.handles
    BY <1>1, <1>4, <2>1, NativeIs
  <2> HIDE DEF v
  <2>5. v.slots[s] = b /\ \A t \in Slots : t # s => v.slots[t] = w.slots[t]
    BY <1>4, <2>2
  <2>6. b.allocated = w.slots[s].allocated /\ b.seq = w.slots[s].seq
        /\ b.key = w.slots[s].key /\ b.kind = w.slots[s].kind /\ b.inputs = w.slots[s].inputs
    BY <1>3
  <2>7. v \in World /\ v.native = [w.native EXCEPT ![w.slots[s].seq] = "running"]
        /\ v.handles = w.handles
    BY <2>2
  <2> HIDE DEF a
  <2>3. Sound(w, v)
    BY <1>2, <1>3, <2>5, <2>6, <2>7, StartOwned, Zenon
  <2>4. QED
    BY <1>5, <1>6, <2>3
<1>7. CASE ~ok
  <2> DEFINE r == RejectAndDestroy(u, s)
  <2>1. NamedSlot(u.slots[s])
    BY <1>3, <1>4 DEF Owned, NamedSlot
  <2>2. Ended(u, r, s, TRUE)
    BY <1>3, <1>4, <2>1, RejectEnds
  <2> HIDE DEF r
  <2>3. Drops(u, r, s) /\ NotQueued(r.slots[s]) /\ r \in World
    BY <2>2 DEF Ended, Ends
  <2>4. Carries(a, r.slots[s])
    <3>1. Served(a) => Served(b)
      BY <1>3 DEF Served, Terminal
    <3>2. QED
      BY <1>3, <1>4, <2>3, <3>1 DEF Drops, Carries, NotQueued
  <2>5. Drops(w, r, s)
    BY <1>1, <1>3, <1>4, <2>3, <2>4 DEF Drops, Others, SameSlots
  <2>6. Ended(w, r, s, TRUE)
    BY <2>3, <2>5 DEF Ended, Ends
  <2>7. w.native[w.slots[s].seq] # "running"
    BY QueuedCaptured
  <2>8. Sound(w, r)
    BY <2>6, <2>7, EndedSound
  <2>9. QED
    BY <1>5, <1>7, <2>8 DEF r
<1>8. QED
  BY <1>6, <1>7

LEMMA RejectSound ==
    ASSUME NEW w \in World, Owned(w), NEW s \in Slots, w.slots[s].state = "queued"
    PROVE  Sound(w, RejectAndDestroy(w, s))
<1>1. NamedSlot(w.slots[s]) /\ w.slots[s].driver_active \in BOOLEAN
  BY WorldFields DEF Owned, SlotType
<1>2. Ended(w, RejectAndDestroy(w, s), s, w.slots[s].driver_active)
  BY <1>1, RejectEnds
<1>3. QED
  BY <1>1, <1>2, QueuedCaptured, EndedSound

LEMMA SettleSound ==
    ASSUME NEW w \in World, Owned(w), NEW s \in Slots, NEW state \in Terminal,
           NEW by \in Ids \union {0}
    PROVE  Sound(w, Settle(w, s, state, by))
<1>1. Settle(w, s, state, by) \in World /\ Stays(w, Settle(w, s, state, by), s)
  BY SettleIs DEF Owned
<1>2. QED
  BY <1>1, StaysSound

\* Replacing a slot by one that says the same of its driver.
LEMMA PutSound ==
    ASSUME NEW w \in World, Owned(w), NEW s \in Slots, NEW slot \in SlotType,
           slot.allocated = w.slots[s].allocated, slot.seq = w.slots[s].seq,
           slot.driver_active = w.slots[s].driver_active,
           slot.driver_started = w.slots[s].driver_started, slot.key = w.slots[s].key,
           slot.state = "queued" => slot.state = w.slots[s].state /\ slot.kind = w.slots[s].kind,
           Served(w.slots[s]) => Served(slot)
    PROVE  Put(w, s, slot) \in World /\ Sound(w, Put(w, s, slot))
  BY PutStays, StaysSound

LEMMA CancelSound ==
    ASSUME NEW w \in World, Owned(w), NEW s \in Slots, NEW answer
    PROVE  Sound(w, CancelSlot(w, s, answer))
<1> DEFINE drops == w.slots[s].driver_active /\ w.slots[s].state = "queued"
<1>1. NamedSlot(w.slots[s]) /\ drops \in BOOLEAN
  BY WorldFields DEF Owned, SlotType
<1>2. Ended(w, CancelSlot(w, s, answer), s, drops)
  BY <1>1, CancelEnds
<1>3. drops => w.native[w.slots[s].seq] # "running"
  BY QueuedCaptured
<1> HIDE DEF drops
<1>4. QED
  BY <1>1, <1>2, <1>3, EndedSound

LEMMA ExpireSound ==
    ASSUME NEW w \in World, Owned(w), NEW s \in Slots, w.slots[s].state \notin Terminal,
           NEW answer, NEW custom \in Terminal
    PROVE  Sound(w, Expire(w, s, answer, custom))
<1> DEFINE drops == w.slots[s].driver_active /\ w.slots[s].state = "queued"
<1>1. NamedSlot(w.slots[s]) /\ drops \in BOOLEAN
  BY WorldFields DEF Owned, SlotType
<1>2. Ended(w, Expire(w, s, answer, custom), s, drops)
  BY <1>1, ExpireEnds
<1>3. drops => w.native[w.slots[s].seq] # "running"
  BY QueuedCaptured
<1> HIDE DEF drops
<1>4. QED
  BY <1>1, <1>2, <1>3, EndedSound

LEMMA PollSound ==
    ASSUME NEW w \in World, Owned(w), NEW s \in Slots, NEW v \in PollReady(w, s)
    PROVE  Sound(w, v)
<1>1. NamedSlot(w.slots[s])
  BY DEF Owned
<1>2. CASE Ends(w, v, s, FALSE)
  BY <1>2, EndedSound DEF Ended
<1>3. CASE w.native[w.slots[s].seq] = "done" /\ Ended(w, v, s, TRUE)
  BY <1>3, EndedSound
<1>4. QED
  BY <1>1, <1>2, <1>3, PollReadyEnds

LEMMA CopySound ==
    ASSUME NEW w \in World, Owned(w), NEW s \in Slots, NEW source
    PROVE  Sound(w, CopyTerminal(w, s, source))
<1>1. Ends(w, CopyTerminal(w, s, source), s, FALSE)
  BY CopyStays DEF Owned
<1>2. QED
  BY <1>1, EndedSound DEF Ended
-------------------------------------------------------------------------------
(* A new Future, and the queue of submissions. *)

LEMMA SeqIs == ASSUME NEW w \in World, NEW t \in Slots PROVE w.slots[t].seq \in Nat
<1>1. w.slots[t] \in SlotType
  BY WorldFields
<1>2. QED
  BY <1>1, NumbersAre DEF SlotType

\* A new Future takes a free slot; no other slot names it.
LEMMA AllocateOwned ==
    ASSUME NEW w \in World, Owned(w), NEW s \in Slots, ~w.slots[s].allocated,
           NEW f \in Ids, \A t \in Slots : w.slots[t].seq < f,
           NEW v \in World, NEW b \in SlotType,
           b.allocated = TRUE, b.seq = f, b.driver_started = FALSE,
           b.driver_active = (b.kind = "driver"), Served(b),
           v.slots[s] = b, \A t \in Slots : t # s => v.slots[t] = w.slots[t],
           v.native[f] = IF b.kind = "driver" THEN "captured" ELSE "none",
           \A g \in Ids : g # f => v.native[g] = w.native[g],
           b.state = "queued"
    PROVE  Owned(v) /\ Outlives(w, v) /\ Below(v, f)
<1>1. /\ v.native[f] = IF b.kind = "driver" THEN "captured" ELSE "none"
      /\ \A g \in Ids : g # f => v.native[g] = w.native[g]
  OBVIOUS
<1>2. f # 0 /\ f \in Nat
  BY NumbersAre
<1>3. \A t \in Slots : w.slots[t].seq # f
  <2> TAKE t \in Slots
  <2>1. w.slots[t].seq \in Nat
    BY SeqIs
  <2>2. QED
    BY <1>2, <2>1
<1>4. \A t \in Slots : NamedSlot(v.slots[t]) /\ Served(v.slots[t]) /\ Fresh(v.slots[t])
  <2>1. NamedSlot(b) /\ Fresh(b)
    BY <1>2 DEF NamedSlot, Fresh
  <2>2. QED
    BY <2>1 DEF Owned
<1>5. Unique(v)
  BY <1>3 DEF Owned, Unique
<1>6. ASSUME NEW t \in Slots, v.slots[t].driver_active PROVE Driven(v, t)
  <2>1. CASE t = s
    BY <1>1, <1>6, <2>1 DEF Driven
  <2>2. CASE t # s
    <3>1. w.slots[t].seq \in Ids /\ w.slots[t].seq # f
      BY <1>3, <1>6, <2>2, DriverNames
    <3>2. QED
      BY <1>1, <1>6, <2>2, <3>1 DEF Owned, Driven
  <2>3. QED
    BY <2>1, <2>2
<1>7. \A t \in Slots : v.slots[t].driver_started => v.slots[t].driver_active
  BY DEF Owned
<1>8. Exclusive(v)
  BY DEF Owned, Exclusive
<1>9. ASSUME NEW g \in Ids PROVE HasOwner(v, g)
  <2>1. CASE g = f
    BY <1>1, <2>1 DEF HasOwner
  <2>2. CASE g # f
    <3>1. \A t \in Slots : w.slots[t].driver_active => t # s
      BY DEF Owned, NamedSlot
    <3>2. QED
      BY <1>1, <2>2, <3>1 DEF HasOwner, Owned
  <2>3. QED
    BY <2>1, <2>2
<1>10. Owned(v)
  BY <1>4, <1>5, <1>6, <1>7, <1>8, <1>9 DEF Owned
<1>11. Outlives(w, v)
  BY <1>1 DEF Outlives
<1>12. Below(v, f)
  <2> SUFFICES ASSUME NEW t \in Slots PROVE v.slots[t].seq <= f
    BY DEF Below
  <2>1. w.slots[t].seq \in Nat
    BY SeqIs
  <2>2. CASE t = s
    BY <1>2, <2>2
  <2>3. CASE t # s
    BY <1>2, <2>1, <2>3
  <2>4. QED
    BY <2>2, <2>3
<1>13. QED
  BY <1>10, <1>11, <1>12

\* What the new Future f in slot s changes.
Allocated(v, s, f) ==
    /\ v \in World /\ Owned(v) /\ Outlives(fut, v) /\ Below(v, f)
    /\ v.slots[s].state = "queued" /\ v.slots[s].seq = f /\ v.handles[f].slot = s
    /\ \A g \in Ids : g # f => /\ v.native[g] = fut.native[g]
                               /\ v.handles[g].slot = fut.handles[g].slot

LEMMA AllocateSound ==
    ASSUME fut \in World, Owned(fut), next \in Nat, next < MaxFutures, Below(fut, next),
           NEW s \in Slots, ~fut.slots[s].allocated,
           NEW kind \in AllKinds, NEW key \in Keys \union {NoKey}, NEW deadline \in BOOLEAN,
           NEW inputs \in Seq(Ids),
           kind \in {"timeout", "map", "flatMap"} => inputs # <<>>
    PROVE  Allocated(AllocateSlot(s, kind, key, deadline, inputs), s, next + 1)
<1> DEFINE a == fut.slots[s]
           f == next + 1
           b == [a EXCEPT !.allocated = TRUE, !.generation = @ + 1, !.seq = f, !.kind = kind,
                          !.state = "queued", !.deadline = deadline, !.inputs = inputs,
                          !.key = key, !.handle = TRUE,
                          !.call_refs = (kind \in {"call", "map", "flatMap"}),
                          !.driver_active = (kind = "driver")]
           h == [slot |-> s, alive |-> TRUE, terminal |-> FALSE,
                 generation |-> a.generation + 1, state |-> "queued", by |-> 0]
           n == IF kind = "driver" THEN "captured" ELSE "none"
           u == Put(fut, s, b)
           v == [u EXCEPT !.handles[f] = h, !.native[f] = n]
<1>1. f \in Ids /\ a \in SlotType /\ a.generation \in Nat /\ a.generation + 1 \in Nat
  BY WorldFields, FutureAssumption DEF SlotType, Ids
<1>2. b \in SlotType
  <2>1. /\ TRUE \in BOOLEAN /\ "queued" \in States /\ f \in Ids \union {0}
        /\ (kind \in {"call", "map", "flatMap"}) \in BOOLEAN /\ (kind = "driver") \in BOOLEAN
    BY <1>1 DEF States
  <2>2. b = [a EXCEPT !.allocated = TRUE, !.generation = a.generation + 1, !.seq = f,
                      !.kind = kind, !.state = "queued", !.deadline = deadline,
                      !.inputs = inputs, !.key = key, !.handle = TRUE,
                      !.call_refs = (kind \in {"call", "map", "flatMap"}),
                      !.driver_active = (kind = "driver")]
    BY Zenon
  <2> HIDE DEF f
  <2>3. QED
    BY <1>1, <2>1, <2>2, ZenonT(60) DEF SlotType
<1>3. /\ b.allocated = TRUE /\ b.seq = f /\ b.kind = kind /\ b.inputs = inputs
      /\ b.state = "queued" /\ b.driver_active = (kind = "driver")
      /\ b.driver_started = a.driver_started
  BY <1>1 DEF SlotType
<1>4. h \in HandleType /\ n \in NativeStates /\ h.slot = s
  BY <1>1 DEF HandleType, States, NativeStates
<1>5. AllocateSlot(s, kind, key, deadline, inputs) = v
  BY Zenon DEF AllocateSlot
<1> HIDE DEF b, h
<1>6. u \in World /\ u.native = fut.native /\ u.handles = fut.handles /\ u.slots[s] = b
      /\ \A t \in Slots : t # s => u.slots[t] = fut.slots[t]
  BY <1>2, PutIs
<1> HIDE DEF u
<1>7. v \in World /\ v.slots = u.slots /\ v.native = [fut.native EXCEPT ![f] = n]
      /\ v.handles = [fut.handles EXCEPT ![f] = h]
  <2> HIDE DEF f, n
  <2>1. QED
    BY <1>1, <1>4, <1>6 DEF World
<1> HIDE DEF v
<1>8. b.driver_started = FALSE
  <2>1. ~a.driver_started
    BY DEF Owned, NamedSlot
  <2>2. QED
    BY <1>1, <1>3, <2>1 DEF SlotType
<1>9. \A t \in Slots : fut.slots[t].seq < f
  <2> TAKE t \in Slots
  <2>1. fut.slots[t] \in SlotType
    BY WorldFields
  <2>2. fut.slots[t].seq \in Nat
    BY <2>1, NumbersAre DEF SlotType
  <2>3. fut.slots[t].seq <= next
    BY DEF Below
  <2>4. QED
    BY <2>2, <2>3
<1>10. Served(b)
  BY <1>3 DEF Served
<1>11. v.slots[s] = b /\ \A t \in Slots : t # s => v.slots[t] = fut.slots[t]
  BY <1>6, <1>7
<1>12. /\ v.native[f] = IF b.kind = "driver" THEN "captured" ELSE "none"
       /\ \A g \in Ids : g # f => v.native[g] = fut.native[g]
  <2> HIDE DEF f
  <2>1. QED
    BY <1>1, <1>3, <1>7, WorldFields
<1>13. b.driver_active = (b.kind = "driver")
  BY <1>3
<1> HIDE DEF f
<1>14. Owned(v) /\ Outlives(fut, v) /\ Below(v, f)
  <2>1. /\ f \in Ids /\ v \in World /\ b.allocated = TRUE /\ b.seq = f /\ b.state = "queued"
    BY <1>1, <1>3, <1>7
  <2>2. QED
    BY <1>2, <1>8, <1>9, <1>10, <1>11, <1>12, <1>13, <2>1, AllocateOwned, ZenonT(40)
<1>16. v.handles[f].slot = s /\ \A g \in Ids : g # f => v.handles[g].slot = fut.handles[g].slot
  BY <1>1, <1>4, <1>7, WorldFields
<1>15. QED
  BY <1>3, <1>5, <1>7, <1>11, <1>12, <1>14, <1>16 DEF f, Allocated
-------------------------------------------------------------------------------
\* The positions up to n, and how many there are.
Upto(S, n) == {j \in S : j <= n}
Count(S, n) == Cardinality(Upto(S, n))

LEMMA UptoIs ==
    ASSUME NEW m \in Nat, NEW S, S \subseteq 1 .. m
    PROVE  /\ Upto(S, 0) = {} /\ Upto(S, m) = S
           /\ \A p \in 1 .. m : p \in S => Upto(S, p) = Upto(S, p - 1) \union {p}
           /\ \A p \in 1 .. m : p \notin S => Upto(S, p) = Upto(S, p - 1)
           /\ \A p \in 1 .. m : p \notin Upto(S, p - 1)
<1>1. \A j \in S : j \in Nat /\ 1 <= j /\ j <= m
  OBVIOUS
<1>2. \A j, n : j \in Upto(S, n) <=> j \in S /\ j <= n
  BY DEF Upto
<1>3. Upto(S, 0) = {}
  <2> SUFFICES ASSUME NEW j \in Upto(S, 0) PROVE FALSE
    OBVIOUS
  <2>1. j \in Nat /\ 1 <= j /\ j <= 0
    BY <1>1, <1>2
  <2>2. QED
    BY <2>1
<1>4. Upto(S, m) = S
  BY <1>1, <1>2
<1>5. ASSUME NEW p \in 1 .. m
      PROVE  /\ p \in S => Upto(S, p) = Upto(S, p - 1) \union {p}
             /\ p \notin S => Upto(S, p) = Upto(S, p - 1)
             /\ p \notin Upto(S, p - 1)
  <2>1. p \in Nat /\ ~ (p <= p - 1) /\ p <= p
    OBVIOUS
  <2>2. \A j \in S : (j <= p) <=> (j = p \/ j <= p - 1)
    BY <1>1, <2>1
  <2>3. QED
    BY <1>2, <2>1, <2>2, Zenon
<1>6. QED
  BY <1>3, <1>4, <1>5

LEMMA CountIs ==
    ASSUME NEW m \in Nat, NEW S, S \subseteq 1 .. m
    PROVE  /\ Cardinality(S) \in Nat /\ Cardinality(S) <= m
           /\ Count(S, 0) = 0 /\ Count(S, m) = Cardinality(S)
           /\ \A n \in Nat : Count(S, n) \in Nat
           /\ \A p \in 1 .. m : Count(S, p) = Count(S, p - 1) + (IF p \in S THEN 1 ELSE 0)
<1>1. IsFiniteSet(1 .. m) /\ Cardinality(1 .. m) = m
  BY FS_Interval
<1>2. IsFiniteSet(S) /\ Cardinality(S) <= Cardinality(1 .. m)
  BY <1>1, FS_Subset
<1>3. \A n : IsFiniteSet(Upto(S, n))
  BY <1>2, FS_Subset DEF Upto
<1>4. \A n : Count(S, n) \in Nat
  BY <1>3, FS_CardinalityType DEF Count
<1>0. /\ Upto(S, 0) = {} /\ Upto(S, m) = S
      /\ \A p \in 1 .. m : p \in S => Upto(S, p) = Upto(S, p - 1) \union {p}
      /\ \A p \in 1 .. m : p \notin S => Upto(S, p) = Upto(S, p - 1)
      /\ \A p \in 1 .. m : p \notin Upto(S, p - 1)
  BY UptoIs
<1>5. Count(S, 0) = 0 /\ Count(S, m) = Cardinality(S)
  BY <1>0, FS_EmptySet DEF Count
<1>6. ASSUME NEW p \in 1 .. m
      PROVE  Count(S, p) = Count(S, p - 1) + (IF p \in S THEN 1 ELSE 0)
  <2>1. CASE p \in S
    <3>1. Upto(S, p) = Upto(S, p - 1) \union {p} /\ p \notin Upto(S, p - 1)
      BY <1>0, <2>1
    <3>2. Count(S, p) = Count(S, p - 1) + 1
      BY <1>3, <3>1, FS_AddElement DEF Count
    <3>3. QED
      BY <2>1, <3>2
  <2>2. CASE p \notin S
    <3>1. Count(S, p) = Count(S, p - 1)
      BY <1>0, <2>2 DEF Count
    <3>2. Count(S, p - 1) \in Nat
      BY <1>4
    <3>3. QED
      BY <2>2, <3>1, <3>2
  <2>3. QED
    BY <2>1, <2>2
<1>7. Cardinality(S) \in Nat /\ Cardinality(S) <= m
  BY <1>1, <1>2, FS_CardinalityType
<1>8. QED
  BY <1>4, <1>5, <1>6, <1>7

\* The k-th of a set of positions exists: the least number that has k of them
\* up to it.
LEMMA PositionIs ==
    ASSUME NEW m \in Nat, NEW S, S \subseteq 1 .. m, NEW k \in 1 .. Cardinality(S)
    PROVE  Position(S, k) \in S /\ Count(S, Position(S, k)) = k
<1> DEFINE T == {n \in 1 .. m : k <= Count(S, n)}
           p == Least(T)
<1>0. /\ Cardinality(S) \in Nat /\ Count(S, 0) = 0 /\ Count(S, m) = Cardinality(S)
      /\ \A n \in Nat : Count(S, n) \in Nat
      /\ \A n \in 1 .. m : Count(S, n) = Count(S, n - 1) + (IF n \in S THEN 1 ELSE 0)
  BY CountIs
<1>1. k \in Nat /\ 1 <= k /\ k <= Cardinality(S)
  BY <1>0
<1>2. m \in T
  <2>1. k <= Count(S, m) /\ Count(S, m) \in Nat
    BY <1>0, <1>1
  <2>2. m # 0
    BY <1>0, <1>1, <2>1
  <2>3. QED
    BY <2>1, <2>2
<1>3. T \subseteq Nat /\ T # {}
  BY <1>2
<1>4. \A n : n \in T <=> n \in 1 .. m /\ k <= Count(S, n)
  BY Zenon
<1> HIDE DEF T
<1>5. p \in T /\ \A n \in T : p <= n
  BY <1>3, LeastIn
<1> HIDE DEF p
<1>6. p \in 1 .. m /\ k <= Count(S, p) /\ p \in Nat /\ p - 1 \in Nat
  BY <1>4, <1>5
<1>7. Count(S, p) \in Nat /\ Count(S, p - 1) \in Nat
      /\ Count(S, p) = Count(S, p - 1) + (IF p \in S THEN 1 ELSE 0)
  BY <1>0, <1>6
<1>8. Count(S, p - 1) < k
  <2>1. CASE p - 1 = 0
    BY <1>0, <1>1, <2>1
  <2>2. CASE p - 1 # 0
    <3>1. p - 1 \in 1 .. m
      BY <1>6, <2>2
    <3>2. p - 1 \notin T
      BY <1>5, <1>6
    <3>3. ~ (k <= Count(S, p - 1))
      BY <1>4, <3>1, <3>2
    <3>4. QED
      BY <1>1, <1>7, <3>3
  <2>3. QED
    BY <2>1, <2>2
<1>9. p \in S /\ Count(S, p) = k
  BY <1>1, <1>6, <1>7, <1>8
<1>10. Position(S, k) = CHOOSE i \in S : Count(S, i) = k
  BY Zenon DEF Position, Count, Upto
<1>11. QED
  BY <1>9, <1>10, Zenon

\* Compaction keeps tokens, and no more than there were.
LEMMA CompactIs ==
    ASSUME NEW q \in Seq(TokenType), NEW S, S \subseteq DOMAIN q
    PROVE  Compact(q, S) \in Seq(TokenType) /\ Len(Compact(q, S)) <= Len(q)
<1>1. DOMAIN q = 1 .. Len(q) /\ Len(q) \in Nat /\ \A i \in 1 .. Len(q) : q[i] \in TokenType
  OBVIOUS
<1>2. Cardinality(S) \in Nat /\ Cardinality(S) <= Len(q)
  BY <1>1, CountIs
<1>3. \A k \in 1 .. Cardinality(S) : Position(S, k) \in 1 .. Len(q)
  BY <1>1, PositionIs
<1>4. \A k \in 1 .. Cardinality(S) : q[Position(S, k)] \in TokenType
  BY <1>1, <1>3
<1> DEFINE n == Cardinality(S)
<1>5. Compact(q, S) = [k \in 1 .. n |-> q[Position(S, k)]]
  BY DEF Compact
<1> HIDE DEF n
<1>6. Compact(q, S) \in [1 .. n -> TokenType]
  BY <1>4, <1>5 DEF n
<1>7. n \in Nat
  BY <1>2 DEF n
<1>8. Compact(q, S) \in Seq(TokenType) /\ Len(Compact(q, S)) = n
  BY <1>6, <1>7
<1>9. QED
  BY <1>2, <1>8 DEF n

LEMMA CapacityIs == Capacity \in Nat
<1>1. 0 \in Int /\ UserSlots + Reserve - 1 \in Int
  BY NumbersAre
<1>2. IsFiniteSet(Slots)
  BY <1>1, FS_Interval DEF Slots
<1>3. QED
  BY <1>2, FS_CardinalityType DEF Capacity

LEMMA EnqueueIs ==
    ASSUME submissions \in Seq(TokenType), Len(submissions) <= Capacity, NEW w,
           NEW t \in TokenType
    PROVE  Enqueue(w, t) \in Seq(TokenType) /\ Len(Enqueue(w, t)) <= Capacity
<1> DEFINE queued == {i \in DOMAIN submissions :
                         /\ ResolveToken(w, submissions[i]) # NoSlot
                         /\ w.slots[submissions[i].slot].state = "queued"}
           kept == IF Len(submissions) < Capacity THEN submissions
                   ELSE Compact(submissions, queued)
<1>1. Capacity \in Nat
  BY CapacityIs
<1>2. queued \subseteq DOMAIN submissions
  OBVIOUS
<1>3. Enqueue(w, t) = IF Len(kept) < Capacity THEN Append(kept, t) ELSE kept
  BY Zenon DEF Enqueue
<1> HIDE DEF queued
<1>4. Compact(submissions, queued) \in Seq(TokenType)
      /\ Len(Compact(submissions, queued)) <= Len(submissions)
  BY <1>2, CompactIs
<1>5. kept \in Seq(TokenType) /\ Len(kept) <= Capacity /\ Len(kept) \in Nat
  BY <1>1, <1>4
<1> HIDE DEF kept
<1>6. QED
  BY <1>1, <1>3, <1>5
-------------------------------------------------------------------------------
(* The inductive invariant. *)

\* An activation that called something knows the slot it called for.
FrameOK(a) == /\ a.phase \in {"call", "cont"} => a.runSlot \in Slots
              /\ a.sync => a.wait \in Ids
StackOK(st) ==
    st \in Seq(FrameType) /\ Len(st) \in 1 .. MaxDepth /\ \A i \in 1 .. Len(st) : FrameOK(st[i])
QueuesOK ==
    /\ submissions \in Seq(TokenType) /\ Len(submissions) <= Capacity
    /\ ready \in Seq(TokenType) /\ Len(ready) <= ReadyLen
RestOK ==
    /\ next \in 0 .. MaxFutures /\ due \subseteq Ids /\ waking \subseteq 1 .. next
    /\ firing \in Slots \union {NoSlot} /\ shutting_down \in BOOLEAN /\ closed \in BOOLEAN

\* The object of every Future so far names the slot it was made for.
Handed(w, n) == \A f \in Ids : f <= n => w.handles[f].slot \in Slots

\* The inductive invariant.
IInv ==
    /\ fut \in World /\ Owned(fut) /\ Below(fut, next) /\ Handed(fut, next)
    /\ RestOK /\ QueuesOK /\ StackOK(stack)

\* What every step does.
StepOK == IInv' /\ Outlives(fut, fut')

LEMMA Assemble ==
    ASSUME IInv, Sound(fut, fut'), next' = next, RestOK', QueuesOK', StackOK(stack')
    PROVE  StepOK
<1>1. next \in Nat
  BY DEF IInv, RestOK
<1>2. Below(fut', next)
  BY <1>1 DEF IInv, Sound
<1>3. Below(fut, next)' /\ Handed(fut, next)'
  BY <1>1, <1>2 DEF Below, Handed, IInv, Sound, SameSlots
<1>4. fut' \in World /\ Owned(fut') /\ Outlives(fut, fut')
  BY DEF Sound
<1>5. (fut \in World)' /\ Owned(fut)' /\ StackOK(stack)'
  BY <1>4 DEF Owned, Unique, Exclusive, HasOwner, Driven, StackOK
<1>6. QED
  BY <1>3, <1>4, <1>5 DEF IInv, StepOK
-------------------------------------------------------------------------------
(* The stack. *)

LEMMA TopIs ==
    ASSUME StackOK(stack)
    PROVE  Top \in FrameType /\ FrameOK(Top) /\ Len(stack) \in 1 .. Len(stack)
<1>1. Len(stack) \in Nat /\ Len(stack) >= 1
  BY DEF StackOK
<1>2. Len(stack) \in 1 .. Len(stack)
  BY <1>1
<1>3. QED
  BY <1>2 DEF Top, StackOK

LEMMA SetTopIs ==
    ASSUME StackOK(stack), NEW a \in FrameType, FrameOK(a), SetTop(a)
    PROVE  StackOK(stack')
<1>1. Len(stack) \in 1 .. Len(stack)
  BY TopIs
<1>2. stack' = [stack EXCEPT ![Len(stack)] = a] /\ stack \in Seq(FrameType)
  BY DEF SetTop, StackOK
<1>3. stack' \in Seq(FrameType) /\ Len(stack') = Len(stack)
      /\ \A i \in 1 .. Len(stack) : stack'[i] = IF i = Len(stack) THEN a ELSE stack[i]
  BY <1>1, <1>2
<1>4. QED
  BY <1>3 DEF StackOK

LEMMA PushIs ==
    ASSUME StackOK(stack), NEW a \in FrameType, FrameOK(a), Push(a), Len(stack) < MaxDepth
    PROVE  StackOK(stack')
<1>1. stack' = Append(stack, a) /\ stack \in Seq(FrameType) /\ Len(stack) \in Nat
      /\ Len(stack) \in 1 .. MaxDepth /\ MaxDepth \in Nat
  BY FutureAssumption DEF Push, StackOK
<1>2. stack' \in Seq(FrameType) /\ Len(stack') = Len(stack) + 1
      /\ \A i \in 1 .. Len(stack) + 1 : stack'[i] = IF i <= Len(stack) THEN stack[i] ELSE a
  BY <1>1
<1>3. \A i \in 1 .. Len(stack') : FrameOK(stack'[i])
  <2> TAKE i \in 1 .. Len(stack')
  <2>1. i \in 1 .. Len(stack) + 1 /\ (i <= Len(stack) => i \in 1 .. Len(stack))
    BY <1>1, <1>2
  <2>2. QED
    BY <1>2, <2>1 DEF StackOK
<1>4. QED
  BY <1>1, <1>2, <1>3 DEF StackOK

LEMMA PopIs ==
    ASSUME StackOK(stack), Len(stack) > 1, stack' = SubSeq(stack, 1, Len(stack) - 1)
    PROVE  StackOK(stack')
<1>1. stack \in Seq(FrameType) /\ Len(stack) \in 1 .. MaxDepth /\ Len(stack) \in Nat
      /\ MaxDepth \in Nat
  BY FutureAssumption DEF StackOK
<1>2. stack' \in Seq(FrameType) /\ Len(stack') = Len(stack) - 1
      /\ \A i \in 1 .. Len(stack) - 1 : stack'[i] = stack[i]
  BY <1>1
<1>3. \A i \in 1 .. Len(stack') : FrameOK(stack'[i])
  BY <1>1, <1>2 DEF StackOK
<1>4. QED
  BY <1>1, <1>2, <1>3 DEF StackOK

LEMMA MoveIs ==
    ASSUME StackOK(stack), NEW n \in Nat,
           NEW phase \in {"js", "expire", "sleep", "dispatch", "ready", "active", "lanes", "combine"},
           Move(phase, n)
    PROVE  StackOK(stack')
<1> DEFINE a == [Top EXCEPT !.phase = phase, !.n = n]
<1>1. Top \in FrameType /\ FrameOK(Top)
  BY TopIs
<1>2. a \in FrameType /\ FrameOK(a)
  BY <1>1 DEF FrameType, FrameOK
<1>3. SetTop(a)
  BY DEF Move
<1> HIDE DEF a
<1>4. QED
  BY <1>2, <1>3, SetTopIs

LEMMA AtIs ==
    ASSUME StackOK(stack), NEW phase
    PROVE  At(phase) \in Nat /\ \A S : From(phase, S) \subseteq S
<1>1. Top \in FrameType
  BY TopIs
<1>2. QED
  BY <1>1 DEF At, From, FrameType

\* The least slot of a phase that has work is one of its slots.
LEMMA LeastFrom ==
    ASSUME StackOK(stack), NEW phase, NEW S, S \subseteq Slots, From(phase, S) # {}
    PROVE  LET s == Least(From(phase, S)) IN s \in S /\ s \in Slots /\ s \in Nat /\ s + 1 \in Nat
<1>1. From(phase, S) \subseteq S
  BY AtIs
<1>2. From(phase, S) \subseteq Nat
  BY <1>1, NumbersAre
<1>3. Least(From(phase, S)) \in From(phase, S)
  BY <1>2, LeastIn
<1>4. QED
  BY <1>1, <1>2, <1>3
-------------------------------------------------------------------------------
(* Submission. *)

LEMMA FreeIs ==
    ASSUME NEW internal \in BOOLEAN, FindFree(internal) # NoSlot
    PROVE  FindFree(internal) \in Slots /\ ~fut.slots[FindFree(internal)].allocated
<1> DEFINE own == IF internal THEN Free(fut, Slots \ UserTable) ELSE {}
           all == IF own # {} THEN own ELSE Free(fut, UserTable)
<1>1. FindFree(internal) = IF all = {} THEN NoSlot ELSE Least(all)
  BY Zenon DEF FindFree
<1>2. \A S : S \subseteq Slots => Free(fut, S) \subseteq Slots
  BY DEF Free
<1>3. all \subseteq Slots /\ \A s \in all : ~fut.slots[s].allocated
  BY <1>2, NumbersAre DEF Free
<1> HIDE DEF all
<1>4. all # {} /\ all \subseteq Nat
  BY <1>1, <1>3, NumbersAre
<1>5. Least(all) \in all
  BY <1>4, LeastIn
<1>6. QED
  BY <1>1, <1>3, <1>4, <1>5

\* A Future that does not exist yet has no operation that runs.
LEMMA NewRunsNot ==
    ASSUME NEW w \in World, Owned(w), NEW n \in Nat, Below(w, n), NEW f \in Ids, f > n
    PROVE  w.native[f] # "running"
<1> SUFFICES ASSUME w.native[f] = "running" PROVE FALSE
  OBVIOUS
<1>1. PICK s \in Slots : w.slots[s].seq = f
  BY DEF Owned, HasOwner
<1>2. w.slots[s].seq <= n
  BY DEF Below
<1>3. QED
  BY <1>1, <1>2, NumbersAre

LEMMA SubmitSound ==
    ASSUME IInv, NEW kind \in AllKinds, NEW key \in Keys \union {NoKey},
           NEW deadline \in BOOLEAN, NEW inputs \in Seq(Ids), NEW internal \in BOOLEAN,
           kind \in {"timeout", "map", "flatMap"} => inputs # <<>>,
           Submit(kind, key, deadline, inputs, internal)
    PROVE  /\ fut' \in World /\ Owned(fut') /\ Outlives(fut, fut') /\ Below(fut', next')
           /\ Handed(fut', next')
           /\ next' \in 0 .. MaxFutures /\ next' = next + 1 /\ next' \in Ids
           /\ submissions' \in Seq(TokenType) /\ Len(submissions') <= Capacity
<1> DEFINE s == FindFree(internal)
           f == next + 1
           w == AllocateSlot(s, kind, key, deadline, inputs)
           q == Enqueue(w, Token(w, s))
           sent == \E i \in 1 .. Len(q) : q[i] = Token(w, s)
           h == [w.handles[f] EXCEPT !.alive = FALSE]
           u == [w EXCEPT !.handles[f].alive = FALSE]
<1>1. next < MaxFutures /\ s # NoSlot
      /\ next' = f /\ submissions' = q /\ fut' = IF sent THEN w ELSE ClearSlot(u, s)
  BY Zenon DEF Submit
<1>2. s \in Slots /\ ~fut.slots[s].allocated
  BY <1>1, FreeIs
<1>3. next \in Nat /\ f \in Nat /\ f \in Ids /\ f \in 0 .. MaxFutures /\ MaxFutures \in Nat
  BY <1>1, FutureAssumption DEF IInv, RestOK, Ids
<1> HIDE DEF s, u, h, q
<1>4. /\ w \in World /\ Owned(w) /\ Outlives(fut, w) /\ Below(w, f)
      /\ w.slots[s].state = "queued" /\ w.slots[s].seq = f /\ w.handles[f].slot = s
      /\ \A g \in Ids : g # f => /\ w.native[g] = fut.native[g]
                                 /\ w.handles[g].slot = fut.handles[g].slot
  <2>1. fut \in World /\ Owned(fut) /\ Below(fut, next)
    BY DEF IInv
  <2>2. QED
    <3>1. Allocated(w, s, f)
      BY <1>1, <1>2, <1>3, <2>1, AllocateSound
    <3>2. QED
      BY <3>1 DEF Allocated
<1> HIDE DEF w
<1>5. Handed(w, f)
  <2> SUFFICES ASSUME NEW g \in Ids, g <= f PROVE w.handles[g].slot \in Slots
    BY DEF Handed
  <2>1. g = f \/ g <= next
    BY <1>3 DEF Ids
  <2>2. CASE g = f
    BY <1>2, <1>4, <2>2
  <2>3. CASE g # f
    BY <1>4, <2>1, <2>3 DEF IInv, Handed
  <2>4. QED
    BY <2>2, <2>3
<1>6. q \in Seq(TokenType) /\ Len(q) <= Capacity
  BY <1>2, <1>4, TokenIs, EnqueueIs DEF IInv, QueuesOK, q
<1>7. u \in World /\ u.slots = w.slots /\ u.native = w.native /\ SameSlots(w, u)
  <2>1. u = [w EXCEPT !.handles[f] = [@ EXCEPT !.alive = FALSE]]
    BY Zenon DEF u
  <2>2. u = [w EXCEPT !.handles[f] = h]
    BY <2>1, Zenon DEF h
  <2>6. w.handles[f] \in HandleType /\ FALSE \in BOOLEAN
    BY <1>3, <1>4, WorldFields
  <2>3. h \in HandleType /\ h.slot = w.handles[f].slot
    <3>1. h \in HandleType
      BY <2>6, Zenon DEF HandleType, h
    <3>2. QED
      BY <2>6, <3>1 DEF HandleType, h
  <2> HIDE DEF f
  <2>4. u \in World /\ u.slots = w.slots /\ u.native = w.native
        /\ u.handles = [w.handles EXCEPT ![f] = h]
    BY <1>3, <1>4, <2>2, <2>3, HandleIs
  <2>5. QED
    BY <1>3, <1>4, <2>3, <2>4, WorldFields DEF SameSlots
<1> DEFINE v == ClearSlot(u, s)
<1>8. Sound(w, u)
  BY <1>4, <1>7, SameSound
<1>9. Sound(u, v) /\ v.native = IF u.slots[s].driver_active
                                THEN [u.native EXCEPT ![f] = "destroyed"] ELSE u.native
  <2>1. NamedSlot(u.slots[s]) /\ u.slots[s].driver_active \in BOOLEAN /\ Owned(u)
        /\ u.slots[s].state = "queued" /\ u.slots[s].seq = f
    BY <1>2, <1>4, <1>7, <1>8, WorldFields DEF Owned, SlotType, Sound
  <2>2. Ended(u, v, s, u.slots[s].driver_active)
    BY <1>2, <1>7, <2>1, ClearEnds
  <2>3. Sound(u, v)
    BY <1>2, <1>7, <2>1, <2>2, QueuedCaptured, EndedSound
  <2>4. QED
    BY <2>1, <2>2, <2>3 DEF Ended, Ends, Drops, Stays
<1> HIDE DEF v
<1>10. CASE sent
  BY <1>1, <1>3, <1>4, <1>5, <1>6, <1>10
<1>11. CASE ~sent
  <2>1. fut' = v
    BY <1>1, <1>11 DEF v
  <2>2. v \in World /\ Owned(v) /\ Below(v, f) /\ SameSlots(w, v)
    BY <1>3, <1>4, <1>7, <1>8, <1>9 DEF Sound, SameSlots
  <2>3. Handed(v, f)
    BY <1>5, <2>2 DEF Handed, SameSlots
  <2>4. fut.native[f] # "running"
    BY <1>3, NewRunsNot DEF IInv
  <2>5. \A g \in Ids : g # f => v.native[g] = fut.native[g]
    BY <1>4, <1>7, <1>9, WorldFields
  <2>6. Outlives(fut, v)
    BY <2>4, <2>5 DEF Outlives
  <2>7. QED
    BY <1>1, <1>3, <1>6, <2>1, <2>2, <2>3, <2>6
<1>12. QED
  BY <1>10, <1>11
-------------------------------------------------------------------------------
(* What JavaScript calls. *)

\* Steps that touch the slots and the stack only.
LEMMA Quiet ==
    ASSUME IInv, Sound(fut, fut'), StackOK(stack'),
           UNCHANGED <<next, submissions, ready, due, waking, firing, shutting_down, closed>>
    PROVE  StepOK
  BY Assemble DEF IInv, RestOK, QueuesOK

LEMMA SubmitStep ==
    ASSUME IInv, NEW kind \in AllKinds, NEW key \in Keys \union {NoKey},
           NEW deadline \in BOOLEAN, NEW inputs \in Seq(Ids), NEW internal \in BOOLEAN,
           kind \in {"timeout", "map", "flatMap"} => inputs # <<>>,
           Submit(kind, key, deadline, inputs, internal), StackOK(stack'),
           UNCHANGED <<ready, due, waking, firing, shutting_down, closed>>
    PROVE  StepOK
<1>1. /\ fut' \in World /\ Owned(fut') /\ Outlives(fut, fut') /\ Below(fut', next')
      /\ Handed(fut', next')
      /\ next' \in 0 .. MaxFutures /\ next' = next + 1
      /\ submissions' \in Seq(TokenType) /\ Len(submissions') <= Capacity
  BY SubmitSound
<1>2. Owned(fut)' /\ Below(fut, next)' /\ Handed(fut, next)' /\ StackOK(stack)'
  BY <1>1 DEF Owned, Unique, Exclusive, HasOwner, Driven, StackOK, Below, Handed
<1>3. QueuesOK'
  BY <1>1 DEF IInv, QueuesOK
<1>4. waking' \subseteq 1 .. next'
  BY <1>1 DEF IInv, RestOK
<1>5. RestOK'
  BY <1>1, <1>4 DEF IInv, RestOK
<1>6. QED
  BY <1>1, <1>2, <1>3, <1>5 DEF IInv, StepOK

LEMMA SameStack == ASSUME IInv, stack' = stack PROVE StackOK(stack')
  BY DEF IInv

LEMMA CallSteps1 ==
    ASSUME IInv, js_future_call \/ CallDriver \/ js_future_sleep
    PROVE  StepOK
<1>1. /\ {"call", "driver", "sleep"} \subseteq AllKinds /\ NoKey \in Keys \union {NoKey}
      /\ TRUE \in BOOLEAN /\ FALSE \in BOOLEAN /\ ScopedDeadline \in BOOLEAN
      /\ <<>> \in Seq(Ids) /\ \A k \in Keys : k \in Keys \union {NoKey}
      /\ \A k \in {"call", "driver", "sleep"} : k \notin {"timeout", "map", "flatMap"}
  BY FutureAssumption DEF AllKinds, ScopedDeadline
<1>2. CASE js_future_call
  <2>1. Submit("call", NoKey, ScopedDeadline, <<>>, FALSE) /\ stack' = stack
        /\ UNCHANGED <<ready, due, waking, firing, shutting_down, closed>>
    BY <1>2 DEF js_future_call
  <2>2. QED
    BY <1>1, <2>1, SameStack, SubmitStep
<1>3. CASE CallDriver
  <2>1. PICK k \in Keys : Submit("driver", k, TRUE, <<>>, FALSE)
    BY <1>3 DEF CallDriver
  <2>2. stack' = stack /\ UNCHANGED <<ready, due, waking, firing, shutting_down, closed>>
    BY <1>3 DEF CallDriver
  <2>3. QED
    BY <1>1, <2>1, <2>2, SameStack, SubmitStep
<1>4. CASE js_future_sleep
  <2>1. Submit("sleep", NoKey, TRUE, <<>>, FALSE) /\ stack' = stack
        /\ UNCHANGED <<ready, due, waking, firing, shutting_down, closed>>
    BY <1>4 DEF js_future_sleep
  <2>2. QED
    BY <1>1, <2>1, SameStack, SubmitStep
<1>5. QED
  BY <1>2, <1>3, <1>4

\* An activation that begins.
LEMMA FrameIs ==
    ASSUME NEW wait \in Ids \union {0}, NEW sync \in BOOLEAN, sync => wait \in Ids
    PROVE  Frame("js", wait, sync) \in FrameType /\ FrameOK(Frame("js", wait, sync))
  BY DEF Frame, FrameType, FrameOK

LEMMA CallAndWaitSteps ==
    ASSUME IInv, future_call_and_wait
    PROVE  StepOK
<1>1. /\ "driver" \in AllKinds /\ TRUE \in BOOLEAN /\ FALSE \in BOOLEAN /\ <<>> \in Seq(Ids)
      /\ "driver" \notin {"timeout", "map", "flatMap"}
  BY DEF AllKinds
<1>2. PICK k \in Keys : Submit("driver", k, FALSE, <<>>, TRUE)
  BY DEF future_call_and_wait
<1>3. k \in Keys \union {NoKey}
  OBVIOUS
<1>4. /\ Push(Frame("js", next + 1, TRUE)) /\ Len(stack) < MaxDepth
      /\ UNCHANGED <<ready, due, waking, firing, shutting_down, closed>>
  BY DEF future_call_and_wait
<1>5. next + 1 \in Ids
  BY <1>1, <1>2, <1>3, SubmitSound
<1>6. StackOK(stack')
  BY <1>4, <1>5, FrameIs, PushIs DEF IInv
<1>7. QED
  BY <1>1, <1>2, <1>3, <1>4, <1>6, SubmitStep

LEMMA CaptureFailsSteps ==
    ASSUME IInv, capture_call_driver
    PROVE  StepOK
<1> DEFINE s == FindFree(FALSE)
           f == next + 1
           w == AllocateSlot(s, "call", NoKey, FALSE, <<>>)
           v == Settle(w, s, "rejected", f)
<1>1. /\ next < MaxFutures /\ s # NoSlot /\ next' = f /\ fut' = v
      /\ UNCHANGED <<submissions, ready, stack, due, waking, firing, shutting_down, closed>>
  BY DEF capture_call_driver
<1>2. s \in Slots /\ ~fut.slots[s].allocated
  BY <1>1, FreeIs
<1>3. next \in Nat /\ f \in Ids /\ f \in Nat /\ f \in 0 .. MaxFutures
  BY <1>1, FutureAssumption DEF IInv, RestOK, Ids
<1>4. /\ "call" \in AllKinds /\ NoKey \in Keys \union {NoKey} /\ FALSE \in BOOLEAN
      /\ <<>> \in Seq(Ids) /\ "call" \notin {"timeout", "map", "flatMap"}
      /\ "rejected" \in Terminal
  BY DEF AllKinds, Terminal
<1> HIDE DEF s
<1>5. Allocated(w, s, f)
  BY <1>1, <1>2, <1>3, <1>4, AllocateSound DEF IInv
<1> HIDE DEF w
<1>6. w \in World /\ Owned(w)
  BY <1>5 DEF Allocated
<1>7. v \in World /\ Stays(w, v, s) /\ Sound(w, v)
  BY <1>2, <1>3, <1>4, <1>6, SettleIs, SettleSound DEF Owned
<1> HIDE DEF v
<1>8. Outlives(fut, v)
  BY <1>5, <1>7 DEF Stays, Allocated, Outlives
<1>9. Handed(v, f)
  <2> SUFFICES ASSUME NEW g \in Ids, g <= f PROVE v.handles[g].slot \in Slots
    BY DEF Handed
  <2>1. v.handles[g].slot = w.handles[g].slot
    BY <1>7 DEF Sound, SameSlots
  <2>2. g = f \/ g <= next
    BY <1>3 DEF Ids
  <2>3. CASE g = f
    BY <1>2, <1>5, <2>1, <2>3 DEF Allocated
  <2>4. CASE g # f
    BY <1>5, <2>1, <2>2, <2>4 DEF Allocated, IInv, Handed
  <2>5. QED
    BY <2>3, <2>4
<1>10. v \in World /\ Owned(v) /\ Below(v, f)
  BY <1>3, <1>5, <1>7 DEF Sound, Allocated
<1>11. Owned(fut)' /\ Below(fut, next)' /\ Handed(fut, next)' /\ StackOK(stack)' /\ QueuesOK'
  BY <1>1, <1>9, <1>10
     DEF Owned, Unique, Exclusive, HasOwner, Driven, StackOK, Below, Handed, IInv, QueuesOK
<1>12. waking' \subseteq 1 .. next'
  BY <1>1, <1>3 DEF IInv, RestOK
<1>13. RestOK'
  BY <1>1, <1>3, <1>12 DEF IInv, RestOK
<1>14. QED
  BY <1>1, <1>8, <1>10, <1>11, <1>13 DEF IInv, StepOK

\* Combinators.
LEMMA InputListsAre == InputLists \subseteq Seq(Ids)
<1>1. \A f \in Ids : <<f>> \in Seq(Ids)
  OBVIOUS
<1>2. \A a, b \in Ids : <<a, b>> \in Seq(Ids)
  OBVIOUS
<1>3. ASSUME NEW p \in Ids \X Ids PROVE p \in Seq(Ids)
  <2>1. PICK a \in Ids, b \in Ids : p = <<a, b>>
    OBVIOUS
  <2>2. QED
    BY <1>2, <2>1, Zenon
<1>4. \A p \in InputLists : p = <<>> \/ (\E f \in Ids : p = <<f>>) \/ p \in Ids \X Ids
  BY Zenon DEF InputLists
<1>5. <<>> \in Seq(Ids)
  OBVIOUS
<1>6. QED
  BY <1>1, <1>3, <1>4, <1>5, Zenon

LEMMA CombinatorSteps ==
    ASSUME IInv,
           \/ \E kind \in {"all", "race"} : future_make_combinator(kind)
           \/ js_future_timeout
           \/ \E kind \in {"map", "flatMap"} : future_make_continuation(kind)
    PROVE  StepOK
<1>1. /\ {"all", "race", "timeout", "map", "flatMap"} \subseteq AllKinds
      /\ NoKey \in Keys \union {NoKey}
      /\ TRUE \in BOOLEAN /\ FALSE \in BOOLEAN /\ ScopedDeadline \in BOOLEAN
      /\ \A f \in Ids : <<f>> \in Seq(Ids) /\ <<f>> # <<>>
  BY FutureAssumption DEF AllKinds, ScopedDeadline
<1>2. ASSUME NEW kind \in {"all", "race"}, future_make_combinator(kind) PROVE StepOK
  <2>1. PICK in \in InputLists : Submit(kind, NoKey, ScopedDeadline, in, FALSE)
    BY <1>2 DEF future_make_combinator
  <2>2. stack' = stack /\ UNCHANGED <<ready, due, waking, firing, shutting_down, closed>>
    BY <1>2 DEF future_make_combinator
  <2>3. in \in Seq(Ids) /\ kind \in AllKinds /\ kind \notin {"timeout", "map", "flatMap"}
    BY <1>1, InputListsAre
  <2>4. QED
    BY <1>1, <2>1, <2>2, <2>3, SameStack, SubmitStep
<1>3. CASE js_future_timeout
  <2>1. PICK f \in Ids : Submit("timeout", NoKey, TRUE, <<f>>, FALSE)
    BY <1>3 DEF js_future_timeout
  <2>2. stack' = stack /\ UNCHANGED <<ready, due, waking, firing, shutting_down, closed>>
    BY <1>3 DEF js_future_timeout
  <2>3. "timeout" \in AllKinds /\ <<f>> \in Seq(Ids) /\ <<f>> # <<>>
    BY <1>1
  <2>4. QED
    BY <1>1, <2>1, <2>2, <2>3, SameStack, SubmitStep
<1>4. ASSUME NEW kind \in {"map", "flatMap"}, future_make_continuation(kind) PROVE StepOK
  <2>1. PICK f \in Ids : Submit(kind, NoKey, ScopedDeadline, <<f>>, FALSE)
    BY <1>4 DEF future_make_continuation
  <2>2. stack' = stack /\ UNCHANGED <<ready, due, waking, firing, shutting_down, closed>>
    BY <1>4 DEF future_make_continuation
  <2>3. kind \in AllKinds /\ <<f>> \in Seq(Ids) /\ <<f>> # <<>>
    BY <1>1
  <2>4. QED
    BY <1>1, <2>1, <2>2, <2>3, SameStack, SubmitStep
<1>5. QED
  BY <1>2, <1>3, <1>4

\* Objects.
LEMMA ObjectSteps ==
    ASSUME IInv, js_future_cancel \/ js_future_finalizer \/ js_future_wait \/ WaitReturns
    PROVE  StepOK
<1>0. fut \in World /\ Owned(fut) /\ StackOK(stack)
  BY DEF IInv
<1>1. CASE js_future_cancel
  <2>1. PICK f \in Ids, answer \in CancelResults :
           HandleSlot(fut, f) # NoSlot /\ fut' = CancelSlot(fut, HandleSlot(fut, f), answer)
    BY <1>1 DEF js_future_cancel
  <2>2. HandleSlot(fut, f) \in Slots
    BY <1>0, <2>1, HandleLeads
  <2>3. Sound(fut, fut')
    BY <1>0, <2>1, <2>2, CancelSound
  <2>4. QED
    BY <1>1, <2>3, SameStack, Quiet DEF js_future_cancel
<1>2. CASE js_future_finalizer
  <2>1. Sound(fut, fut')
    BY <1>0, <1>2, DropSound DEF js_future_finalizer
  <2>2. QED
    BY <1>2, <2>1, SameStack, Quiet DEF js_future_finalizer
<1>3. CASE js_future_wait
  <2>1. PICK f \in Ids : Push(Frame("js", f, FALSE)) /\ Len(stack) < MaxDepth
    BY <1>3 DEF js_future_wait
  <2>2. StackOK(stack')
    BY <1>0, <2>1, FrameIs, PushIs
  <2>3. Sound(fut, fut')
    BY <1>0, <1>3, SoundSame DEF js_future_wait
  <2>4. QED
    BY <1>3, <2>2, <2>3, Quiet DEF js_future_wait
<1>4. CASE WaitReturns
  <2>1. StackOK(stack')
    BY <1>0, <1>4, PopIs DEF WaitReturns
  <2>2. Top.sync => Top.wait \in Ids
    BY <1>0, TopIs DEF FrameOK
  <2>3. fut' = IF Top.sync THEN DropHandle(fut, Top.wait) ELSE fut
    BY <1>4 DEF WaitReturns
  <2>4. CASE Top.sync
    <3>1. Sound(fut, fut')
      BY <1>0, <2>2, <2>3, <2>4, DropSound
    <3>2. QED
      BY <1>4, <2>1, <3>1, Quiet DEF WaitReturns
  <2>5. CASE ~Top.sync
    <3>1. Sound(fut, fut')
      BY <1>0, <2>3, <2>5, SoundSame
    <3>2. QED
      BY <1>4, <2>1, <3>1, Quiet DEF WaitReturns
  <2>6. QED
    BY <2>4, <2>5
<1>5. QED
  BY <1>1, <1>2, <1>3, <1>4
-------------------------------------------------------------------------------
(* The phases of future_poll. *)

\* The slot a phase works on is one of those that have work.
LEMMA ReachesLeast ==
    ASSUME IInv
    PROVE  /\ Reaches("expire") => Least(From("expire", Expirable)) \in Expirable
           /\ Reaches("sleep") => Least(From("sleep", Awake)) \in Awake
           /\ Reaches("active") => Least(From("active", Completed)) \in Completed
           /\ Reaches("combine") => Least(From("combine", Combinators)) \in Combinators
<1>1. StackOK(stack)
  BY DEF IInv
<1>2. Expirable \subseteq Slots /\ Awake \subseteq Slots /\ Completed \subseteq Slots
      /\ Combinators \subseteq Slots
  BY DEF Expirable, Awake, Completed, Combinators
<1>3. /\ Reaches("expire") => From("expire", Expirable) # {}
      /\ Reaches("sleep") => From("sleep", Awake) # {}
      /\ Reaches("active") => From("active", Completed) # {}
      /\ Reaches("combine") => From("combine", Combinators) # {}
  BY DEF Reaches, HasWork
<1>4. QED
  BY <1>1, <1>2, <1>3, LeastFrom

LEMMA NatSlot == ASSUME NEW s \in Slots PROVE s + 1 \in Nat
  BY NumbersAre

\* The deadlines and the sleeps.
LEMMA DeadlineSteps ==
    ASSUME IInv, expire_deadlines \/ advance_sleep_deadlines PROVE StepOK
<1>0. fut \in World /\ Owned(fut) /\ StackOK(stack)
  BY DEF IInv
<1>1. CASE expire_deadlines
  <2> DEFINE s == Least(From("expire", Expirable))
  <2>1. s \in Expirable
    BY <1>1, ReachesLeast DEF expire_deadlines
  <2>2. PICK answer \in CancelResults, custom \in {"fulfilled", "rejected"} :
           fut' = Expire(fut, s, answer, custom)
    BY <1>1 DEF expire_deadlines
  <2>3. Move("expire", s + 1)
    BY <1>1 DEF expire_deadlines
  <2> HIDE DEF s
  <2>4. s \in Slots /\ fut.slots[s].state \notin Terminal /\ custom \in Terminal
    BY <2>1 DEF Expirable, Terminal
  <2>5. Sound(fut, fut')
    BY <1>0, <2>2, <2>4, ExpireSound
  <2>6. StackOK(stack')
    BY <1>0, <2>3, <2>4, NatSlot, MoveIs
  <2>7. QED
    BY <1>1, <2>5, <2>6, Quiet DEF expire_deadlines
<1>2. CASE advance_sleep_deadlines
  <2> DEFINE s == Least(From("sleep", Awake))
  <2>1. s \in Slots
    BY <1>2, ReachesLeast DEF advance_sleep_deadlines, Awake
  <2>2. fut' = Settle(fut, s, "fulfilled", fut.slots[s].seq) /\ Move("sleep", s + 1)
    BY <1>2 DEF advance_sleep_deadlines
  <2> HIDE DEF s
  <2>3. "fulfilled" \in Terminal /\ fut.slots[s].seq \in Ids \union {0}
    BY <1>0, <2>1, WorldFields DEF Terminal, SlotType
  <2>4. Sound(fut, fut')
    BY <1>0, <2>1, <2>2, <2>3, SettleSound
  <2>5. StackOK(stack')
    BY <1>0, <2>1, <2>2, NatSlot, MoveIs
  <2>6. QED
    BY <1>2, <2>4, <2>5, Quiet DEF advance_sleep_deadlines
<1>3. QED
  BY <1>1, <1>2

LEMMA ActiveSteps ==
    ASSUME IInv, poll_active_drivers PROVE StepOK
<1> DEFINE s == Least(From("active", Completed))
<1>0. fut \in World /\ Owned(fut) /\ StackOK(stack)
  BY DEF IInv
<1>1. s \in Slots
  BY ReachesLeast DEF poll_active_drivers, Completed
<1>2. fut' \in PollReady(fut, s) /\ Move("active", s + 1)
  BY DEF poll_active_drivers
<1> HIDE DEF s
<1>3. Sound(fut, fut')
  BY <1>0, <1>1, <1>2, PollSound
<1>4. StackOK(stack')
  BY <1>0, <1>1, <1>2, NatSlot, MoveIs
<1>5. QED
  BY <1>3, <1>4, Quiet DEF poll_active_drivers

\* A queue loses its head.
LEMMA TailIs ==
    ASSUME NEW S, NEW q \in Seq(S), q # <<>>, NEW n, Len(q) <= n
    PROVE  Head(q) \in S /\ Tail(q) \in Seq(S) /\ Len(Tail(q)) <= Len(q)
  OBVIOUS

LEMMA ReadySteps ==
    ASSUME IInv, ReadyStep PROVE StepOK
<1> DEFINE s == ResolveToken(fut, Head(ready))
<1>0. fut \in World /\ Owned(fut) /\ StackOK(stack) /\ ready \in Seq(TokenType)
  BY DEF IInv, QueuesOK
<1>1. ready # <<>>
  BY DEF ReadyStep, Reaches, HasWork
<1>2. Head(ready) \in TokenType /\ Tail(ready) \in Seq(TokenType)
      /\ Len(Tail(ready)) \in Nat /\ Len(ready) \in Nat /\ Len(Tail(ready)) <= Len(ready)
  BY <1>0, <1>1
<1>3. ready' = Tail(ready) /\ fut' \in (IF s = NoSlot THEN {fut} ELSE PollReady(fut, s))
      /\ Move("ready", At("ready") + 1)
      /\ UNCHANGED <<next, submissions, due, waking, firing, shutting_down, closed>>
  BY DEF ReadyStep
<1>4. s # NoSlot => s \in Slots
  BY <1>0, <1>2, TokenSlot
<1> HIDE DEF s
<1>5. Sound(fut, fut')
  <2>1. CASE s = NoSlot
    BY <1>0, <1>3, <2>1, SoundSame
  <2>2. CASE s # NoSlot
    BY <1>0, <1>3, <1>4, <2>2, PollSound
  <2>3. QED
    BY <2>1, <2>2
<1>6. At("ready") \in Nat
  BY <1>0, AtIs
<1>7. StackOK(stack')
  BY <1>0, <1>3, <1>6, MoveIs
<1>8. QueuesOK'
  BY <1>2, <1>3, FutureAssumption DEF IInv, QueuesOK
<1>9. RestOK'
  BY <1>3 DEF IInv, RestOK
<1>10. QED
  BY <1>3, <1>5, <1>7, <1>8, <1>9, Assemble
-------------------------------------------------------------------------------
(* Dispatch. *)

\* The slot becomes pending, maybe of another kind or with its timer armed.
LEMMA PendingSound ==
    ASSUME NEW w \in World, Owned(w), NEW s \in Slots, w.slots[s].state = "queued",
           NEW slot \in SlotType,
           slot.allocated = w.slots[s].allocated, slot.seq = w.slots[s].seq,
           slot.driver_active = w.slots[s].driver_active,
           slot.driver_started = w.slots[s].driver_started, slot.key = w.slots[s].key,
           slot.state = "pending", slot.inputs = w.slots[s].inputs,
           slot.kind = w.slots[s].kind \/ slot.kind = "js_call"
    PROVE  Put(w, s, slot) \in World /\ Sound(w, Put(w, s, slot))
<1>1. Served(w.slots[s]) => Served(slot)
  BY DEF Served, Terminal
<1>2. QED
  BY <1>1, PutSound

\* A settlement may follow any sound change.
LEMMA SettleAfter ==
    ASSUME NEW w \in World, NEW u, Sound(w, u), NEW s \in Slots, NEW state \in Terminal,
           NEW by \in Ids \union {0}
    PROVE  Sound(w, Settle(u, s, state, by))
<1>1. u \in World /\ Owned(u)
  BY DEF Sound
<1>2. Sound(u, Settle(u, s, state, by)) /\ Stays(u, Settle(u, s, state, by), s)
  BY <1>1, SettleSound, SettleIs DEF Owned
<1>3. Settle(u, s, state, by).native = u.native
  BY <1>2 DEF Stays
<1>4. QED
  BY <1>2, <1>3, SoundChain

\* What marking a slot pending makes of it.
LEMMA PendingIs ==
    ASSUME fut \in World, NEW s \in Slots
    PROVE  LET a == fut.slots[s]
               b == [a EXCEPT !.state = "pending"]
               c == [b EXCEPT !.timer = "armed"]
               d == [a EXCEPT !.kind = "js_call", !.state = "pending"]
           IN \A x \in {b, c, d} :
                 /\ x \in SlotType /\ x.allocated = a.allocated /\ x.seq = a.seq
                 /\ x.driver_active = a.driver_active /\ x.driver_started = a.driver_started
                 /\ x.key = a.key /\ x.state = "pending" /\ x.inputs = a.inputs
                 /\ x.kind = a.kind \/ x.kind = "js_call"
<1> DEFINE a == fut.slots[s]
           b == [a EXCEPT !.state = "pending"]
           c == [b EXCEPT !.timer = "armed"]
           d == [a EXCEPT !.kind = "js_call", !.state = "pending"]
<1>1. a \in SlotType /\ "pending" \in States /\ "armed" \in {"none", "armed", "fired"}
      /\ "js_call" \in AllKinds
  BY WorldFields DEF States, AllKinds
<1>2. b \in SlotType
  BY <1>1, Zenon DEF SlotType
<1>3. /\ b.allocated = a.allocated /\ b.seq = a.seq
      /\ b.driver_active = a.driver_active /\ b.driver_started = a.driver_started
      /\ b.key = a.key /\ b.state = "pending" /\ b.inputs = a.inputs /\ b.kind = a.kind
  BY <1>1 DEF SlotType
<1> HIDE DEF b
<1>4. c \in SlotType
  BY <1>1, <1>2, Zenon DEF SlotType
<1>5. /\ c.allocated = b.allocated /\ c.seq = b.seq
      /\ c.driver_active = b.driver_active /\ c.driver_started = b.driver_started
      /\ c.key = b.key /\ c.state = b.state /\ c.inputs = b.inputs /\ c.kind = b.kind
  BY <1>2 DEF SlotType
<1>6. d \in SlotType
  BY <1>1, Zenon DEF SlotType
<1>7. /\ d.allocated = a.allocated /\ d.seq = a.seq
      /\ d.driver_active = a.driver_active /\ d.driver_started = a.driver_started
      /\ d.key = a.key /\ d.state = "pending" /\ d.inputs = a.inputs /\ d.kind = "js_call"
  BY <1>1 DEF SlotType
<1> HIDE DEF c, d
<1>8. \A x \in {b, c, d} :
                 /\ x \in SlotType /\ x.allocated = a.allocated /\ x.seq = a.seq
                 /\ x.driver_active = a.driver_active /\ x.driver_started = a.driver_started
                 /\ x.key = a.key /\ x.state = "pending" /\ x.inputs = a.inputs
                 /\ x.kind = a.kind \/ x.kind = "js_call"
  BY <1>2, <1>3, <1>4, <1>5, <1>6, <1>7
<1>9. QED
  BY <1>8, Zenon DEF b, c, d

LEMMA PendingPut ==
    ASSUME fut \in World, Owned(fut), NEW s \in Slots, fut.slots[s].state = "queued",
           NEW x \in {[fut.slots[s] EXCEPT !.state = "pending"],
                      [[fut.slots[s] EXCEPT !.state = "pending"] EXCEPT !.timer = "armed"],
                      [fut.slots[s] EXCEPT !.kind = "js_call", !.state = "pending"]}
    PROVE  Sound(fut, Put(fut, s, x))
<1>1. /\ x \in SlotType /\ x.allocated = fut.slots[s].allocated /\ x.seq = fut.slots[s].seq
      /\ x.driver_active = fut.slots[s].driver_active
      /\ x.driver_started = fut.slots[s].driver_started
      /\ x.key = fut.slots[s].key /\ x.state = "pending" /\ x.inputs = fut.slots[s].inputs
      /\ x.kind = fut.slots[s].kind \/ x.kind = "js_call"
  BY PendingIs, Zenon
<1>2. QED
  BY <1>1, PendingSound

LEMMA DispatchSound ==
    ASSUME IInv, NEW s \in Slots, fut.slots[s].allocated, fut.slots[s].state = "queued",
           dispatch_submission(s)
    PROVE  Sound(fut, fut')
<1> DEFINE a == fut.slots[s]
<1>0. fut \in World /\ Owned(fut) /\ a \in SlotType /\ a.seq \in Ids \union {0}
      /\ {"fulfilled", "rejected"} \subseteq Terminal
  BY WorldFields DEF IInv, SlotType, Terminal
<1>1. CASE a.kind = "driver" /\ DispatchDriver(s)
  <2>1. CASE fut' = RejectAndDestroy(fut, s)
    BY <1>0, <2>1, RejectSound
  <2>2. CASE fut' = Put(fut, s, [a EXCEPT !.lane_waiting = TRUE])
    <3> DEFINE b == [a EXCEPT !.lane_waiting = TRUE]
    <3>1. TRUE \in BOOLEAN
      OBVIOUS
    <3>2. b \in SlotType
      BY <1>0, <3>1, Zenon DEF SlotType
    <3>3. /\ b.allocated = a.allocated /\ b.seq = a.seq /\ b.state = a.state
          /\ b.driver_active = a.driver_active /\ b.driver_started = a.driver_started
          /\ b.key = a.key /\ b.inputs = a.inputs /\ b.kind = a.kind
      BY <1>0 DEF SlotType
    <3>4. fut' = Put(fut, s, b)
      BY <2>2
    <3> HIDE DEF b
    <3>5. QED
      BY <1>0, <3>2, <3>3, <3>4, PutSound DEF Served
  <2>3. CASE /\ LaneAdmission(fut, s) = "start"
             /\ \E ok \in BOOLEAN : fut' = StartDriver(fut, s, ok)
    <3>1. ~LaneInUse(fut, s)
      BY <2>3 DEF LaneAdmission
    <3>2. a.driver_active
      BY <1>0, <1>1 DEF Owned, Fresh
    <3>3. QED
      BY <1>0, <2>3, <3>1, <3>2, StartSound
  <2>4. QED
    BY <1>1, <2>1, <2>2, <2>3 DEF DispatchDriver
<1>2. CASE start_sleep(s)
  <2> DEFINE b == [a EXCEPT !.state = "pending"]
             c == [b EXCEPT !.timer = "armed"]
  <2>1. b.seq = a.seq
    BY <1>0 DEF SlotType
  <2>2. Sound(fut, Put(fut, s, b)) /\ Sound(fut, Put(fut, s, c))
    BY <1>0, PendingPut
  <2>3. fut' \in IF b.seq \in due THEN {Settle(Put(fut, s, b), s, "fulfilled", b.seq)}
                 ELSE {Put(fut, s, c), Settle(Put(fut, s, b), s, "rejected", b.seq)}
    BY <1>2, Zenon DEF start_sleep
  <2> HIDE DEF b, c
  <2>4. QED
    BY <1>0, <2>1, <2>2, <2>3, SettleAfter
<1>3. CASE fut' = Settle(fut, s, "rejected", a.seq)
  BY <1>0, <1>3, SettleSound
<1>4. CASE fut' = Put(fut, s, [a EXCEPT !.state = "pending"])
  BY <1>0, <1>4, PendingPut
<1>5. QED
  BY <1>1, <1>2, <1>3, <1>4 DEF dispatch_submission

LEMMA DispatchSteps ==
    ASSUME IInv, DispatchStep PROVE StepOK
<1> DEFINE s == ResolveToken(fut, Head(submissions))
           live == s # NoSlot /\ fut.slots[s].state = "queued"
           n == At("dispatch") + 1
<1>0. fut \in World /\ Owned(fut) /\ StackOK(stack) /\ submissions \in Seq(TokenType)
  BY DEF IInv, QueuesOK
<1>1. submissions # <<>>
  BY DEF DispatchStep, Reaches, HasWork
<1>2. Head(submissions) \in TokenType /\ Tail(submissions) \in Seq(TokenType)
      /\ Len(Tail(submissions)) \in Nat /\ Len(submissions) \in Nat
      /\ Len(Tail(submissions)) <= Len(submissions)
  BY <1>0, <1>1
<1>3. /\ submissions' = Tail(submissions)
      /\ \/ live /\ dispatch_call(s)
         \/ live /\ dispatch_submission(s) /\ Move("dispatch", n)
         \/ UNCHANGED fut /\ Move("dispatch", n)
      /\ UNCHANGED <<next, ready, due, waking, firing, shutting_down, closed>>
  BY Zenon DEF DispatchStep
<1>4. s # NoSlot => s \in Slots /\ fut.slots[s].allocated
  BY <1>0, <1>2, TokenSlot
<1>5. n \in Nat
  BY <1>0, AtIs
<1> HIDE DEF s, n
<1>6. Sound(fut, fut') /\ StackOK(stack')
  <2>1. CASE live /\ dispatch_call(s)
    <3> DEFINE a == [Top EXCEPT !.phase = "call", !.n = At("dispatch") + 1,
                                !.run = fut.slots[s].seq, !.runSlot = s]
    <3>1. Top \in FrameType /\ FrameOK(Top)
      BY <1>0, TopIs
    <3>2. fut.slots[s].seq \in Ids \union {0} /\ s \in Slots
      BY <1>0, <1>4, <2>1, WorldFields DEF SlotType
    <3>3. At("dispatch") + 1 \in Nat
      BY <1>5 DEF n
    <3>4. a \in FrameType /\ FrameOK(a)
      BY <3>1, <3>2, <3>3 DEF FrameType, FrameOK
    <3>5. SetTop(a)
      BY <2>1 DEF dispatch_call
    <3> HIDE DEF a
    <3>6. StackOK(stack')
      BY <1>0, <3>4, <3>5, SetTopIs
    <3>7. fut' = Put(fut, s, [fut.slots[s] EXCEPT !.kind = "js_call", !.state = "pending"])
      BY <2>1 DEF dispatch_call
    <3>8. Sound(fut, fut')
      BY <1>0, <2>1, <3>2, <3>7, PendingPut
    <3>9. QED
      BY <3>6, <3>8
  <2>2. CASE live /\ dispatch_submission(s) /\ Move("dispatch", n)
    BY <1>0, <1>4, <1>5, <2>2, DispatchSound, MoveIs
  <2>3. CASE UNCHANGED fut /\ Move("dispatch", n)
    BY <1>0, <1>5, <2>3, SoundSame, MoveIs
  <2>4. QED
    BY <1>3, <2>1, <2>2, <2>3
<1>7. QueuesOK'
  <2>1. Capacity \in Nat
    BY CapacityIs
  <2>2. QED
    BY <1>2, <1>3, <2>1 DEF IInv, QueuesOK
<1>8. RestOK'
  BY <1>3 DEF IInv, RestOK
<1>9. QED
  BY <1>3, <1>6, <1>7, <1>8, Assemble
-------------------------------------------------------------------------------
(* What goes on after a callback. *)

\* After a callable.
LEMMA CallReturnSteps ==
    ASSUME IInv, CallReturns PROVE StepOK
<1> DEFINE s == Top.runSlot
           a == fut.slots[s]
           b == [a EXCEPT !.call_refs = FALSE]
           w == Put(fut, s, b)
           r == ReleaseIfTerminal(PublishTerminal(w, s), s)
           t == [Top EXCEPT !.phase = "dispatch", !.run = 0, !.runSlot = NoSlot]
<1>0. fut \in World /\ Owned(fut) /\ StackOK(stack)
  BY DEF IInv
<1>1. Top \in FrameType /\ FrameOK(Top) /\ s \in Slots /\ Top.run \in Ids \union {0}
  <2>1. Top \in FrameType /\ FrameOK(Top)
    BY <1>0, TopIs
  <2>2. QED
    BY <2>1 DEF FrameType, FrameOK, CallReturns
<1>2. /\ fut' \in IF w.slots[s].state \in Terminal THEN {r}
                  ELSE {Settle(w, s, state, Top.run) : state \in {"fulfilled", "rejected"}}
      /\ SetTop(t)
      /\ UNCHANGED <<next, submissions, ready, due, waking, firing, shutting_down, closed>>
  BY Zenon DEF CallReturns
<1>3. t \in FrameType /\ FrameOK(t)
  BY <1>1 DEF FrameType, FrameOK
<1> HIDE DEF t
<1>4. StackOK(stack')
  BY <1>0, <1>2, <1>3, SetTopIs
<1> HIDE DEF s
<1>5. a \in SlotType /\ FALSE \in BOOLEAN
  BY <1>0, <1>1, WorldFields
<1>6. b \in SlotType
  BY <1>5, Zenon DEF SlotType
<1>7. /\ b.allocated = a.allocated /\ b.seq = a.seq /\ b.state = a.state
      /\ b.driver_active = a.driver_active /\ b.driver_started = a.driver_started
      /\ b.key = a.key /\ b.inputs = a.inputs /\ b.kind = a.kind
  BY <1>5 DEF SlotType
<1> HIDE DEF b
<1>8. w \in World /\ Stays(fut, w, s) /\ Sound(fut, w)
  BY <1>0, <1>1, <1>6, <1>7, PutStays, PutSound DEF Served
<1> HIDE DEF w
<1>9. Sound(fut, r)
  <2>1. NamedSlot(fut.slots[s]) /\ Ends(fut, w, s, FALSE)
    BY <1>0, <1>1, <1>8 DEF Owned, Ends
  <2>2. Ends(fut, PublishTerminal(w, s), s, FALSE)
    BY <1>0, <1>1, <2>1, ReleaseEnds
  <2>3. Ends(fut, r, s, FALSE)
    BY <1>0, <1>1, <2>1, <2>2, ReleaseEnds
  <2>4. QED
    BY <1>0, <1>1, <2>3, EndedSound DEF Ended
<1> HIDE DEF r
<1>10. \A state \in {"fulfilled", "rejected"} : Sound(fut, Settle(w, s, state, Top.run))
  BY <1>0, <1>1, <1>8, SettleAfter DEF Terminal
<1>11. Sound(fut, fut')
  BY <1>2, <1>9, <1>10
<1>12. QED
  BY <1>2, <1>4, <1>11, Quiet

\* After a continuation.
LEMMA ContinuationReturnSteps ==
    ASSUME IInv, ContinuationReturns PROVE StepOK
<1> DEFINE s == Top.runSlot
           a == fut.slots[s]
           b == [a EXCEPT !.running = FALSE, !.called = TRUE]
           w == Put(fut, s, b)
           c(f) == [b EXCEPT !.inputs[1] = f]
           Chained(f) == IF Len(b.inputs) = 0 THEN w ELSE Put(fut, s, c(f))
           t == [Top EXCEPT !.phase = "combine", !.run = 0, !.runSlot = NoSlot]
<1>0. fut \in World /\ Owned(fut) /\ StackOK(stack)
  BY DEF IInv
<1>1. Top \in FrameType /\ FrameOK(Top) /\ s \in Slots /\ Top.run \in Ids \union {0}
  <2>1. Top \in FrameType /\ FrameOK(Top)
    BY <1>0, TopIs
  <2>2. QED
    BY <2>1 DEF FrameType, FrameOK, ContinuationReturns
<1>2. /\ \/ fut' = Settle(w, s, "rejected", Top.run)
         \/ fut' = Settle(w, s, "fulfilled", Top.run)
         \/ \E f \in Ids : fut' = Chained(f)
      /\ SetTop(t)
      /\ UNCHANGED <<next, submissions, ready, due, waking, firing, shutting_down, closed>>
  <2>1. fut' \in {Settle(w, s, "rejected", Top.run)} \union
                IF b.kind = "map" THEN {Settle(w, s, "fulfilled", Top.run)}
                ELSE {Chained(f) : f \in {g \in Ids : Visible(g)}}
    BY Zenon DEF ContinuationReturns
  <2>2. SetTop(t) /\ UNCHANGED <<next, submissions, ready, due, waking, firing, shutting_down,
                                 closed>>
    BY Zenon DEF ContinuationReturns
  <2> HIDE DEF Chained, w, b
  <2>3. QED
    BY <2>1, <2>2
<1>3. t \in FrameType /\ FrameOK(t)
  BY <1>1 DEF FrameType, FrameOK
<1> HIDE DEF t
<1>4. StackOK(stack')
  BY <1>0, <1>2, <1>3, SetTopIs
<1> HIDE DEF s
<1>5. a \in SlotType /\ FALSE \in BOOLEAN /\ TRUE \in BOOLEAN
  BY <1>0, <1>1, WorldFields
<1>6. b \in SlotType
  BY <1>5, Zenon DEF SlotType
<1>7. /\ b.allocated = a.allocated /\ b.seq = a.seq /\ b.state = a.state
      /\ b.driver_active = a.driver_active /\ b.driver_started = a.driver_started
      /\ b.key = a.key /\ b.inputs = a.inputs /\ b.kind = a.kind
  BY <1>5 DEF SlotType
<1> HIDE DEF b
<1>8. w \in World /\ Sound(fut, w)
  BY <1>0, <1>1, <1>6, <1>7, PutSound DEF Served
<1>9. ASSUME NEW f \in Ids PROVE Sound(fut, Chained(f))
  <2>1. CASE Len(b.inputs) = 0
    BY <1>8, <2>1
  <2>2. CASE Len(b.inputs) # 0
    <3> DEFINE q == [b.inputs EXCEPT ![1] = f]
    <3>1. b.inputs \in Seq(Ids)
      BY <1>6 DEF SlotType
    <3>2. q \in Seq(Ids) /\ q # <<>>
      BY <2>2, <3>1
    <3>3. c(f) = [b EXCEPT !.inputs = q]
      BY Zenon
    <3> HIDE DEF q, c
    <3>4. c(f) \in SlotType
      <4>1. [b EXCEPT !.inputs = q] \in SlotType
        BY <1>6, <3>2, Zenon DEF SlotType
      <4>2. QED
        BY <3>3, <4>1
    <3>5. /\ c(f).allocated = b.allocated /\ c(f).seq = b.seq /\ c(f).state = b.state
          /\ c(f).driver_active = b.driver_active /\ c(f).driver_started = b.driver_started
          /\ c(f).key = b.key /\ c(f).inputs = q /\ c(f).kind = b.kind
      BY <1>6, <3>3 DEF SlotType
    <3> DEFINE d == c(f)
    <3>6. d \in SlotType /\ d.allocated = a.allocated /\ d.seq = a.seq /\ d.state = a.state
          /\ d.driver_active = a.driver_active /\ d.driver_started = a.driver_started
          /\ d.key = a.key /\ d.inputs = q /\ d.kind = a.kind
      BY <1>7, <3>4, <3>5
    <3> HIDE DEF d
    <3>7. Sound(fut, Put(fut, s, d))
      BY <1>0, <1>1, <3>2, <3>6, PutSound DEF Served
    <3>8. QED
      BY <2>2, <3>7 DEF d
  <2>3. QED
    BY <2>1, <2>2
<1> HIDE DEF w, Chained
<1>10. "rejected" \in Terminal /\ "fulfilled" \in Terminal
  BY DEF Terminal
<1>11. Sound(fut, fut')
  BY <1>0, <1>1, <1>2, <1>8, <1>9, <1>10, SettleAfter
<1>12. QED
  BY <1>2, <1>4, <1>11, Quiet
-------------------------------------------------------------------------------
(* The lanes. *)

LEMMA NextWaitingIn ==
    ASSUME fut \in World, NextWaiting(fut) # NoSlot
    PROVE  NextWaiting(fut) \in Waiting(fut)
<1> DEFINE S == {fut.slots[s].seq : s \in Waiting(fut)}
<1>1. Waiting(fut) # {}
  BY DEF NextWaiting
<1>2. \A s \in Waiting(fut) : s \in Slots /\ fut.slots[s].seq \in Nat
  BY SeqIs DEF Waiting
<1>3. S # {} /\ S \subseteq Nat
  BY <1>1, <1>2
<1>4. Least(S) \in S /\ \A y \in S : Least(S) <= y
  BY <1>3, LeastIn
<1>5. \E s \in Waiting(fut) : \A p \in Waiting(fut) : fut.slots[s].seq <= fut.slots[p].seq
  BY <1>4
<1>6. QED
  BY <1>1, <1>5 DEF NextWaiting

LEMMA LaneSteps ==
    ASSUME IInv, dispatch_waiting_lanes PROVE StepOK
<1> DEFINE s == NextWaiting(fut)
           a == fut.slots[s]
           b == [a EXCEPT !.lane_waiting = FALSE]
<1>0. fut \in World /\ Owned(fut) /\ StackOK(stack)
  BY DEF IInv
<1>1. s # NoSlot
  BY DEF dispatch_waiting_lanes, Reaches, HasWork
<1>2. s \in Slots /\ a.driver_active /\ ~LaneInUse(fut, s)
  BY <1>0, <1>1, NextWaitingIn DEF Waiting
<1>3. /\ \/ a.state = "queued" /\ \E ok \in BOOLEAN : fut' = StartDriver(fut, s, ok)
         \/ fut' = Put(fut, s, b)
      /\ \E n \in {At("lanes"), At("lanes") + 1} : Move("lanes", n)
      /\ UNCHANGED <<next, submissions, ready, due, waking, firing, shutting_down, closed>>
  <2>1. CASE a.state = "queued"
    BY <2>1 DEF dispatch_waiting_lanes
  <2>2. CASE a.state # "queued"
    BY <2>2 DEF dispatch_waiting_lanes
  <2>3. QED
    BY <2>1, <2>2
<1> HIDE DEF s
<1>4. At("lanes") \in Nat /\ At("lanes") + 1 \in Nat
  BY <1>0, AtIs
<1>5. StackOK(stack')
  BY <1>0, <1>3, <1>4, MoveIs
<1>6. a \in SlotType /\ FALSE \in BOOLEAN
  BY <1>0, <1>2, WorldFields
<1>7. b \in SlotType
  BY <1>6, Zenon DEF SlotType
<1>8. /\ b.allocated = a.allocated /\ b.seq = a.seq /\ b.state = a.state
      /\ b.driver_active = a.driver_active /\ b.driver_started = a.driver_started
      /\ b.key = a.key /\ b.inputs = a.inputs /\ b.kind = a.kind
  BY <1>6 DEF SlotType
<1> HIDE DEF b
<1>9. Sound(fut, Put(fut, s, b))
  BY <1>0, <1>2, <1>7, <1>8, PutSound DEF Served
<1>10. Sound(fut, fut')
  BY <1>0, <1>2, <1>3, <1>9, StartSound
<1>11. QED
  BY <1>3, <1>5, <1>10, Quiet
-------------------------------------------------------------------------------
(* The combinators. *)

LEMMA InputIs ==
    ASSUME fut \in World, Owned(fut), NEW s \in Slots, fut.slots[s].allocated,
           fut.slots[s].state = "pending", fut.slots[s].kind = "timeout"
    PROVE  fut.slots[s].inputs[1] \in Ids
<1>1. fut.slots[s].inputs \in Seq(Ids)
  BY WorldFields DEF SlotType
<1>2. fut.slots[s].inputs # <<>>
  BY DEF Owned, Served, Terminal
<1>3. QED
  BY <1>1, <1>2

LEMMA AdvanceSound ==
    ASSUME fut \in World, Owned(fut), NEW s \in Slots, fut.slots[s].allocated,
           fut.slots[s].state = "pending", NEW answer
    PROVE  Sound(fut, Advance(s, answer))
<1> DEFINE f == fut.slots[s].seq
<1>1. f \in Ids \union {0} /\ "fulfilled" \in Terminal /\ "rejected" \in Terminal
  BY WorldFields DEF SlotType, Terminal
<1>2. Sound(fut, fut) /\ \A x : Sound(fut, CopyTerminal(fut, s, x))
  BY SoundSame, CopySound
<1>3. Sound(fut, Settle(fut, s, "fulfilled", f))
  BY <1>1, SettleSound
<1>4. Sound(fut, advance_all(s))
  BY <1>2, <1>3, Zenon DEF advance_all
<1>5. Sound(fut, advance_race(s))
  BY <1>2, Zenon DEF advance_race
<1>6. Sound(fut, advance_continuation(s))
  BY <1>2, Zenon DEF advance_continuation
<1>7. CASE fut.slots[s].kind = "timeout"
  <2> DEFINE input == fut.slots[s].inputs[1]
             in == HandleSlot(fut, input)
             w == IF in # NoSlot THEN CancelSlot(fut, in, answer) ELSE fut
  <2>1. input \in Ids
    BY <1>7, InputIs
  <2>2. Sound(fut, w)
    <3>1. in # NoSlot => in \in Slots
      BY <2>1, HandleLeads
    <3>2. QED
      BY <1>2, <3>1, CancelSound
  <2> HIDE DEF w
  <2>3. Sound(fut, Settle(w, s, "rejected", f))
    BY <1>1, <2>2, SettleAfter
  <2>4. Sound(fut, advance_timeout(s, answer))
    BY <1>2, <2>3, Zenon DEF advance_timeout, w
  <2>5. QED
    BY <1>7, <2>4 DEF Advance
<1>8. CASE fut.slots[s].kind # "timeout"
  BY <1>4, <1>5, <1>6, <1>8 DEF Advance
<1>9. QED
  BY <1>7, <1>8

LEMMA CombineSteps ==
    ASSUME IInv, advance_combinators PROVE StepOK
<1> DEFINE s == Least(From("combine", Combinators))
           a == fut.slots[s]
           b == [a EXCEPT !.running = TRUE]
           t == [Top EXCEPT !.phase = "cont", !.n = s + 1, !.now = Now,
                            !.run = fut.slots[s].seq, !.runSlot = s]
           u == [Top EXCEPT !.phase = "combine", !.n = s + 1, !.now = Now]
<1>0. fut \in World /\ Owned(fut) /\ StackOK(stack)
  BY DEF IInv
<1>1. s \in Slots /\ a.allocated /\ a.state = "pending"
  BY ReachesLeast DEF advance_combinators, Combinators
<1>2. /\ \/ fut' = Put(fut, s, b) /\ SetTop(t)
         \/ (\E answer \in CancelResults : fut' = Advance(s, answer)) /\ SetTop(u)
      /\ UNCHANGED <<next, submissions, ready, due, waking, firing, shutting_down, closed>>
  BY Zenon DEF advance_combinators
<1> HIDE DEF s
<1>3. Top \in FrameType /\ FrameOK(Top) /\ Now \subseteq Ids /\ s + 1 \in Nat
      /\ a.seq \in Ids \union {0}
  <2>1. Top \in FrameType /\ FrameOK(Top)
    BY <1>0, TopIs
  <2>2. Now \subseteq Ids
    BY <2>1 DEF Now, FrameType, IInv, RestOK
  <2>3. QED
    BY <1>0, <1>1, <2>1, <2>2, NatSlot, WorldFields DEF SlotType
<1>4. t \in FrameType /\ FrameOK(t) /\ u \in FrameType /\ FrameOK(u)
  BY <1>1, <1>3 DEF FrameType, FrameOK
<1> HIDE DEF t, u
<1>5. StackOK(stack')
  BY <1>0, <1>2, <1>4, SetTopIs
<1>6. a \in SlotType /\ TRUE \in BOOLEAN
  BY <1>0, <1>1, WorldFields
<1>7. b \in SlotType
  BY <1>6, Zenon DEF SlotType
<1>8. /\ b.allocated = a.allocated /\ b.seq = a.seq /\ b.state = a.state
      /\ b.driver_active = a.driver_active /\ b.driver_started = a.driver_started
      /\ b.key = a.key /\ b.inputs = a.inputs /\ b.kind = a.kind
  BY <1>6 DEF SlotType
<1> HIDE DEF b
<1>9. Sound(fut, Put(fut, s, b))
  BY <1>0, <1>1, <1>7, <1>8, PutSound DEF Served
<1>10. Sound(fut, fut')
  BY <1>0, <1>1, <1>2, <1>9, AdvanceSound
<1>11. QED
  BY <1>2, <1>5, <1>10, Quiet

LEMMA PollEndSteps ==
    ASSUME IInv, PollEnds PROVE StepOK
<1> DEFINE t == [Top EXCEPT !.phase = "js", !.n = 0, !.now = {}]
<1>0. fut \in World /\ Owned(fut) /\ StackOK(stack)
  BY DEF IInv
<1>1. Top \in FrameType /\ FrameOK(Top)
  BY <1>0, TopIs
<1>2. t \in FrameType /\ FrameOK(t)
  BY <1>1 DEF FrameType, FrameOK
<1>3. SetTop(t)
  BY DEF PollEnds
<1> HIDE DEF t
<1>4. StackOK(stack')
  BY <1>0, <1>2, <1>3, SetTopIs
<1>5. Sound(fut, fut')
  BY <1>0, SoundSame DEF PollEnds
<1>6. QED
  BY <1>4, <1>5, Quiet DEF PollEnds
-------------------------------------------------------------------------------
(* The world around the runtime task. *)

LEMMA OfferIs ==
    ASSUME QueuesOK, NEW t \in TokenType
    PROVE  Offer(t) \in Seq(TokenType) /\ Len(Offer(t)) <= ReadyLen
<1>1. ready \in Seq(TokenType) /\ Len(ready) \in Nat /\ ReadyLen \in Nat /\ Len(ready) <= ReadyLen
  BY FutureAssumption DEF QueuesOK
<1>2. Append(ready, t) \in Seq(TokenType) /\ Len(Append(ready, t)) = Len(ready) + 1
  BY <1>1
<1>3. QED
  BY <1>1, <1>2 DEF Offer

LEMMA DeadlinePassSteps ==
    ASSUME IInv, DeadlinePasses PROVE StepOK
<1>1. PICK s \in Slots : fut.slots[s].allocated /\ due' = due \union {fut.slots[s].seq}
  BY DEF DeadlinePasses
<1>2. fut.slots[s].seq \in Ids
  BY <1>1, WorldFields DEF IInv, Owned, NamedSlot, SlotType
<1>3. UNCHANGED <<fut, next, submissions, ready, stack, waking, firing, shutting_down, closed>>
  BY DEF DeadlinePasses
<1>4. Sound(fut, fut') /\ StackOK(stack')
  BY <1>3, SoundSame DEF IInv
<1>5. QueuesOK' /\ RestOK'
  BY <1>1, <1>2, <1>3 DEF IInv, QueuesOK, RestOK
<1>6. QED
  BY <1>3, <1>4, <1>5, Assemble

LEMMA CompletionSound ==
    ASSUME NEW w \in World, Owned(w), NEW f \in Ids, w.native[f] = "running"
    PROVE  Sound(w, [w EXCEPT !.native[f] = "done"])
<1> DEFINE v == [w EXCEPT !.native[f] = "done"]
<1>1. "done" \in NativeStates
  BY DEF NativeStates
<1>2. v \in World /\ v.slots = w.slots /\ v.handles = w.handles
      /\ v.native = [w.native EXCEPT ![f] = "done"]
  BY <1>1, NativeIs
<1> HIDE DEF v
<1>3. v.native[f] = "done" /\ \A g \in Ids : g # f => v.native[g] = w.native[g]
  BY <1>2, WorldFields
<1>4. ASSUME NEW s \in Slots, v.slots[s].driver_active PROVE Driven(v, s)
  <2>1. w.slots[s].seq \in Ids
    BY <1>2, <1>4, DriverNames
  <2>2. QED
    BY <1>2, <1>3, <1>4, <2>1 DEF Owned, Driven
<1>5. \A g \in Ids : HasOwner(v, g)
  BY <1>2, <1>3 DEF Owned, HasOwner
<1>6. Owned(v)
  BY <1>2, <1>4, <1>5 DEF Owned, Unique, Exclusive
<1>7. Outlives(w, v) /\ SameSlots(w, v) /\ \A n \in Nat : Below(w, n) => Below(v, n)
  BY <1>2, <1>3 DEF Outlives, SameSlots, Below
<1>8. QED
  BY <1>2, <1>6, <1>7 DEF Sound, v

LEMMA CompletionSteps ==
    ASSUME IInv, NEW f \in Ids, NativeCompletes(f) PROVE StepOK
<1>1. /\ fut.native[f] = "running" /\ fut' = [fut EXCEPT !.native[f] = "done"]
      /\ waking' = waking \union {f}
      /\ UNCHANGED <<next, submissions, ready, stack, due, firing, shutting_down, closed>>
  BY DEF NativeCompletes
<1>2. Sound(fut, fut')
  BY <1>1, CompletionSound DEF IInv
<1>3. next \in Nat /\ f \in Nat /\ f >= 1
  BY FutureAssumption DEF IInv, RestOK, Ids
<1>4. f <= next
  BY <1>1, <1>3, NewRunsNot DEF IInv
<1>5. f \in 1 .. next
  BY <1>3, <1>4
<1>6. QueuesOK' /\ RestOK' /\ StackOK(stack')
  BY <1>1, <1>5 DEF IInv, QueuesOK, RestOK
<1>7. QED
  BY <1>1, <1>2, <1>6, Assemble

LEMMA WakeSteps ==
    ASSUME IInv, NEW f \in Ids, future_wake(f) PROVE StepOK
<1> DEFINE t == [slot |-> fut.handles[f].slot, generation |-> fut.handles[f].generation]
<1>1. /\ f \in waking /\ waking' = waking \ {f}
      /\ ready' = IF closed THEN ready ELSE Offer(t)
      /\ UNCHANGED <<fut, next, submissions, stack, due, firing, shutting_down, closed>>
  BY DEF future_wake
<1>2. f <= next
  BY <1>1 DEF IInv, RestOK
<1>3. t \in TokenType
  BY <1>2, WorldFields DEF IInv, Handed, HandleType, TokenType
<1> HIDE DEF t
<1>4. ready' \in Seq(TokenType) /\ Len(ready') <= ReadyLen
  BY <1>1, <1>3, OfferIs DEF IInv, QueuesOK
<1>5. QueuesOK' /\ RestOK' /\ StackOK(stack')
  BY <1>1, <1>4 DEF IInv, QueuesOK, RestOK
<1>6. Sound(fut, fut')
  BY <1>1, SoundSame DEF IInv
<1>7. QED
  BY <1>1, <1>5, <1>6, Assemble

LEMMA TimerSteps ==
    ASSUME IInv, TimerFires \/ sleep_timer_callback PROVE StepOK
<1>0. fut \in World /\ Owned(fut)
  BY DEF IInv
<1>1. CASE TimerFires
  <2>1. PICK s \in Slots : /\ firing' = s
                           /\ fut' = Put(fut, s, [fut.slots[s] EXCEPT !.timer = "fired"])
    BY <1>1 DEF TimerFires
  <2>2. UNCHANGED <<next, submissions, ready, stack, due, waking, shutting_down, closed>>
    BY <1>1 DEF TimerFires
  <2> DEFINE a == fut.slots[s]
             b == [a EXCEPT !.timer = "fired"]
  <2>3. a \in SlotType /\ "fired" \in {"none", "armed", "fired"}
    BY <1>0, WorldFields
  <2>4. b \in SlotType
    BY <2>3, Zenon DEF SlotType
  <2>5. /\ b.allocated = a.allocated /\ b.seq = a.seq /\ b.state = a.state
        /\ b.driver_active = a.driver_active /\ b.driver_started = a.driver_started
        /\ b.key = a.key /\ b.inputs = a.inputs /\ b.kind = a.kind
    BY <2>3 DEF SlotType
  <2>6. fut' = Put(fut, s, b)
    BY <2>1
  <2> HIDE DEF b
  <2>7. Sound(fut, fut')
    BY <1>0, <2>4, <2>5, <2>6, PutSound DEF Served
  <2>8. QueuesOK' /\ RestOK' /\ StackOK(stack')
    BY <2>1, <2>2 DEF IInv, QueuesOK, RestOK
  <2>9. QED
    BY <2>2, <2>7, <2>8, Assemble
<1>2. CASE sleep_timer_callback
  <2>1. /\ firing # NoSlot /\ firing' = NoSlot
        /\ ready' = IF fut.slots[firing].allocated THEN Offer(Token(fut, firing)) ELSE ready
        /\ UNCHANGED <<fut, next, submissions, stack, due, waking, shutting_down, closed>>
    BY <1>2 DEF sleep_timer_callback
  <2>2. firing \in Slots
    BY <2>1 DEF IInv, RestOK
  <2>3. ready' \in Seq(TokenType) /\ Len(ready') <= ReadyLen
    BY <1>0, <2>1, <2>2, TokenIs, OfferIs DEF IInv, QueuesOK
  <2>4. QueuesOK' /\ RestOK' /\ StackOK(stack')
    BY <2>1, <2>3 DEF IInv, QueuesOK, RestOK
  <2>5. Sound(fut, fut')
    BY <1>0, <2>1, SoundSame
  <2>6. QED
    BY <2>1, <2>4, <2>5, Assemble
<1>3. QED
  BY <1>1, <1>2
-------------------------------------------------------------------------------
(* The teardown. *)

\* What a pass makes of a slot that stays.
Marked(a, b) ==
    /\ b \in SlotType /\ b.allocated = a.allocated /\ b.seq = a.seq
    /\ b.driver_active = a.driver_active /\ b.driver_started = a.driver_started
    /\ b.key = a.key /\ b.kind = a.kind /\ b.inputs = a.inputs
    /\ b.state = a.state \/ b.state \in Terminal

LEMMA MarkedIs ==
    ASSUME NEW a \in SlotType, NEW answer
    PROVE  /\ Marked(a, a)
           /\ Marked(a, [a EXCEPT !.state = IF answer = "cancelled" THEN "cancelled" ELSE @,
                                  !.cancel_requested = (answer = "requested")])
<1> DEFINE state == IF answer = "cancelled" THEN "cancelled" ELSE a.state
           asked == answer = "requested"
           b == [a EXCEPT !.state = state, !.cancel_requested = asked]
<1>1. a.state \in States /\ "cancelled" \in Terminal
  BY DEF SlotType, Terminal
<1>2. state \in States /\ asked \in BOOLEAN /\ (state = a.state \/ state \in Terminal)
  BY <1>1 DEF States
<1>3. b = [a EXCEPT !.state = IF answer = "cancelled" THEN "cancelled" ELSE @,
                    !.cancel_requested = (answer = "requested")]
  BY Zenon
<1> HIDE DEF state, asked
<1>4. b \in SlotType
  BY <1>2, Zenon DEF SlotType
<1>5. Marked(a, b)
  BY <1>2, <1>4 DEF Marked, SlotType
<1> HIDE DEF b
<1>6. QED
  BY <1>3, <1>5 DEF Marked

\* A pass of the teardown: the slots that go are emptied and their operations
\* destroyed, the others may be marked.
PassOf(gone, v) ==
    /\ gone \subseteq Slots /\ v \in World /\ v.handles = fut.handles
    /\ \A s \in gone : /\ fut.slots[s].allocated /\ TornDown(fut.slots[s])
                       /\ v.slots[s] = EmptySlot(fut.slots[s].generation)
    /\ \A s \in Slots \ gone : Marked(fut.slots[s], v.slots[s])
    /\ \A f \in Ids : v.native[f] =
          IF \E s \in gone : fut.slots[s].driver_active /\ fut.slots[s].seq = f
          THEN "destroyed" ELSE fut.native[f]

LEMMA PassSound ==
    ASSUME fut \in World, Owned(fut), NEW gone, NEW v, PassOf(gone, v)
    PROVE  Sound(fut, v)
<1> USE DEF PassOf
<1>1. \A s \in gone : /\ ~v.slots[s].allocated /\ v.slots[s].seq = 0
                      /\ ~v.slots[s].driver_active /\ ~v.slots[s].driver_started
  <2>1. \A g : /\ ~EmptySlot(g).allocated /\ EmptySlot(g).seq = 0
               /\ ~EmptySlot(g).driver_active /\ ~EmptySlot(g).driver_started
    BY DEF EmptySlot
  <2>2. QED
    BY <2>1
<1>2. \A s \in Slots \ gone :
         /\ v.slots[s].allocated = fut.slots[s].allocated /\ v.slots[s].seq = fut.slots[s].seq
         /\ v.slots[s].driver_active = fut.slots[s].driver_active
         /\ v.slots[s].driver_started = fut.slots[s].driver_started
         /\ v.slots[s].key = fut.slots[s].key /\ v.slots[s].kind = fut.slots[s].kind
         /\ v.slots[s].inputs = fut.slots[s].inputs
         /\ v.slots[s].state = fut.slots[s].state \/ v.slots[s].state \in Terminal
  BY DEF Marked
<1>3. "queued" \notin Terminal
  BY DEF Terminal
<1>4. \A s \in Slots : NamedSlot(v.slots[s]) /\ Served(v.slots[s]) /\ Fresh(v.slots[s])
  <2> TAKE s \in Slots
  <2>1. CASE s \in gone
    BY <1>1, <2>1 DEF NamedSlot, Served, Fresh
  <2>2. CASE s \notin gone
    <3>1. NamedSlot(fut.slots[s]) /\ Served(fut.slots[s]) /\ Fresh(fut.slots[s])
      BY DEF Owned
    <3>2. QED
      BY <1>2, <1>3, <2>2, <3>1 DEF NamedSlot, Served, Fresh
  <2>3. QED
    BY <2>1, <2>2
<1>5. Unique(v)
  <2> SUFFICES ASSUME NEW s \in Slots, NEW t \in Slots, v.slots[s].allocated,
                      v.slots[s].seq = v.slots[t].seq
               PROVE  s = t
    BY DEF Unique
  <2>1. s \notin gone /\ v.slots[s].seq # 0
    BY <1>1, <1>4 DEF NamedSlot
  <2>2. t \notin gone
    BY <1>1, <2>1
  <2>3. QED
    BY <1>2, <2>1, <2>2 DEF Owned, Unique
<1>6. ASSUME NEW s \in Slots \ gone, fut.slots[s].driver_active
      PROVE  fut.slots[s].seq \in Ids /\ v.native[fut.slots[s].seq] = fut.native[fut.slots[s].seq]
  <2>1. fut.slots[s].seq \in Ids /\ fut.slots[s].allocated
    BY <1>6, DriverNames
  <2>2. ~ \E t \in gone : fut.slots[t].driver_active /\ fut.slots[t].seq = fut.slots[s].seq
    BY <2>1 DEF Owned, Unique
  <2>3. QED
    BY <2>1, <2>2
<1>7. ASSUME NEW s \in Slots, v.slots[s].driver_active PROVE Driven(v, s)
  <2>1. s \in Slots \ gone /\ fut.slots[s].driver_active
    BY <1>1, <1>2, <1>7
  <2>2. v.native[fut.slots[s].seq] = fut.native[fut.slots[s].seq] /\ Driven(fut, s)
    BY <1>6, <2>1 DEF Owned
  <2>3. QED
    BY <1>2, <1>3, <2>1, <2>2 DEF Driven
<1>8. \A s \in Slots : v.slots[s].driver_started => v.slots[s].driver_active
  BY <1>1, <1>2 DEF Owned
<1>9. Exclusive(v)
  BY <1>1, <1>2 DEF Owned, Exclusive
<1>10. ASSUME NEW f \in Ids PROVE HasOwner(v, f)
  <2> SUFFICES ASSUME v.native[f] \in {"captured", "running", "done"}
               PROVE  \E s \in Slots : v.slots[s].driver_active /\ v.slots[s].seq = f
    BY DEF HasOwner
  <2>1. fut.native[f] \in {"captured", "running", "done"}
        /\ ~ \E s \in gone : fut.slots[s].driver_active /\ fut.slots[s].seq = f
    OBVIOUS
  <2>2. PICK s \in Slots : fut.slots[s].driver_active /\ fut.slots[s].seq = f
    BY <2>1 DEF Owned, HasOwner
  <2>3. QED
    BY <1>2, <2>1, <2>2
<1>11. Owned(v)
  BY <1>4, <1>5, <1>7, <1>8, <1>9, <1>10 DEF Owned
<1>12. Outlives(fut, v)
  <2> SUFFICES ASSUME NEW f \in Ids, fut.native[f] = "running", v.native[f] = "destroyed"
               PROVE  FALSE
    BY DEF Outlives
  <2>1. PICK s \in gone : fut.slots[s].driver_active /\ fut.slots[s].seq = f
    OBVIOUS
  <2>2. fut.slots[s].state # "queued"
    BY <2>1, QueuedCaptured
  <2>3. QED
    BY <2>1, <2>2 DEF TornDown
<1>13. ASSUME NEW n \in Nat, Below(fut, n) PROVE Below(v, n)
  <2> SUFFICES ASSUME NEW s \in Slots PROVE v.slots[s].seq <= n
    BY DEF Below
  <2>1. CASE s \in gone
    BY <1>1, <2>1
  <2>2. CASE s \notin gone
    BY <1>2, <1>13, <2>2 DEF Below
  <2>3. QED
    BY <2>1, <2>2
<1>14. QED
  BY <1>11, <1>12, <1>13 DEF Sound, SameSlots

LEMMA TeardownSteps ==
    ASSUME IInv, prepare_future_runtime_destroy PROVE StepOK
<1> DEFINE gone == {s \in Slots : fut.slots[s].allocated /\ TornDown(fut.slots[s])}
           Pass(s, answer) ==
                LET slot == fut.slots[s] IN
                IF s \in gone THEN EmptySlot(slot.generation)
                ELSE IF slot.driver_active /\ slot.state \notin Terminal
                        /\ ~slot.cancel_requested
                THEN [slot EXCEPT
                        !.state = IF answer[s] = "cancelled" THEN "cancelled" ELSE @,
                        !.cancel_requested = (answer[s] = "requested")]
                ELSE slot
           native == [f \in Ids |->
                     IF \E s \in gone : fut.slots[s].driver_active /\ fut.slots[s].seq = f
                     THEN "destroyed" ELSE fut.native[f]]
<1>0. fut \in World /\ Owned(fut) /\ StackOK(stack)
  BY DEF IInv
<1>1. PICK answer : /\ fut' = [fut EXCEPT !.slots = [s \in Slots |-> Pass(s, answer)],
                                          !.native = native]
                    /\ closed' = \A s \in Slots : ~fut'.slots[s].allocated
  BY Zenon DEF prepare_future_runtime_destroy
<1>2. shutting_down' = TRUE
      /\ UNCHANGED <<next, submissions, ready, stack, due, waking, firing>>
  BY DEF prepare_future_runtime_destroy
<1> DEFINE slots == [s \in Slots |-> Pass(s, answer)]
<1>3. /\ \A s \in gone : slots[s] = EmptySlot(fut.slots[s].generation)
      /\ \A s \in Slots \ gone : Marked(fut.slots[s], slots[s])
  <2>1. \A s \in gone : slots[s] = EmptySlot(fut.slots[s].generation)
    OBVIOUS
  <2>2. ASSUME NEW s \in Slots \ gone PROVE Marked(fut.slots[s], slots[s])
    <3>1. fut.slots[s] \in SlotType
      BY <1>0, WorldFields
    <3>2. \/ slots[s] = fut.slots[s]
          \/ slots[s] = [fut.slots[s] EXCEPT
                            !.state = IF answer[s] = "cancelled" THEN "cancelled" ELSE @,
                            !.cancel_requested = (answer[s] = "requested")]
      BY Zenon
    <3> DEFINE c == answer[s]
               b == [fut.slots[s] EXCEPT !.state = IF c = "cancelled" THEN "cancelled" ELSE @,
                                         !.cancel_requested = (c = "requested")]
    <3>3. slots[s] = fut.slots[s] \/ slots[s] = b
      BY <3>2, Zenon
    <3> HIDE DEF slots, c
    <3>4. Marked(fut.slots[s], fut.slots[s]) /\ Marked(fut.slots[s], b)
      BY <3>1, MarkedIs, Zenon
    <3> HIDE DEF b
    <3>5. QED
      BY <3>3, <3>4
  <2>3. QED
    BY <2>1, <2>2
<1>4. slots \in [Slots -> SlotType]
  <2>1. ASSUME NEW s \in Slots PROVE slots[s] \in SlotType
    <3>1. CASE s \in gone
      <4>1. fut.slots[s].generation \in Nat
        BY <1>0, WorldFields DEF SlotType
      <4> HIDE DEF slots
      <4>2. QED
        BY <1>3, <3>1, <4>1, EmptyIs
    <3>2. CASE s \notin gone
      <4> HIDE DEF slots, gone
      <4>1. QED
        BY <1>3, <3>2 DEF Marked
    <3>3. QED
      BY <3>1, <3>2
  <2> DEFINE P(s) == Pass(s, answer)
  <2>2. \A s \in Slots : slots[s] = P(s)
    OBVIOUS
  <2>3. \A s \in Slots : P(s) \in SlotType
    BY <2>1, <2>2
  <2>4. slots = [s \in Slots |-> P(s)]
    OBVIOUS
  <2> HIDE DEF slots, P
  <2>5. QED
    BY <2>3, <2>4
<1>5. native \in [Ids -> NativeStates]
      /\ \A f \in Ids : native[f] =
              IF \E s \in gone : fut.slots[s].driver_active /\ fut.slots[s].seq = f
              THEN "destroyed" ELSE fut.native[f]
  <2>1. "destroyed" \in NativeStates /\ \A f \in Ids : fut.native[f] \in NativeStates
    BY <1>0, WorldFields DEF NativeStates
  <2> HIDE DEF gone
  <2>2. QED
    BY <2>1
<1>6. fut' = [fut EXCEPT !.slots = slots, !.native = native]
  BY <1>1
<1>7. gone \subseteq Slots /\ \A s \in gone : fut.slots[s].allocated /\ TornDown(fut.slots[s])
  OBVIOUS
<1> HIDE DEF slots, native, gone
<1>8. fut' \in World /\ fut'.slots = slots /\ fut'.native = native /\ fut'.handles = fut.handles
  BY <1>0, <1>4, <1>5, <1>6 DEF World
<1>9. Sound(fut, fut')
  <2>1. PassOf(gone, fut')
    BY <1>3, <1>5, <1>7, <1>8 DEF PassOf
  <2>2. QED
    BY <1>0, <2>1, PassSound
<1>10. closed' \in BOOLEAN
  BY <1>1
<1>11. QueuesOK' /\ RestOK' /\ StackOK(stack')
  BY <1>2, <1>10 DEF IInv, QueuesOK, RestOK
<1>12. QED
  BY <1>2, <1>9, <1>11, Assemble
-------------------------------------------------------------------------------
LEMMA Start == ASSUME Init PROVE IInv
<1>1. fut = [slots |-> [s \in Slots |-> EmptySlot(0)], handles |-> [f \in Ids |-> NoHandle],
             native |-> [f \in Ids |-> "none"]]
  BY DEF Init
<1>2. EmptySlot(0) \in SlotType /\ NoHandle \in HandleType /\ "none" \in NativeStates
  <2>1. NoHandle \in HandleType
    BY DEF NoHandle, HandleType, States
  <2>2. QED
    BY <2>1, EmptyIs DEF NativeStates
<1>3. fut \in World /\ \A s \in Slots : fut.slots[s] = EmptySlot(0)
  <2> DEFINE e == EmptySlot(0)
  <2>1. e \in SlotType /\ fut.slots = [s \in Slots |-> e]
    BY <1>1, <1>2
  <2> HIDE DEF e
  <2>2. fut.slots \in [Slots -> SlotType] /\ \A s \in Slots : fut.slots[s] = e
    BY <2>1
  <2>3. fut \in World
    BY <1>1, <1>2, <2>2 DEF World
  <2>4. QED
    BY <2>2, <2>3 DEF e
<1>4. \A f \in Ids : fut.native[f] = "none"
  BY <1>1
<1>5. \A s \in Slots : /\ fut.slots[s].allocated = FALSE /\ fut.slots[s].seq = 0
                       /\ fut.slots[s].driver_active = FALSE
                       /\ fut.slots[s].driver_started = FALSE
  BY <1>3 DEF EmptySlot
<1>6. Owned(fut)
  BY <1>4, <1>5 DEF Owned, NamedSlot, Served, Fresh, Unique, Exclusive, HasOwner
<1>7. next = 0 /\ Below(fut, next) /\ Handed(fut, next)
  BY <1>5, NumbersAre DEF Init, Below, Handed, Ids
<1>8. QueuesOK
  <2>1. submissions = <<>> /\ ready = <<>>
    BY DEF Init
  <2>2. QED
    BY <2>1, CapacityIs, FutureAssumption DEF QueuesOK
<1>9. StackOK(stack)
  <2> DEFINE a == Frame("js", 0, FALSE)
  <2>1. a \in FrameType /\ FrameOK(a) /\ stack = <<a>>
    BY FrameIs DEF Init
  <2> HIDE DEF a
  <2>2. stack \in Seq(FrameType) /\ Len(stack) = 1 /\ stack[1] = a
    BY <2>1
  <2>3. QED
    BY <2>1, <2>2, FutureAssumption DEF StackOK
<1>10. RestOK
  <2>1. /\ next = 0 /\ due = {} /\ waking = {} /\ firing = NoSlot
        /\ shutting_down = FALSE /\ closed = FALSE
    BY DEF Init
  <2>2. 0 \in 0 .. MaxFutures
    BY NumbersAre
  <2>3. QED
    BY <2>1, <2>2 DEF RestOK
<1>11. QED
  BY <1>3, <1>6, <1>7, <1>8, <1>9, <1>10 DEF IInv

\* Every step keeps the invariant and destroys no operation that runs.
LEMMA Steps == ASSUME IInv, [Next]_vars PROVE StepOK
<1>1. CASE JavaScript
  BY <1>1, CallSteps1, CallAndWaitSteps, CaptureFailsSteps, CombinatorSteps, ObjectSteps
     DEF JavaScript
<1>2. CASE Poll
  BY <1>2, DeadlineSteps, DispatchSteps, ReadySteps, ActiveSteps, LaneSteps, CombineSteps,
     CallReturnSteps, ContinuationReturnSteps, PollEndSteps DEF Poll
<1>3. CASE Environment
  BY <1>3, DeadlinePassSteps, CompletionSteps, WakeSteps, TimerSteps DEF Environment
<1>4. CASE prepare_future_runtime_destroy
  BY <1>4, TeardownSteps
<1>5. CASE UNCHANGED vars
  <2>1. Sound(fut, fut') /\ StackOK(stack')
        /\ UNCHANGED <<next, submissions, ready, due, waking, firing, shutting_down, closed>>
    BY <1>5, SoundSame DEF vars, IInv
  <2>2. QED
    BY <2>1, Quiet
<1>6. QED
  BY <1>1, <1>2, <1>3, <1>4, <1>5 DEF Next, Finished

\* The owners give each started operation its lane and the slot that ends it.
LEMMA OwnedOperations == ASSUME IInv PROVE OperationsOwned
<1>0. fut \in World /\ Owned(fut)
  BY DEF IInv
<1>1. \A s \in Slots : Started(s) => fut.slots[s].driver_started
  BY <1>0 DEF Started, Owned, Driven
<1>2. LaneExclusive
  BY <1>0, <1>1 DEF LaneExclusive, Owned, Exclusive
<1>3. NativeOwned
  BY <1>0 DEF NativeOwned, Owned, HasOwner, NamedSlot
<1>4. QED
  BY <1>2, <1>3 DEF OperationsOwned

LEMMA Typed == ASSUME IInv PROVE TypeOK
<1>1. waking \subseteq Ids
  BY FutureAssumption DEF IInv, RestOK, Ids
<1>2. \A s \in Slots : fut.slots[s].allocated <=> fut.slots[s].seq # 0
  BY DEF IInv, Owned, NamedSlot
<1>3. QED
  BY <1>1, <1>2 DEF TypeOK, IInv, RestOK, QueuesOK, StackOK, World

\* The table of Futures, the queues and the stack of activations always have
\* their types: no queue outgrows its length and a slot in use names its Future.
THEOREM SchedulerTypes == Spec => []TypeOK
<1>1. Init => IInv
  BY Start
<1>2. IInv /\ [Next]_vars => IInv'
  BY Steps DEF StepOK
<1>3. IInv => TypeOK
  BY Typed
<1>4. QED
  BY <1>1, <1>2, <1>3, PTL DEF Spec

\* Whatever became of its Future, a native operation has the slot that polls
\* and destroys it, and no other started operation shares its lane.
THEOREM OperationsAreOwned == Spec => []OperationsOwned
<1>1. Init => IInv
  BY Start
<1>2. IInv /\ [Next]_vars => IInv'
  BY Steps DEF StepOK
<1>3. IInv => OperationsOwned
  BY OwnedOperations
<1>4. QED
  BY <1>1, <1>2, <1>3, PTL DEF Spec

\* No step destroys the state of a native operation that is running.
THEOREM OperationsOutlive == Spec => NativeOutlives
<1>1. Init => IInv
  BY Start
<1>2. IInv /\ [Next]_vars => IInv'
  BY Steps DEF StepOK
<1>3. IInv /\ [Next]_vars
      => [\A f \in Ids : fut.native[f] = "running" => fut'.native[f] # "destroyed"]_vars
  BY Steps DEF StepOK, Outlives
<1>4. QED
  BY <1>1, <1>2, <1>3, PTL DEF Spec, NativeOutlives

-------------------------------------------------------------------------------
(* What the operations on one slot give. *)

\* The object of a Future that ends as st, with the result of Future r, and the
\* objects after the Future in slot s has ended.
Told(h, st, r) == [h EXCEPT !.terminal = TRUE, !.state = st, !.by = r]
ToldIn(w, s, st, r) ==
    IF w.slots[s].handle
    THEN [w.handles EXCEPT ![w.slots[s].seq] = Told(w.handles[w.slots[s].seq], st, r)]
    ELSE w.handles

\* A slot that its object no longer refers to.
Hush(a) == IF a.handle THEN [a EXCEPT !.handle = FALSE] ELSE a

\* A slot whose driver outlives its Future.
Left(a, b, st, r) ==
    /\ a.driver_active /\ b.driver_active = TRUE /\ b.allocated = TRUE
    /\ b.generation = a.generation /\ b.seq = a.seq /\ b.kind = a.kind
    /\ b.deadline = a.deadline /\ b.key = a.key /\ b.lane_waiting = a.lane_waiting
    /\ b.running = a.running /\ b.called = a.called
    /\ b.handle = FALSE /\ b.state = st /\ b.result = r /\ b.inputs = <<>> /\ b.timer = "none"

\* The Future in slot s has ended as st, with the result of Future r.
Over(w, v, s, st, r) ==
    /\ v \in World /\ Others(w, v, s)
    /\ v.handles = ToldIn(w, s, st, r)
    /\ \/ v.slots[s] = EmptySlot(w.slots[s].generation)
       \/ Left(w.slots[s], v.slots[s], st, r)

\* Two states of a slot with the same Future and object; a driver is the same.
Alike(a, b) ==
    /\ b.handle = a.handle /\ b.seq = a.seq /\ b.generation = a.generation
    /\ b.driver_active => /\ a.driver_active /\ b.kind = a.kind /\ b.deadline = a.deadline
                          /\ b.key = a.key /\ b.lane_waiting = a.lane_waiting
                          /\ b.running = a.running /\ b.called = a.called

\* What Hush leaves of a slot.
LEMMA HushIs ==
    ASSUME NEW a \in SlotType
    PROVE  /\ Hush(a) \in SlotType /\ Hush(a).handle = FALSE
           /\ Hush(a).allocated = a.allocated /\ Hush(a).generation = a.generation
           /\ Hush(a).seq = a.seq /\ Hush(a).kind = a.kind /\ Hush(a).state = a.state
           /\ Hush(a).result = a.result /\ Hush(a).inputs = a.inputs
           /\ Hush(a).driver_active = a.driver_active /\ Hush(a).key = a.key
           /\ Hush(a).lane_waiting = a.lane_waiting /\ Hush(a).deadline = a.deadline
           /\ Hush(a).cancel_requested = a.cancel_requested /\ Hush(a).timer = a.timer
           /\ Hush(a).running = a.running /\ Hush(a).called = a.called
           /\ Hush(a).driver_started = a.driver_started
<1>1. CASE ~a.handle
  <2>1. a.handle = FALSE
    BY <1>1 DEF SlotType
  <2>2. Hush(a) = a
    BY <1>1 DEF Hush
  <2>3. QED
    BY <2>1, <2>2
<1>2. CASE a.handle
  <2> DEFINE b == [a EXCEPT !.handle = FALSE]
  <2>1. FALSE \in BOOLEAN
    OBVIOUS
  <2>2. b \in SlotType
    BY <2>1, Zenon DEF SlotType
  <2>3. Hush(a) = b
    BY <1>2 DEF Hush
  <2>4. /\ b.handle = FALSE
        /\ b.allocated = a.allocated /\ b.generation = a.generation
        /\ b.seq = a.seq /\ b.kind = a.kind /\ b.state = a.state
        /\ b.result = a.result /\ b.inputs = a.inputs
        /\ b.driver_active = a.driver_active /\ b.key = a.key
        /\ b.lane_waiting = a.lane_waiting /\ b.deadline = a.deadline
        /\ b.cancel_requested = a.cancel_requested /\ b.timer = a.timer
        /\ b.running = a.running /\ b.called = a.called
        /\ b.driver_started = a.driver_started
    BY DEF SlotType
  <2> HIDE DEF b
  <2>5. QED
    BY <2>2, <2>3, <2>4
<1>3. QED
  BY <1>1, <1>2

ToldOK(w, x, s, st, r) ==
    /\ x \in [Ids -> HandleType] /\ w.slots[s].seq \in Ids
    /\ \A f \in Ids : f # w.slots[s].seq => x[f] = w.handles[f]
    /\ ~w.slots[s].handle => x = w.handles
    /\ x[w.slots[s].seq].slot = w.handles[w.slots[s].seq].slot
    /\ x[w.slots[s].seq].generation = w.handles[w.slots[s].seq].generation
    /\ x[w.slots[s].seq].alive = w.handles[w.slots[s].seq].alive
    /\ w.slots[s].handle => /\ x[w.slots[s].seq].terminal = TRUE
                            /\ x[w.slots[s].seq].state = st
                            /\ x[w.slots[s].seq].by = r

\* Telling an object writes its own record and no other.
LEMMA ToldIs ==
    ASSUME NEW w \in World, NEW s \in Slots, NamedSlot(w.slots[s]), w.slots[s].allocated,
           NEW st \in States, NEW r \in Ids \union {0}
    PROVE  ToldOK(w, ToldIn(w, s, st, r), s, st, r)
<1> DEFINE f == w.slots[s].seq
           h == w.handles[f]
           k == Told(h, st, r)
<1>1. f \in Ids /\ h \in HandleType /\ TRUE \in BOOLEAN
  BY WorldFields DEF NamedSlot, SlotType
<1>2. k \in HandleType
  BY <1>1, Zenon DEF Told, HandleType
<1>3. /\ k.slot = h.slot /\ k.generation = h.generation /\ k.alive = h.alive
      /\ k.terminal = TRUE /\ k.state = st /\ k.by = r
  BY <1>1 DEF Told, HandleType
<1> HIDE DEF k
<1>4. ToldIn(w, s, st, r) = IF w.slots[s].handle THEN [w.handles EXCEPT ![f] = k] ELSE w.handles
  BY DEF ToldIn, k
<1>5. QED
  BY <1>1, <1>2, <1>3, <1>4, WorldFields DEF ToldOK

\* Telling the object of a Future that has ended, and releasing the slot.
Closes(w, v, s) ==
    LET a == w.slots[s] IN
    /\ v \in World /\ Others(w, v, s) /\ v.native = w.native
    /\ v.handles = ToldIn(w, s, a.state, a.result)
    /\ v.slots[s] = IF a.driver_active THEN Hush(a) ELSE EmptySlot(a.generation)

\* future_publish_terminal tells the object and lets go of it.
LEMMA PublishGives ==
    ASSUME NEW w \in World, NEW s \in Slots, NamedSlot(w.slots[s]),
           w.slots[s].allocated, w.slots[s].state \in Terminal
    PROVE  /\ PublishTerminal(w, s) \in World /\ Others(w, PublishTerminal(w, s), s)
           /\ PublishTerminal(w, s).native = w.native
           /\ PublishTerminal(w, s).handles = ToldIn(w, s, w.slots[s].state, w.slots[s].result)
           /\ PublishTerminal(w, s).slots[s] = Hush(w.slots[s])
<1> DEFINE a == w.slots[s]
           k == Told(w.handles[a.seq], a.state, a.result)
           b == [a EXCEPT !.handle = FALSE]
           u == Put(w, s, b)
<1>1. PublishTerminal(w, s) \in World
  BY PublishIs
<1>2. CASE ~a.handle
  BY <1>1, <1>2 DEF PublishTerminal, ToldIn, Hush, Others
<1>3. CASE a.handle
  <2>1. b = Hush(a)
    BY <1>3 DEF Hush
  <2>2. a \in SlotType /\ a.seq \in Ids /\ a.state \in States /\ a.result \in Ids \union {0}
    BY WorldFields DEF NamedSlot, SlotType
  <2>3. b \in SlotType
    BY <2>1, <2>2, HushIs
  <2>4. w.handles[a.seq] \in HandleType /\ TRUE \in BOOLEAN
    BY <2>2, WorldFields
  <2>5. k \in HandleType
    BY <2>2, <2>4, Zenon DEF Told, HandleType
  <2> HIDE DEF b
  <2>6. u \in World /\ u.native = w.native /\ u.handles = w.handles /\ u.slots[s] = b
        /\ \A t \in Slots : t # s => u.slots[t] = w.slots[t]
    BY <2>3, PutIs
  <2>7. PublishTerminal(w, s) = [u EXCEPT !.handles[a.seq] = k]
    <3>1. PublishTerminal(w, s) = [u EXCEPT !.handles[a.seq] =
             [@ EXCEPT !.terminal = TRUE, !.state = a.state, !.by = a.result]]
      BY <1>3, Zenon DEF PublishTerminal, b
    <3>2. QED
      BY <2>6, <3>1, Zenon DEF Told
  <2> HIDE DEF k, u
  <2>8. /\ PublishTerminal(w, s).slots = u.slots /\ PublishTerminal(w, s).native = u.native
        /\ PublishTerminal(w, s).handles = [w.handles EXCEPT ![a.seq] = k]
    BY <2>2, <2>5, <2>6, <2>7, HandleIs
  <2>9. ToldIn(w, s, a.state, a.result) = [w.handles EXCEPT ![a.seq] = k]
    BY <1>3 DEF ToldIn, k
  <2>10. QED
    BY <1>1, <2>1, <2>6, <2>8, <2>9 DEF Others
<1>4. QED
  BY <1>2, <1>3

\* Published, the slot is emptied unless its driver is still there.
LEMMA ClosesGives ==
    ASSUME NEW w \in World, NEW s \in Slots, NamedSlot(w.slots[s]),
           w.slots[s].allocated, w.slots[s].state \in Terminal
    PROVE  Closes(w, ReleaseIfTerminal(PublishTerminal(w, s), s), s)
<1> DEFINE a == w.slots[s]
           p == PublishTerminal(w, s)
           e == EmptySlot(a.generation)
<1>1. /\ p \in World /\ Others(w, p, s) /\ p.native = w.native
      /\ p.handles = ToldIn(w, s, a.state, a.result) /\ p.slots[s] = Hush(a)
  BY PublishGives
<1>2. a \in SlotType /\ a.generation \in Nat
  BY WorldFields DEF SlotType
<1>3. /\ p.slots[s].allocated = a.allocated /\ p.slots[s].state = a.state
      /\ p.slots[s].driver_active = a.driver_active /\ p.slots[s].generation = a.generation
  BY <1>1, <1>2, HushIs, ZenonT(40)
<1> HIDE DEF p
<1>4. CASE a.driver_active
  <2>1. ReleaseIfTerminal(p, s) = p
    BY <1>3, <1>4 DEF ReleaseIfTerminal
  <2>2. QED
    BY <1>1, <1>4, <2>1 DEF Closes, p
<1>5. CASE ~a.driver_active
  <2>1. e \in SlotType
    BY <1>2, EmptyIs
  <2> HIDE DEF e
  <2>2. ReleaseIfTerminal(p, s) = Put(p, s, e)
    BY <1>3, <1>5 DEF ReleaseIfTerminal, ClearSlot, DestroyDriver, e
  <2>3. Put(p, s, e) \in World /\ Put(p, s, e).native = p.native
        /\ Put(p, s, e).handles = p.handles /\ Put(p, s, e).slots[s] = e
        /\ \A t \in Slots : t # s => Put(p, s, e).slots[t] = p.slots[t]
    BY <1>1, <2>1, PutIs
  <2>4. QED
    BY <1>1, <1>5, <2>2, <2>3 DEF Closes, Others, p, e
<1>6. QED
  BY <1>4, <1>5

\* A Future that has not ended is settled.
LEMMA SettleOver ==
    ASSUME NEW w \in World, NEW s \in Slots, NamedSlot(w.slots[s]), w.slots[s].allocated,
           w.slots[s].state \notin Terminal, NEW st \in Terminal, NEW by \in Ids \union {0}
    PROVE  /\ Over(w, Settle(w, s, st, by), s, st,
                   IF st = "cancelled" THEN w.slots[s].result ELSE by)
           /\ Settle(w, s, st, by).native = w.native
           /\ ~w.slots[s].driver_active =>
                 Settle(w, s, st, by).slots[s] = EmptySlot(w.slots[s].generation)
<1> DEFINE a == w.slots[s]
           r == IF st = "cancelled" THEN a.result ELSE by
           b == [a EXCEPT !.state = st, !.result = r, !.call_refs = FALSE,
                          !.inputs = <<>>, !.timer = "none"]
           u == Put(w, s, b)
<1>1. a \in SlotType /\ r \in Ids \union {0} /\ st \in States
      /\ "none" \in {"none", "armed", "fired"} /\ <<>> \in Seq(Ids) /\ FALSE \in BOOLEAN
  BY WorldFields DEF SlotType, States
<1>2. Settle(w, s, st, by) = ReleaseIfTerminal(PublishTerminal(u, s), s)
  BY Zenon DEF Settle
<1> HIDE DEF r
<1>3. b \in SlotType
  BY <1>1, Zenon DEF SlotType
<1>4. /\ b.allocated = a.allocated /\ b.generation = a.generation /\ b.seq = a.seq
      /\ b.kind = a.kind /\ b.state = st /\ b.result = r /\ b.inputs = <<>>
      /\ b.driver_active = a.driver_active /\ b.key = a.key /\ b.handle = a.handle
      /\ b.lane_waiting = a.lane_waiting /\ b.deadline = a.deadline /\ b.timer = "none"
      /\ b.running = a.running /\ b.called = a.called
  BY <1>1 DEF SlotType
<1> HIDE DEF b
<1>5. u \in World /\ u.native = w.native /\ u.handles = w.handles /\ u.slots[s] = b
      /\ \A t \in Slots : t # s => u.slots[t] = w.slots[t]
  BY <1>3, PutIs
<1> HIDE DEF u
<1>6. NamedSlot(u.slots[s])
  BY <1>4, <1>5 DEF NamedSlot
<1> DEFINE v == ReleaseIfTerminal(PublishTerminal(u, s), s)
<1>7. Closes(u, v, s)
  BY <1>4, <1>5, <1>6, ClosesGives
<1> HIDE DEF v
<1>8. v \in World /\ Others(w, v, s) /\ v.native = w.native
  BY <1>5, <1>7 DEF Closes, Others
<1>9. v.handles = ToldIn(w, s, st, r)
  BY <1>4, <1>5, <1>7 DEF Closes, ToldIn
<1>10. v.slots[s] = IF b.driver_active THEN Hush(b) ELSE EmptySlot(a.generation)
  BY <1>4, <1>5, <1>7 DEF Closes
<1>11. b.driver_active => Left(a, v.slots[s], st, r)
  <2> SUFFICES ASSUME b.driver_active PROVE Left(a, v.slots[s], st, r)
    OBVIOUS
  <2>1. b.driver_active = TRUE /\ b.allocated = TRUE
    BY <1>1, <1>3, <1>4 DEF SlotType
  <2> DEFINE c == Hush(b)
  <2>2. /\ c.handle = FALSE
           /\ c.allocated = b.allocated /\ c.generation = b.generation
           /\ c.seq = b.seq /\ c.kind = b.kind /\ c.state = b.state
           /\ c.result = b.result /\ c.inputs = b.inputs
           /\ c.driver_active = b.driver_active /\ c.key = b.key
           /\ c.lane_waiting = b.lane_waiting /\ c.deadline = b.deadline
           /\ c.timer = b.timer
           /\ c.running = b.running /\ c.called = b.called
    BY <1>3, HushIs
  <2>3. v.slots[s] = c
    BY <1>10
  <2> HIDE DEF c
  <2>4. QED
    BY <1>4, <2>1, <2>2, <2>3 DEF Left
<1>12. QED
  BY <1>2, <1>4, <1>8, <1>9, <1>10, <1>11 DEF Over, r, v

\* A Future that is settled is not settled again.
LEMMA SettleNot ==
    ASSUME NEW w, NEW s, ~w.slots[s].allocated \/ w.slots[s].state \in Terminal, NEW st, NEW by
    PROVE  Settle(w, s, st, by) = w
  BY DEF Settle

\* What is over for a slot with the same Future is over for this one.
LEMMA OverFrom ==
    ASSUME NEW w, NEW u, NEW v, NEW s \in Slots, Others(w, u, s), u.handles = w.handles,
           Alike(w.slots[s], u.slots[s]), NEW st, NEW r, Over(u, v, s, st, r)
    PROVE  Over(w, v, s, st, r)
<1>1. v \in World /\ Others(w, v, s)
  BY DEF Over, Others
<1>2. v.handles = ToldIn(w, s, st, r)
  BY DEF Over, Alike, ToldIn
<1>3. \/ v.slots[s] = EmptySlot(w.slots[s].generation)
      \/ Left(w.slots[s], v.slots[s], st, r)
  BY DEF Over, Alike, Left
<1>4. QED
  BY <1>1, <1>2, <1>3 DEF Over

\* Without its driver a slot has the same Future.
LEMMA DestroyGives ==
    ASSUME NEW w \in World, NEW s \in Slots, NamedSlot(w.slots[s])
    PROVE  /\ DestroyDriver(w, s) \in World /\ Others(w, DestroyDriver(w, s), s)
           /\ DestroyDriver(w, s).handles = w.handles
           /\ Alike(w.slots[s], DestroyDriver(w, s).slots[s])
           /\ DestroyDriver(w, s).slots[s].driver_active = FALSE
           /\ DestroyDriver(w, s).slots[s].allocated = w.slots[s].allocated
           /\ DestroyDriver(w, s).slots[s].state = w.slots[s].state
           /\ DestroyDriver(w, s).slots[s].result = w.slots[s].result
           /\ NamedSlot(DestroyDriver(w, s).slots[s])
<1> DEFINE a == w.slots[s]
           b == [a EXCEPT !.driver_active = FALSE, !.driver_started = FALSE,
                          !.lane_waiting = FALSE, !.key = NoKey]
           v == DestroyDriver(w, s)
<1>1. a \in SlotType
  BY WorldFields
<1>2. CASE ~a.driver_active
  <2>1. v = w /\ a.driver_active = FALSE
    BY <1>1, <1>2 DEF DestroyDriver, SlotType
  <2>2. QED
    BY <2>1 DEF Others, Alike
<1>3. CASE a.driver_active
  <2>1. FALSE \in BOOLEAN /\ NoKey \in Keys \union {NoKey}
    OBVIOUS
  <2>2. b \in SlotType
    BY <1>1, <2>1, Zenon DEF SlotType
  <2>3. /\ b.allocated = a.allocated /\ b.seq = a.seq /\ b.state = a.state
        /\ b.driver_active = FALSE /\ b.generation = a.generation /\ b.handle = a.handle
        /\ b.result = a.result
    BY <1>1 DEF SlotType
  <2>4. a.seq \in Ids /\ "destroyed" \in NativeStates
    BY <1>3, <1>1 DEF NamedSlot, SlotType, NativeStates
  <2> HIDE DEF b
  <2>5. Put(w, s, b) \in World /\ Put(w, s, b).native = w.native
        /\ Put(w, s, b).handles = w.handles /\ Put(w, s, b).slots[s] = b
        /\ \A t \in Slots : t # s => Put(w, s, b).slots[t] = w.slots[t]
    BY <2>2, PutIs
  <2>6. v = [Put(w, s, b) EXCEPT !.native[a.seq] = "destroyed"]
    BY <1>3 DEF DestroyDriver, b
  <2>7. v \in World /\ v.slots = Put(w, s, b).slots /\ v.handles = w.handles
    BY <2>4, <2>5, <2>6, NativeIs
  <2>8. v.slots[s] = b /\ Others(w, v, s)
    BY <2>5, <2>7 DEF Others
  <2>9. NamedSlot(b) /\ Alike(a, b)
    BY <2>3 DEF NamedSlot, Alike
  <2> HIDE DEF v
  <2>10. QED
    BY <2>3, <2>7, <2>8, <2>9 DEF v
<1>4. QED
  BY <1>2, <1>3

\* A driver is destroyed and its Future settled.
LEMMA DestroySettleOver ==
    ASSUME NEW w \in World, NEW s \in Slots, NamedSlot(w.slots[s]), w.slots[s].allocated,
           w.slots[s].state \notin Terminal, NEW st \in Terminal, NEW by \in Ids \union {0}
    PROVE  Over(w, Settle(DestroyDriver(w, s), s, st, by), s, st,
                IF st = "cancelled" THEN w.slots[s].result ELSE by)
<1> DEFINE d == DestroyDriver(w, s)
<1>1. /\ d \in World /\ Others(w, d, s) /\ d.handles = w.handles /\ NamedSlot(d.slots[s])
      /\ Alike(w.slots[s], d.slots[s]) /\ d.slots[s].allocated = w.slots[s].allocated
      /\ d.slots[s].state = w.slots[s].state /\ d.slots[s].result = w.slots[s].result
  BY DestroyGives
<1> HIDE DEF d
<1> DEFINE r == IF st = "cancelled" THEN w.slots[s].result ELSE by
<1>2. Over(d, Settle(d, s, st, by), s, st, r)
  BY <1>1, SettleOver, ZenonT(40)
<1> HIDE DEF r
<1>3. Over(w, Settle(d, s, st, by), s, st, r)
  BY <1>1, <1>2, OverFrom
<1>4. QED
  BY <1>3 DEF d, r

\* The error path of a dispatch ends the Future and empties the slot.
LEMMA RejectOver ==
    ASSUME NEW w \in World, NEW s \in Slots, NamedSlot(w.slots[s]), w.slots[s].allocated,
           w.slots[s].state \notin Terminal
    PROVE  /\ Over(w, RejectAndDestroy(w, s), s, "rejected", w.slots[s].seq)
           /\ RejectAndDestroy(w, s).slots[s] = EmptySlot(w.slots[s].generation)
<1> DEFINE a == w.slots[s]
           u == Settle(w, s, "rejected", a.seq)
           d == DestroyDriver(u, s)
           v == ReleaseIfTerminal(d, s)
           e == EmptySlot(a.generation)
<1>1. a \in SlotType /\ a.seq \in Ids \union {0} /\ "rejected" \in Terminal
      /\ a.generation \in Nat
  BY WorldFields DEF SlotType, Terminal
<1>2. Over(w, u, s, "rejected", a.seq)
  <2>1. Over(w, Settle(w, s, "rejected", a.seq), s, "rejected",
             IF "rejected" = "cancelled" THEN a.result ELSE a.seq)
    BY <1>1, SettleOver
  <2>2. QED
    BY <2>1
<1> HIDE DEF u
<1>3. u \in World /\ Others(w, u, s) /\ u.handles = ToldIn(w, s, "rejected", a.seq)
  BY <1>2 DEF Over
<1>4. e \in SlotType /\ e.allocated = FALSE /\ e.driver_active = FALSE /\ e.seq = 0
  BY <1>1, EmptyIs DEF EmptySlot
<1> HIDE DEF e
<1>5. CASE u.slots[s] = e
  <2>1. v = u
    BY <1>4, <1>5 DEF DestroyDriver, ReleaseIfTerminal
  <2>2. QED
    BY <1>2, <1>5, <2>1 DEF RejectAndDestroy, u, e
<1>6. CASE Left(a, u.slots[s], "rejected", a.seq)
  <2>1. NamedSlot(u.slots[s])
    BY <1>6, <1>1 DEF Left, NamedSlot
  <2>2. /\ d \in World /\ Others(u, d, s) /\ d.handles = u.handles
        /\ Alike(u.slots[s], d.slots[s]) /\ d.slots[s].driver_active = FALSE
        /\ d.slots[s].allocated = u.slots[s].allocated
        /\ d.slots[s].state = u.slots[s].state
    BY <1>3, <2>1, DestroyGives
  <2> HIDE DEF d
  <2>3. /\ d.slots[s].allocated /\ d.slots[s].state \in Terminal
        /\ d.slots[s].generation = a.generation
    BY <1>1, <1>6, <2>2 DEF Left, Alike
  <2>4. v = Put(d, s, e)
    BY <2>2, <2>3 DEF ReleaseIfTerminal, ClearSlot, DestroyDriver, e
  <2>5. Put(d, s, e) \in World
        /\ Put(d, s, e).handles = d.handles /\ Put(d, s, e).slots[s] = e
        /\ \A t \in Slots : t # s => Put(d, s, e).slots[t] = d.slots[t]
    BY <1>4, <2>2, PutIs
  <2>6. v \in World /\ Others(w, v, s) /\ v.handles = ToldIn(w, s, "rejected", a.seq)
        /\ v.slots[s] = e
    BY <1>3, <2>2, <2>4, <2>5 DEF Others
  <2> HIDE DEF v
  <2>7. Over(w, v, s, "rejected", a.seq)
    BY <2>6 DEF Over, e
  <2>8. QED
    BY <2>6, <2>7 DEF v, d, u, e, RejectAndDestroy
<1>7. QED
  BY <1>2, <1>5, <1>6 DEF Over, e

\* Asking a driver to stop.
Asked(a) == [a EXCEPT !.cancel_requested = TRUE]

\* What a request to cancel leaves of a slot.
LEMMA AskedIs ==
    ASSUME NEW a \in SlotType
    PROVE  /\ Asked(a) \in SlotType /\ Asked(a).cancel_requested = TRUE
           /\ Asked(a).allocated = a.allocated /\ Asked(a).generation = a.generation
           /\ Asked(a).seq = a.seq /\ Asked(a).kind = a.kind /\ Asked(a).state = a.state
           /\ Asked(a).result = a.result /\ Asked(a).inputs = a.inputs
           /\ Asked(a).driver_active = a.driver_active /\ Asked(a).key = a.key
           /\ Asked(a).lane_waiting = a.lane_waiting /\ Asked(a).deadline = a.deadline
           /\ Asked(a).handle = a.handle /\ Asked(a).timer = a.timer
           /\ Asked(a).running = a.running /\ Asked(a).called = a.called
           /\ Asked(a).driver_started = a.driver_started
<1>1. TRUE \in BOOLEAN
  OBVIOUS
<1>2. Asked(a) \in SlotType
  BY <1>1, Zenon DEF SlotType, Asked
<1>3. QED
  BY <1>2 DEF SlotType, Asked

\* A cancellation does nothing, asks a started driver to stop, or ends the
\* Future.
Cancels(w, v, s) ==
    LET a == w.slots[s] IN
    \/ v = w
    \/ /\ a.driver_active /\ a.state \notin Terminal /\ a.state # "queued"
       /\ v = Put(w, s, Asked(a))
    \/ a.state \notin Terminal /\ Over(w, v, s, "cancelled", a.result)

\* future_cancel does nothing, asks the driver, or ends the Future as cancelled.
LEMMA CancelGives ==
    ASSUME NEW w \in World, NEW s \in Slots, NamedSlot(w.slots[s]), w.slots[s].allocated,
           NEW answer
    PROVE  Cancels(w, CancelSlot(w, s, answer), s)
<1> DEFINE a == w.slots[s]
<1>1. "cancelled" \in Terminal /\ 0 \in Ids \union {0} /\ "queued" \notin Terminal
  BY DEF Terminal
<1>2. CASE a.state \in Terminal
  BY <1>2 DEF CancelSlot, Cancels
<1>3. CASE a.state = "queued"
  <2>1. CancelSlot(w, s, answer) = Settle(DestroyDriver(w, s), s, "cancelled", 0)
    BY <1>1, <1>3 DEF CancelSlot
  <2>2. Over(w, Settle(DestroyDriver(w, s), s, "cancelled", 0), s, "cancelled",
             IF "cancelled" = "cancelled" THEN a.result ELSE 0)
    BY <1>1, <1>3, DestroySettleOver
  <2>3. QED
    BY <1>1, <1>3, <2>1, <2>2 DEF Cancels
<1>4. CASE a.state \notin Terminal /\ a.state # "queued"
  <2>1. \/ CancelSlot(w, s, answer) = w
        \/ a.driver_active /\ CancelSlot(w, s, answer) = Put(w, s, Asked(a))
        \/ CancelSlot(w, s, answer) = Settle(w, s, "cancelled", 0)
    BY <1>4, Zenon DEF CancelSlot, Asked
  <2>2. Over(w, Settle(w, s, "cancelled", 0), s, "cancelled",
             IF "cancelled" = "cancelled" THEN a.result ELSE 0)
    BY <1>1, <1>4, SettleOver
  <2>3. QED
    BY <1>4, <2>1, <2>2 DEF Cancels
<1>5. QED
  BY <1>2, <1>3, <1>4

\* A deadline ends the Future.
LEMMA ExpireOver ==
    ASSUME NEW w \in World, NEW s \in Slots, NamedSlot(w.slots[s]), w.slots[s].allocated,
           w.slots[s].state \notin Terminal, NEW answer, NEW custom \in {"fulfilled", "rejected"}
    PROVE  Over(w, Expire(w, s, answer, custom), s,
                IF w.slots[s].driver_active THEN custom ELSE "rejected", w.slots[s].seq)
<1> DEFINE a == w.slots[s]
           asked == IF a.driver_active /\ a.state = "queued" THEN DestroyDriver(w, s)
                    ELSE IF a.driver_active /\ ~a.cancel_requested /\ answer = "requested"
                    THEN Put(w, s, Asked(a)) ELSE w
           st == IF a.driver_active THEN custom ELSE "rejected"
<1>1. a \in SlotType /\ a.seq \in Ids \union {0} /\ st \in Terminal /\ st # "cancelled"
  BY WorldFields DEF SlotType, Terminal
<1>2. Expire(w, s, answer, custom) = Settle(asked, s, st, a.seq)
  BY Zenon DEF Expire, Asked
<1> HIDE DEF st
<1>3. CASE asked = DestroyDriver(w, s)
  <2>1. Over(w, Settle(DestroyDriver(w, s), s, st, a.seq), s, st,
             IF st = "cancelled" THEN a.result ELSE a.seq)
    BY <1>1, DestroySettleOver
  <2>2. QED
    BY <1>1, <1>2, <1>3, <2>1 DEF st
<1>4. CASE asked = Put(w, s, Asked(a))
  <2> DEFINE b == Asked(a)
             u == Put(w, s, b)
  <2>1. /\ b \in SlotType /\ b.allocated = a.allocated /\ b.generation = a.generation
        /\ b.seq = a.seq /\ b.state = a.state /\ b.driver_active = a.driver_active
        /\ b.handle = a.handle /\ b.kind = a.kind /\ b.deadline = a.deadline
        /\ b.key = a.key /\ b.lane_waiting = a.lane_waiting
        /\ b.running = a.running /\ b.called = a.called
    BY <1>1, AskedIs
  <2> HIDE DEF b
  <2>2. /\ u \in World /\ u.handles = w.handles /\ u.slots[s] = b
        /\ \A t \in Slots : t # s => u.slots[t] = w.slots[t]
    BY <2>1, PutIs
  <2> HIDE DEF u
  <2>3. NamedSlot(u.slots[s]) /\ Others(w, u, s) /\ Alike(a, u.slots[s])
        /\ u.slots[s].allocated /\ u.slots[s].state \notin Terminal
    BY <2>1, <2>2 DEF NamedSlot, Others, Alike
  <2>4. Over(u, Settle(u, s, st, a.seq), s, st,
             IF st = "cancelled" THEN u.slots[s].result ELSE a.seq)
    BY <1>1, <2>2, <2>3, SettleOver
  <2>5. Over(u, Settle(u, s, st, a.seq), s, st, a.seq)
    BY <1>1, <2>4
  <2>6. Over(w, Settle(u, s, st, a.seq), s, st, a.seq)
    BY <2>2, <2>3, <2>5, OverFrom
  <2>7. QED
    BY <1>2, <1>4, <2>6 DEF st, u, b
<1>5. CASE asked = w
  <2>1. Over(w, Settle(w, s, st, a.seq), s, st,
             IF st = "cancelled" THEN a.result ELSE a.seq)
    BY <1>1, SettleOver
  <2>2. QED
    BY <1>1, <1>2, <1>5, <2>1 DEF st
<1>6. QED
  BY <1>3, <1>4, <1>5

\* What a poll of the slot can give: nothing, a sleep that is over, or an
\* operation that is: one that was asked to stop ends cancelled.
Polled(w, v, s) ==
    LET a == w.slots[s] IN
    \/ v = w
    \/ /\ a.kind = "sleep" /\ a.allocated /\ a.state \notin Terminal
       /\ Over(w, v, s, "fulfilled", a.seq)
    \/ /\ a.driver_active /\ a.state \in Terminal
       /\ Over(w, v, s, a.state, a.result)
    \/ /\ a.driver_active /\ a.state \notin Terminal /\ a.cancel_requested
       /\ Over(w, v, s, "cancelled", a.result)
    \/ /\ a.driver_active /\ a.state \notin Terminal /\ ~a.cancel_requested
       /\ \E st \in {"fulfilled", "rejected"} : Over(w, v, s, st, a.seq)

\* A poll ends what is due or done, or does nothing.
LEMMA PollGives ==
    ASSUME NEW w \in World, NEW s \in Slots, NamedSlot(w.slots[s]), NEW v \in PollReady(w, s)
    PROVE  Polled(w, v, s)
<1> DEFINE a == w.slots[s]
           d == DestroyDriver(w, s)
<1>1. a \in SlotType /\ a.seq \in Ids \union {0} /\ 0 \in Ids \union {0}
      /\ {"fulfilled", "rejected", "cancelled"} = Terminal
  BY WorldFields DEF SlotType, Terminal
<1>2. CASE a.kind = "sleep"
  <2>1. v = Settle(w, s, "fulfilled", a.seq)
    BY <1>2 DEF PollReady
  <2>2. CASE ~a.allocated \/ a.state \in Terminal
    BY <2>1, <2>2, SettleNot DEF Polled
  <2>3. CASE a.allocated /\ a.state \notin Terminal
    <3>1. Over(w, Settle(w, s, "fulfilled", a.seq), s, "fulfilled",
               IF "fulfilled" = "cancelled" THEN a.result ELSE a.seq)
      BY <1>1, <2>3, SettleOver
    <3>2. QED
      BY <1>2, <2>1, <2>3, <3>1 DEF Polled
  <2>4. QED
    BY <2>2, <2>3
<1>3. CASE a.kind # "sleep" /\ (~a.driver_active \/ w.native[a.seq] # "done")
  BY <1>3 DEF PollReady, Polled
<1>4. CASE a.kind # "sleep" /\ a.driver_active /\ w.native[a.seq] = "done"
  <2>0. a.allocated
    BY <1>4 DEF NamedSlot
  <2>1. CASE a.state \in Terminal
    <3>1. v = ReleaseIfTerminal(PublishTerminal(d, s), s)
      BY <1>4, <2>1 DEF PollReady
    <3>2. /\ d \in World /\ Others(w, d, s) /\ d.handles = w.handles
          /\ Alike(a, d.slots[s]) /\ d.slots[s].driver_active = FALSE
          /\ d.slots[s].allocated = a.allocated /\ d.slots[s].state = a.state
          /\ d.slots[s].result = a.result /\ NamedSlot(d.slots[s])
      BY DestroyGives
    <3> HIDE DEF d
    <3>3. Closes(d, v, s)
      BY <2>0, <2>1, <3>1, <3>2, ClosesGives
    <3>4. v \in World /\ Others(w, v, s)
      BY <3>2, <3>3 DEF Closes, Others
    <3>5. v.handles = ToldIn(w, s, a.state, a.result)
      BY <3>2, <3>3 DEF Closes, ToldIn, Alike
    <3>6. v.slots[s] = EmptySlot(a.generation)
      BY <3>2, <3>3 DEF Closes, Alike
    <3>7. Over(w, v, s, a.state, a.result)
      BY <3>4, <3>5, <3>6 DEF Over
    <3>8. QED
      BY <1>4, <2>1, <3>7 DEF Polled
  <2>2. CASE a.state \notin Terminal /\ a.cancel_requested
    <3>1. v = Settle(d, s, "cancelled", 0)
      BY <1>4, <2>2 DEF PollReady
    <3>2. Over(w, Settle(d, s, "cancelled", 0), s, "cancelled",
               IF "cancelled" = "cancelled" THEN a.result ELSE 0)
      BY <1>1, <2>0, <2>2, DestroySettleOver
    <3>3. QED
      BY <1>4, <2>2, <3>1, <3>2 DEF Polled
  <2>3. CASE a.state \notin Terminal /\ ~a.cancel_requested
    <3>1. PICK st \in {"fulfilled", "rejected"} : v = Settle(d, s, st, a.seq)
      BY <1>4, <2>3 DEF PollReady
    <3>2. Over(w, Settle(d, s, st, a.seq), s, st,
               IF st = "cancelled" THEN a.result ELSE a.seq)
      BY <1>1, <2>0, <2>3, DestroySettleOver
    <3>3. st # "cancelled"
      BY <3>1
    <3>4. QED
      BY <1>4, <2>3, <3>1, <3>2, <3>3 DEF Polled
  <2>4. QED
    BY <2>1, <2>2, <2>3
<1>5. QED
  BY <1>2, <1>3, <1>4

\* A driver that is to start runs, or its Future is rejected.
Running(a) == [a EXCEPT !.lane_waiting = FALSE, !.driver_started = TRUE, !.state = "pending"]

Starts(w, v, s) ==
    LET a == w.slots[s] IN
    \/ /\ v \in World /\ Others(w, v, s) /\ v.handles = w.handles
       /\ v.slots[s] = Running(a)
       /\ v.native = [w.native EXCEPT ![a.seq] = "running"]
    \/ Over(w, v, s, "rejected", a.seq) /\ \A f \in Ids : v.native[f] = "running" => w.native[f] = "running"

\* What a start makes of a slot.
LEMMA RunningIs ==
    ASSUME NEW a \in SlotType
    PROVE  /\ Running(a) \in SlotType /\ Running(a).cancel_requested = a.cancel_requested
           /\ Running(a).allocated = a.allocated /\ Running(a).generation = a.generation
           /\ Running(a).seq = a.seq /\ Running(a).kind = a.kind
           /\ Running(a).state = "pending"
           /\ Running(a).result = a.result /\ Running(a).inputs = a.inputs
           /\ Running(a).driver_active = a.driver_active /\ Running(a).key = a.key
           /\ Running(a).lane_waiting = FALSE /\ Running(a).deadline = a.deadline
           /\ Running(a).handle = a.handle /\ Running(a).timer = a.timer
           /\ Running(a).running = a.running /\ Running(a).called = a.called
           /\ Running(a).driver_started = TRUE
<1>1. TRUE \in BOOLEAN /\ FALSE \in BOOLEAN /\ "pending" \in States
  BY DEF States
<1>2. Running(a) \in SlotType
  BY <1>1, Zenon DEF SlotType, Running
<1>3. QED
  BY <1>2 DEF SlotType, Running

\* What a new Future f finds in its slot, and what the allocation writes.
Taken(a, f, kind, key, deadline, inputs) ==
    [a EXCEPT !.allocated = TRUE, !.generation = a.generation + 1, !.seq = f, !.kind = kind,
              !.state = "queued", !.deadline = deadline, !.inputs = inputs,
              !.key = key, !.handle = TRUE,
              !.call_refs = (kind \in {"call", "map", "flatMap"}),
              !.driver_active = (kind = "driver")]
Object(s, g) ==
    [slot |-> s, alive |-> TRUE, terminal |-> FALSE, generation |-> g,
     state |-> "queued", by |-> 0]

TakenFields(a, b, f, kind, key, deadline, inputs) ==
    /\ b.allocated = TRUE /\ b.generation = a.generation + 1 /\ b.seq = f
    /\ b.kind = kind /\ b.state = "queued" /\ b.deadline = deadline
    /\ b.inputs = inputs /\ b.key = key /\ b.handle = TRUE
    /\ b.driver_active = (kind = "driver")
    /\ b.result = a.result /\ b.driver_started = a.driver_started
    /\ b.lane_waiting = a.lane_waiting /\ b.cancel_requested = a.cancel_requested
    /\ b.timer = a.timer /\ b.running = a.running /\ b.called = a.called

\* What an allocation makes of a slot.
LEMMA TakenIs ==
    ASSUME NEW a \in SlotType, NEW f \in Ids,
           NEW kind \in AllKinds, NEW key \in Keys \union {NoKey}, NEW deadline \in BOOLEAN,
           NEW inputs \in Seq(Ids), NEW b, b = Taken(a, f, kind, key, deadline, inputs)
    PROVE  b \in SlotType /\ TakenFields(a, b, f, kind, key, deadline, inputs)
<1> USE DEF TakenFields
<1> DEFINE g == a.generation + 1
           refs == kind \in {"call", "map", "flatMap"}
           drives == kind = "driver"
<1>1. /\ TRUE \in BOOLEAN /\ "queued" \in States /\ f \in Ids \union {0}
      /\ refs \in BOOLEAN /\ drives \in BOOLEAN /\ g \in Nat
  BY DEF States, SlotType
<1>2. b = [a EXCEPT !.allocated = TRUE, !.generation = g, !.seq = f, !.kind = kind,
              !.state = "queued", !.deadline = deadline, !.inputs = inputs,
              !.key = key, !.handle = TRUE, !.call_refs = refs, !.driver_active = drives]
  BY Zenon DEF Taken
<1> HIDE DEF g, refs, drives
<1>3. b \in SlotType
  BY <1>1, <1>2, ZenonT(60) DEF SlotType
<1>4. /\ b.allocated = TRUE /\ b.generation = g /\ b.seq = f
           /\ b.kind = kind /\ b.state = "queued" /\ b.deadline = deadline
           /\ b.inputs = inputs /\ b.key = key /\ b.handle = TRUE
           /\ b.driver_active = drives
           /\ b.result = a.result /\ b.driver_started = a.driver_started
           /\ b.lane_waiting = a.lane_waiting /\ b.cancel_requested = a.cancel_requested
           /\ b.timer = a.timer /\ b.running = a.running /\ b.called = a.called
  BY <1>2 DEF SlotType
<1>5. QED
  BY <1>3, <1>4 DEF g, drives

\* A new Future f in slot s.
Takes(w, v, s, f, kind, key, deadline, inputs) ==
    /\ v \in World /\ Others(w, v, s)
    /\ v.slots[s] = Taken(w.slots[s], f, kind, key, deadline, inputs)
    /\ v.handles = [w.handles EXCEPT ![f] = Object(s, w.slots[s].generation + 1)]
    /\ v.native = [w.native EXCEPT ![f] = IF kind = "driver" THEN "captured" ELSE "none"]

\* The object of a new Future.
LEMMA ObjectIs ==
    ASSUME NEW s \in Slots, NEW g \in Nat
    PROVE  /\ Object(s, g) \in HandleType
           /\ Object(s, g).slot = s /\ Object(s, g).generation = g
           /\ Object(s, g).alive = TRUE /\ Object(s, g).terminal = FALSE
           /\ Object(s, g).state = "queued" /\ Object(s, g).by = 0
  BY DEF Object, HandleType, States

\* future_allocate_slot takes the slot for the next Future.
LEMMA AllocateGives ==
    ASSUME fut \in World, next \in Nat, next < MaxFutures,
           NEW s \in Slots,
           NEW kind \in AllKinds, NEW key \in Keys \union {NoKey}, NEW deadline \in BOOLEAN,
           NEW inputs \in Seq(Ids)
    PROVE  Takes(fut, AllocateSlot(s, kind, key, deadline, inputs), s, next + 1,
                 kind, key, deadline, inputs)
<1> DEFINE a == fut.slots[s]
           f == next + 1
           b == Taken(a, f, kind, key, deadline, inputs)
           h == Object(s, a.generation + 1)
           n == IF kind = "driver" THEN "captured" ELSE "none"
           u == Put(fut, s, b)
           v == [u EXCEPT !.handles[f] = h, !.native[f] = n]
<1>1. f \in Ids /\ a \in SlotType /\ a.generation + 1 \in Nat /\ n \in NativeStates
  BY WorldFields, FutureAssumption DEF SlotType, Ids, NativeStates
<1>2. b \in SlotType
  <2>1. b = Taken(a, f, kind, key, deadline, inputs)
    OBVIOUS
  <2> HIDE DEF a, b, f
  <2>2. QED
    BY <1>1, <2>1, TakenIs
<1>3. h \in HandleType
  BY <1>1, ObjectIs
<1>4. AllocateSlot(s, kind, key, deadline, inputs) = v
  BY Zenon DEF AllocateSlot, Taken, Object
<1> HIDE DEF b, h
<1>5. u \in World /\ u.native = fut.native /\ u.handles = fut.handles /\ u.slots[s] = b
      /\ \A t \in Slots : t # s => u.slots[t] = fut.slots[t]
  BY <1>2, PutIs
<1> HIDE DEF u
<1>6. v \in World /\ v.slots = u.slots /\ v.native = [fut.native EXCEPT ![f] = n]
      /\ v.handles = [fut.handles EXCEPT ![f] = h]
  <2> HIDE DEF f, n
  <2>1. QED
    BY <1>1, <1>3, <1>5 DEF World
<1> HIDE DEF v
<1>7. Others(fut, v, s) /\ v.slots[s] = b
  BY <1>5, <1>6 DEF Others
<1>8. QED
  BY <1>4, <1>6, <1>7 DEF Takes, b, h
-------------------------------------------------------------------------------
(* Objects and slots. *)

\* The slot of a Future knows its object ...
Held(w, f) ==
    LET a == w.slots[w.handles[f].slot] IN
    /\ w.handles[f].slot \in Slots /\ a.allocated
    /\ a.generation = w.handles[f].generation /\ a.handle

\* ... and every slot in use the object of its own Future, which is not settled
\* as long as the slot refers to it.
Linked(w, s) ==
    LET h == w.handles[w.slots[s].seq] IN
    w.slots[s].allocated =>
       /\ w.slots[s].seq \in Ids
       /\ h.slot = s /\ h.generation = w.slots[s].generation
       /\ w.slots[s].handle => h.alive /\ ~h.terminal
Leads(w, f) ==
    LET h == w.handles[f]
        a == w.slots[h.slot]
    IN h.slot \in Slots => /\ h.generation <= a.generation
                           /\ a.allocated /\ a.generation = h.generation => a.seq = f
Tracked(w) == (\A s \in Slots : Linked(w, s)) /\ (\A f \in Ids : Leads(w, f))

\* No object that is not settled lost its slot.
Wanted(w) == \A f \in Ids : w.handles[f].alive /\ ~w.handles[f].terminal => Held(w, f)

\* A callable or continuation that was called.
Begun(a) ==
    a.state # "queued" /\ (a.kind \in {"map", "flatMap"} => a.running \/ a.called)

\* What a step may do with a slot in use.
Goes(a, b) ==
    /\ b.generation = a.generation
    /\ b.allocated => /\ a.allocated /\ b.seq = a.seq
                      /\ b.handle => a.handle
                      /\ Begun(a) => Begun(b)
                      /\ b.state = "queued" => /\ a.state = "queued"
                                               /\ a.lane_waiting => b.lane_waiting
AllGo(w, v) == \A s \in Slots : Goes(w.slots[s], v.slots[s])

\* A step that creates no Future.
Tends(w, v) ==
    /\ v \in World /\ AllGo(w, v) /\ Tracked(v)
    /\ Wanted(w) => Wanted(v)

\* Doing nothing is such a step, and two of them are one.
LEMMA TendsSame == ASSUME NEW w \in World, Tracked(w) PROVE Tends(w, w)
  BY DEF Tends, AllGo, Goes

\* Two such steps are one.
LEMMA TendsChain ==
    ASSUME NEW w, NEW u, NEW v, Tends(w, u), Tends(u, v)
    PROVE  Tends(w, v)
  BY DEF Tends, AllGo, Goes

\* Bookkeeping in one slot.
LEMMA BookTends ==
    ASSUME NEW w \in World, Tracked(w), NEW v \in World, NEW s \in Slots, Others(w, v, s),
           v.handles = w.handles, Goes(w.slots[s], v.slots[s]),
           v.slots[s].allocated = w.slots[s].allocated, v.slots[s].seq = w.slots[s].seq,
           v.slots[s].handle = w.slots[s].handle
    PROVE  Tends(w, v)
<1>1. AllGo(w, v)
  BY DEF AllGo, Others, Goes
<1>2. \A t \in Slots : /\ v.slots[t].allocated = w.slots[t].allocated
                       /\ v.slots[t].seq = w.slots[t].seq
                       /\ v.slots[t].handle = w.slots[t].handle
                       /\ v.slots[t].generation = w.slots[t].generation
  BY DEF Others, Goes
<1>3. Tracked(v)
  <2>1. ASSUME NEW t \in Slots PROVE Linked(v, t)
    BY <1>2 DEF Tracked, Linked
  <2>2. ASSUME NEW f \in Ids PROVE Leads(v, f)
    BY <1>2 DEF Tracked, Leads
  <2>3. QED
    BY <2>1, <2>2 DEF Tracked
<1>4. Wanted(w) => Wanted(v)
  BY <1>2 DEF Wanted, Held
<1>5. QED
  BY <1>1, <1>3, <1>4 DEF Tends

\* What happens to native operations alone.
LEMMA NativeTends ==
    ASSUME NEW w \in World, Tracked(w), NEW v \in World, v.slots = w.slots, v.handles = w.handles
    PROVE  Tends(w, v)
  BY SMTT(30) DEF Tends, AllGo, Goes, Tracked, Linked, Leads, Wanted, Held

\* The end of a Future, or of a driver that outlived it.
Ending(w, v, s, st, r) ==
    /\ v \in World /\ Others(w, v, s)
    /\ v.handles = ToldIn(w, s, st, r)
    /\ ~v.slots[s].handle /\ Goes(w.slots[s], v.slots[s])

\* The end of a Future: only its own object lost its slot, and it is settled.
LEMMA EndingTends ==
    ASSUME NEW w \in World, Tracked(w), NEW v, NEW s \in Slots, NamedSlot(w.slots[s]),
           w.slots[s].allocated, NEW st \in States, NEW r \in Ids \union {0},
           Ending(w, v, s, st, r)
    PROVE  Tends(w, v)
<1> DEFINE f == w.slots[s].seq
<1>1. v \in World /\ Others(w, v, s) /\ AllGo(w, v)
  BY DEF Ending, AllGo, Others, Goes
<1>2. f \in Ids
  BY WorldFields DEF NamedSlot, SlotType
<1>3. /\ \A g \in Ids : g # f => v.handles[g] = w.handles[g]
      /\ v.handles[f].slot = w.handles[f].slot
      /\ v.handles[f].generation = w.handles[f].generation
      /\ v.handles[f].alive = w.handles[f].alive
      /\ w.slots[s].handle => v.handles[f].terminal = TRUE
      /\ ~w.slots[s].handle => v.handles[f].terminal = w.handles[f].terminal
  <2>1. v.handles = ToldIn(w, s, st, r)
    BY DEF Ending
  <2> DEFINE x == ToldIn(w, s, st, r)
  <2>2. ToldOK(w, x, s, st, r)
    BY ToldIs
  <2> HIDE DEF x
  <2>3. v.handles = x
    BY <2>1 DEF x
  <2>4. QED
    BY <2>2, <2>3 DEF ToldOK
<1>4. \A t \in Slots : /\ v.slots[t].generation = w.slots[t].generation
                       /\ v.slots[t].allocated => /\ w.slots[t].allocated
                                                  /\ v.slots[t].seq = w.slots[t].seq
  BY <1>1 DEF AllGo, Goes
<1>5. ~v.slots[s].handle
  BY DEF Ending
<1>6. ASSUME NEW t \in Slots PROVE Linked(v, t)
  <2> SUFFICES ASSUME v.slots[t].allocated PROVE Linked(v, t)
    BY DEF Linked
  <2>1. w.slots[t].allocated /\ v.slots[t].seq = w.slots[t].seq /\ Linked(w, t)
    BY <1>4 DEF Tracked
  <2>2. CASE t = s
    BY <1>3, <1>4, <1>5, <2>1, <2>2 DEF Linked
  <2>3. CASE t # s
    <3>1. v.slots[t] = w.slots[t] /\ Linked(w, s)
      BY <1>1, <2>3 DEF Others, Tracked
    <3>2. w.slots[t].seq # f /\ w.slots[t].seq \in Ids
      BY <2>1, <2>3, <3>1 DEF Linked
    <3>3. QED
      BY <1>3, <2>1, <3>1, <3>2 DEF Linked
  <2>4. QED
    BY <2>2, <2>3
<1>7. ASSUME NEW g \in Ids PROVE Leads(v, g)
  <2>1. v.handles[g].slot = w.handles[g].slot /\ v.handles[g].generation = w.handles[g].generation
    BY <1>3
  <2>2. Leads(w, g)
    BY DEF Tracked
  <2>3. QED
    BY <1>4, <2>1, <2>2 DEF Leads
<1>8. ASSUME Wanted(w), NEW g \in Ids, v.handles[g].alive, ~v.handles[g].terminal
      PROVE  Held(v, g)
  <2>1. w.handles[g].alive /\ ~w.handles[g].terminal
    <3>1. w.handles[g] \in HandleType /\ v.handles[g] \in HandleType /\ w.slots[s] \in SlotType
      BY <1>1, WorldFields
    <3>2. QED
      BY <1>3, <1>8, <3>1, WorldFields DEF Wanted, HandleType
  <2>2. Held(w, g)
    BY <1>8, <2>1 DEF Wanted
  <2>3. g # f \/ ~w.slots[s].handle
    BY <1>3, <1>8
  <2>4. w.handles[g].slot # s
    <3>1. Leads(w, g)
      BY DEF Tracked
    <3>2. SUFFICES ASSUME w.handles[g].slot = s PROVE FALSE
      OBVIOUS
    <3>3. w.slots[s].seq = g /\ w.slots[s].handle
      BY <2>2, <3>1, <3>2 DEF Held, Leads
    <3>4. QED
      BY <2>3, <3>3
  <2>5. v.handles[g].slot = w.handles[g].slot /\ v.handles[g].generation = w.handles[g].generation
    BY <1>3
  <2>6. v.slots[w.handles[g].slot] = w.slots[w.handles[g].slot]
    BY <1>1, <2>2, <2>4 DEF Held, Others
  <2>7. QED
    BY <2>2, <2>5, <2>6 DEF Held
<1>9. QED
  BY <1>1, <1>6, <1>7, <1>8 DEF Tends, Tracked, Wanted

\* An emptied slot is nobody's.
LEMMA EmptyGoes ==
    ASSUME NEW a \in SlotType
    PROVE  Goes(a, EmptySlot(a.generation)) /\ ~EmptySlot(a.generation).handle
  BY DEF Goes, EmptySlot

\* A Future that has ended, its driver gone or not.
LEMMA OverTends ==
    ASSUME NEW w \in World, Tracked(w), NEW v, NEW s \in Slots, NamedSlot(w.slots[s]),
           w.slots[s].allocated, NEW st \in Terminal, NEW r \in Ids \union {0},
           Over(w, v, s, st, r)
    PROVE  Tends(w, v)
<1> DEFINE a == w.slots[s]
           b == v.slots[s]
<1>1. a \in SlotType /\ st \in States /\ st # "queued"
  BY WorldFields DEF States, Terminal
<1>2. Goes(a, b) /\ ~b.handle
  <2>1. CASE b = EmptySlot(a.generation)
    BY <1>1, <2>1, EmptyGoes
  <2>2. CASE Left(a, b, st, r)
    BY <1>1, <2>2 DEF Left, Goes, Begun
  <2>3. QED
    BY <2>1, <2>2 DEF Over
<1>3. Ending(w, v, s, st, r)
  BY <1>2 DEF Ending, Over
<1>4. QED
  BY <1>1, <1>3, EndingTends

\* A Future that is published after its callable.
LEMMA ClosesTends ==
    ASSUME NEW w \in World, Tracked(w), NEW v, NEW s \in Slots, NamedSlot(w.slots[s]),
           w.slots[s].allocated, w.slots[s].state \in Terminal, Closes(w, v, s)
    PROVE  Tends(w, v)
<1> DEFINE a == w.slots[s]
           b == v.slots[s]
<1>1. a \in SlotType /\ a.state \in States /\ a.state # "queued" /\ a.result \in Ids \union {0}
  BY WorldFields DEF SlotType, Terminal
<1>2. Goes(a, b) /\ ~b.handle
  <2>1. CASE b = EmptySlot(a.generation)
    BY <1>1, <2>1, EmptyGoes
  <2>2. CASE b = Hush(a)
    BY <1>1, <2>2, HushIs, ZenonT(40) DEF Goes, Begun
  <2>3. QED
    BY <2>1, <2>2 DEF Closes
<1>3. Ending(w, v, s, a.state, a.result)
  BY <1>2 DEF Ending, Closes
<1>4. QED
  BY <1>1, <1>3, EndingTends

\* The object of Future f is gone; its slot no longer refers to it, and is empty
\* if it waited only for that.
Dropped(w, v, f) ==
    LET s == HandleSlot(w, f) IN
    /\ v \in World /\ v.native = w.native
    /\ \A g \in Ids : g # f => v.handles[g] = w.handles[g]
    /\ v.handles[f].slot = w.handles[f].slot
    /\ v.handles[f].generation = w.handles[f].generation
    /\ v.handles[f].alive = FALSE /\ v.handles[f].terminal = FALSE /\ v.handles[f].by = 0
    /\ IF s # NoSlot /\ w.slots[s].handle
       THEN /\ s \in Slots /\ Others(w, v, s)
            /\ v.slots[s] \in {Hush(w.slots[s]), EmptySlot(w.slots[s].generation)}
       ELSE v.slots = w.slots

\* future_finalizer forgets the object, and its slot if the Future is over.
LEMMA DropGives ==
    ASSUME NEW w \in World, NEW f \in Ids
    PROVE  Dropped(w, DropHandle(w, f), f)
<1> DEFINE s == HandleSlot(w, f)
           h == [w.handles[f] EXCEPT !.alive = FALSE, !.terminal = FALSE,
                                     !.state = "queued", !.by = 0]
           dead == [w EXCEPT !.handles[f] = [@ EXCEPT !.alive = FALSE, !.terminal = FALSE,
                                            !.state = "queued", !.by = 0]]
           b == [w.slots[s] EXCEPT !.handle = FALSE]
           u == Put(dead, s, b)
           e == EmptySlot(w.slots[s].generation)
<1>1. h \in HandleType /\ h.slot = w.handles[f].slot /\ h.generation = w.handles[f].generation
      /\ h.alive = FALSE /\ h.terminal = FALSE /\ h.by = 0
  <2>1. w.handles[f] \in HandleType /\ FALSE \in BOOLEAN /\ "queued" \in States
        /\ 0 \in Ids \union {0}
    BY WorldFields DEF States
  <2>2. h \in HandleType
    BY <2>1, Zenon DEF HandleType
  <2>3. QED
    BY <2>1, <2>2 DEF HandleType
<1>2. dead = [w EXCEPT !.handles[f] = h]
  BY Zenon
<1>3. DropHandle(w, f) = IF s # NoSlot /\ w.slots[s].handle THEN ReleaseIfTerminal(u, s)
                         ELSE dead
  BY Zenon DEF DropHandle
<1> HIDE DEF dead, h
<1>4. /\ dead \in World /\ dead.slots = w.slots /\ dead.native = w.native
      /\ dead.handles = [w.handles EXCEPT ![f] = h]
  BY <1>1, <1>2, HandleIs
<1>5. /\ \A g \in Ids : g # f => dead.handles[g] = w.handles[g]
      /\ dead.handles[f] = h
  BY <1>4, WorldFields
<1>6. CASE ~ (s # NoSlot /\ w.slots[s].handle)
  BY <1>1, <1>3, <1>4, <1>5, <1>6 DEF Dropped
<1>7. CASE s # NoSlot /\ w.slots[s].handle
  <2> DEFINE v == ReleaseIfTerminal(u, s)
  <2>1. s \in Slots
    BY <1>7, HandleLeads
  <2>2. b = Hush(w.slots[s])
    BY <1>7 DEF Hush
  <2>3. w.slots[s] \in SlotType
    BY <2>1, WorldFields
  <2>4. b \in SlotType /\ b.generation = w.slots[s].generation
    BY <2>2, <2>3, HushIs
  <2> HIDE DEF s, b
  <2>5. u \in World /\ u.native = w.native /\ u.handles = dead.handles /\ u.slots[s] = b
        /\ \A t \in Slots : t # s => u.slots[t] = w.slots[t]
    BY <1>4, <2>1, <2>4, PutIs
  <2> HIDE DEF u
  <2>6. e \in SlotType
    BY <2>3, EmptyIs DEF SlotType
  <2>7. v = u \/ v = Put(u, s, e)
    <3>1. ~u.slots[s].driver_active => ClearSlot(u, s) = Put(u, s, e)
      BY <2>4, <2>5 DEF ClearSlot, DestroyDriver
    <3>2. QED
      BY <3>1 DEF ReleaseIfTerminal
  <2> HIDE DEF e
  <2>8. /\ Put(u, s, e) \in World /\ Put(u, s, e).native = u.native
        /\ Put(u, s, e).handles = u.handles /\ Put(u, s, e).slots[s] = e
        /\ \A t \in Slots : t # s => Put(u, s, e).slots[t] = u.slots[t]
    BY <2>1, <2>5, <2>6, PutIs
  <2>9. v \in World /\ v.native = w.native /\ v.handles = dead.handles
        /\ v.slots[s] \in {b, e} /\ Others(w, v, s)
    BY <2>5, <2>7, <2>8 DEF Others
  <2>10. DropHandle(w, f) = v
    BY <1>3, <1>7
  <2> HIDE DEF v
  <2>11. QED
    BY <1>1, <1>5, <1>7, <2>1, <2>2, <2>9, <2>10 DEF Dropped, s, e
<1>8. QED
  BY <1>6, <1>7

\* A finalized object is no longer wanted.
LEMMA DropTends ==
    ASSUME NEW w \in World, Tracked(w), NEW f \in Ids, NEW v, Dropped(w, v, f)
    PROVE  Tends(w, v)
<1> DEFINE s == HandleSlot(w, f)
<1>0. v \in World
  BY DEF Dropped
<1>1. /\ \A g \in Ids : g # f => v.handles[g] = w.handles[g]
      /\ v.handles[f].slot = w.handles[f].slot
      /\ v.handles[f].generation = w.handles[f].generation
      /\ v.handles[f].alive = FALSE
  BY DEF Dropped
<1>2. ASSUME NEW t \in Slots
      PROVE  /\ Goes(w.slots[t], v.slots[t])
             /\ v.slots[t] # w.slots[t] => t = s /\ ~v.slots[t].handle
  <2>1. w.slots[t] \in SlotType
    BY WorldFields
  <2>2. CASE v.slots[t] = w.slots[t]
    BY <2>2 DEF Goes
  <2>3. CASE v.slots[t] # w.slots[t]
    <3>1. t = s /\ v.slots[t] \in {Hush(w.slots[t]), EmptySlot(w.slots[t].generation)}
      BY <2>3 DEF Dropped, Others
    <3>2. Goes(w.slots[t], Hush(w.slots[t])) /\ ~Hush(w.slots[t]).handle
      BY <2>1, HushIs DEF Goes, Begun
    <3>3. QED
      BY <2>1, <3>1, <3>2, EmptyGoes
  <2>4. QED
    BY <2>2, <2>3
<1>3. AllGo(w, v)
  BY <1>2 DEF AllGo
\* The slot that refers to the object of f is the one its handle leads to.
<1>4. ASSUME NEW t \in Slots, v.slots[t].allocated, v.slots[t].handle PROVE w.slots[t].seq # f
  <2> SUFFICES ASSUME w.slots[t].seq = f PROVE FALSE
    OBVIOUS
  <2>1. v.slots[t] = w.slots[t]
    BY <1>2, <1>4
  <2>2. /\ w.handles[f].slot = t /\ w.handles[f].generation = w.slots[t].generation
        /\ ~w.handles[f].terminal
    BY <1>4, <2>1 DEF Tracked, Linked
  <2>3. t # NoSlot
    BY NumbersAre
  <2>4. HandleSlot(w, f) = t
    BY <1>4, <2>1, <2>2, <2>3 DEF HandleSlot, ResolveToken
  <2>5. ~v.slots[t].handle
    <3>1. /\ w.slots[t] \in SlotType
          /\ v.slots[t] \in {Hush(w.slots[t]), EmptySlot(w.slots[t].generation)}
      BY <1>4, <2>1, <2>3, <2>4, WorldFields DEF Dropped
    <3>2. QED
      BY <3>1, HushIs, EmptyGoes
  <2>6. QED
    BY <1>4, <2>5
<1>5. ASSUME NEW t \in Slots, v.slots[t].allocated PROVE Linked(v, t)
  <2>1. /\ w.slots[t].allocated /\ v.slots[t].seq = w.slots[t].seq
        /\ v.slots[t].generation = w.slots[t].generation
        /\ v.slots[t].handle => w.slots[t].handle
    BY <1>2, <1>5 DEF Goes
  <2>2. Linked(w, t)
    BY DEF Tracked
  <2>3. CASE w.slots[t].seq = f
    BY <1>1, <1>4, <1>5, <2>1, <2>2, <2>3 DEF Linked
  <2>4. CASE w.slots[t].seq # f
    BY <1>1, <2>1, <2>2, <2>4 DEF Linked
  <2>5. QED
    BY <2>3, <2>4
<1>6. ASSUME NEW g \in Ids PROVE Leads(v, g)
  <2>1. v.handles[g].slot = w.handles[g].slot /\ v.handles[g].generation = w.handles[g].generation
    BY <1>1
  <2>2. Leads(w, g)
    BY DEF Tracked
  <2>3. QED
    BY <1>3, <2>1, <2>2 DEF Leads, AllGo, Goes
<1>7. ASSUME Wanted(w), NEW g \in Ids, v.handles[g].alive, ~v.handles[g].terminal
      PROVE  Held(v, g)
  <2>1. g # f /\ v.handles[g] = w.handles[g]
    BY <1>1, <1>7
  <2>2. Held(w, g)
    BY <1>7, <2>1 DEF Wanted
  <2> DEFINE t == w.handles[g].slot
  <2>3. t \in Slots /\ w.slots[t].allocated /\ w.slots[t].seq = g
    BY <2>2 DEF Held, Tracked, Leads
  <2>4. v.slots[t] = w.slots[t]
    <3> SUFFICES ASSUME v.slots[t] # w.slots[t] PROVE FALSE
      OBVIOUS
    <3>1. t = s /\ s # NoSlot
      BY <1>2, <2>3, NumbersAre
    <3>2. w.handles[f].slot = t /\ w.slots[t].generation = w.handles[f].generation
      BY <3>1 DEF HandleSlot, ResolveToken
    <3>3. w.slots[t].seq = f
      BY <2>3, <3>2 DEF Tracked, Leads
    <3>4. QED
      BY <2>1, <2>3, <3>3
  <2>5. QED
    BY <2>1, <2>2, <2>4 DEF Held
<1>8. \A t \in Slots : Linked(v, t)
  BY <1>5 DEF Linked
<1>9. QED
  BY <1>0, <1>3, <1>6, <1>7, <1>8 DEF Tends, Tracked, Wanted
-------------------------------------------------------------------------------
(* Tokens in the queue of submissions. *)

\* No token is ahead of its slot, and none is there twice.
Tokens(w, q) == \A i \in 1 .. Len(q) : q[i].generation <= w.slots[q[i].slot].generation
Distinct(q) == \A i, j \in 1 .. Len(q) : q[i] = q[j] => i = j

\* A slot that is queued waits for its lane or has its token in the queue.
Sent(q, t) == \E i \in 1 .. Len(q) : q[i] = t
Queued(w, q) ==
    \A s \in Slots : w.slots[s].allocated /\ w.slots[s].state = "queued" =>
       w.slots[s].lane_waiting \/ Sent(q, Token(w, s))

\* The k-th position has k of them up to it, so no two are the same; and every
\* position is the k-th for some k.
LEMMA PositionsAre ==
    ASSUME NEW m \in Nat, NEW S, S \subseteq 1 .. m
    PROVE  /\ \A k \in 1 .. Cardinality(S) : Count(S, Position(S, k)) = k
           /\ \A i \in S : /\ Count(S, i) \in 1 .. Cardinality(S)
                           /\ Position(S, Count(S, i)) = i
<1>0. /\ Cardinality(S) \in Nat /\ \A n \in Nat : Count(S, n) \in Nat
      /\ Count(S, m) = Cardinality(S)
  BY CountIs
<1>1. IsFiniteSet(S)
  <2>1. IsFiniteSet(1 .. m) /\ S \in SUBSET (1 .. m)
    BY FS_Interval
  <2>2. QED
    BY <2>1, FS_Subset
<1>2. \A i \in S : i \in Nat /\ i \in 1 .. m
  OBVIOUS
<1>3. ASSUME NEW i \in S, NEW j \in S, Count(S, i) = Count(S, j) PROVE i = j
  <2>1. \A x, n : x \in Upto(S, n) <=> x \in S /\ x <= n
    BY DEF Upto
  <2>2. ASSUME NEW x \in S, NEW y \in S, x < y PROVE Count(S, x) # Count(S, y)
    <3>1. Upto(S, x) \in SUBSET Upto(S, y) /\ IsFiniteSet(Upto(S, y))
      <4>1. \A z \in Upto(S, x) : z \in Upto(S, y)
        <5> TAKE z \in Upto(S, x)
        <5>1. z \in S /\ z <= x
          BY <2>1
        <5>2. z \in Nat /\ x \in Nat /\ y \in Nat
          BY <1>2, <5>1
        <5>3. z <= y
          BY <2>2, <5>1, <5>2
        <5>4. QED
          BY <2>1, <5>1, <5>3
      <4>2. Upto(S, y) \subseteq S
        BY <2>1
      <4>3. QED
        BY <1>1, <4>1, <4>2, FS_Subset
    <3>2. y \in Upto(S, y) /\ y \notin Upto(S, x)
      BY <1>2, <2>1, <2>2
    <3>3. QED
      BY <3>1, <3>2, FS_Subset DEF Count
  <2>3. i < j \/ j < i \/ i = j
    BY <1>2
  <2>4. QED
    BY <1>3, <2>2, <2>3
<1>4. ASSUME NEW i \in S PROVE Count(S, i) \in 1 .. Cardinality(S)
  <2>1. i \in Upto(S, i) /\ Upto(S, i) \in SUBSET S
    BY <1>2 DEF Upto
  <2>2. IsFiniteSet(Upto(S, i)) /\ Count(S, i) <= Cardinality(S)
    BY <1>1, <2>1, FS_Subset DEF Count
  <2>3. Count(S, i) # 0
    <3>1. Count(S, i) = 0 => Upto(S, i) = {}
      BY <2>2, FS_EmptySet DEF Count
    <3>2. QED
      BY <2>1, <3>1
  <2>4. QED
    BY <1>0, <1>2, <2>2, <2>3
<1>5. ASSUME NEW k, \E i \in S : Count(S, i) = k
      PROVE  Position(S, k) \in S /\ Count(S, Position(S, k)) = k
  <2>1. Position(S, k) = CHOOSE i \in S : Count(S, i) = k
    BY Zenon DEF Position, Count, Upto
  <2>2. QED
    BY <1>5, <2>1
<1>6. \A k \in 1 .. Cardinality(S) : Count(S, Position(S, k)) = k
  BY PositionIs
<1>7. ASSUME NEW i \in S PROVE Position(S, Count(S, i)) = i
  <2>1. Position(S, Count(S, i)) \in S
        /\ Count(S, Position(S, Count(S, i))) = Count(S, i)
    BY <1>5
  <2>2. QED
    BY <1>3, <2>1
<1>8. QED
  BY <1>4, <1>6, <1>7

\* Compaction keeps the tokens of the positions S, each once.
LEMMA CompactKeeps ==
    ASSUME NEW q \in Seq(TokenType), NEW S, S \subseteq DOMAIN q
    PROVE  /\ Compact(q, S) \in Seq(TokenType) /\ Len(Compact(q, S)) \in Nat
           /\ \A k \in 1 .. Len(Compact(q, S)) : \E i \in S : Compact(q, S)[k] = q[i]
           /\ \A i \in S : Sent(Compact(q, S), q[i])
           /\ Distinct(q) => Distinct(Compact(q, S))
<1> DEFINE n == Cardinality(S)
           c == Compact(q, S)
<1>1. DOMAIN q = 1 .. Len(q) /\ Len(q) \in Nat /\ \A i \in 1 .. Len(q) : q[i] \in TokenType
  OBVIOUS
<1>2. n \in Nat
  BY <1>1, CountIs
<1>3. \A k \in 1 .. n : Position(S, k) \in S /\ Count(S, Position(S, k)) = k
  BY <1>1, PositionIs
<1>4. \A i \in S : Count(S, i) \in 1 .. n /\ Position(S, Count(S, i)) = i
  BY <1>1, PositionsAre
<1>5. c = [k \in 1 .. n |-> q[Position(S, k)]]
  BY DEF Compact
<1> HIDE DEF n, c
<1>6. \A k \in 1 .. n : c[k] = q[Position(S, k)]
  BY <1>5
<1>7. c \in [1 .. n -> TokenType]
  BY <1>1, <1>3, <1>5
<1>8. c \in Seq(TokenType) /\ Len(c) = n
  BY <1>2, <1>7
<1>9. \A k \in 1 .. Len(c) : \E i \in S : c[k] = q[i]
  BY <1>3, <1>6, <1>8
<1>10. \A i \in S : Sent(c, q[i])
  BY <1>4, <1>6, <1>8 DEF Sent
<1>11. ASSUME Distinct(q), NEW j \in 1 .. Len(c), NEW k \in 1 .. Len(c), c[j] = c[k] PROVE j = k
  <2>1. Position(S, j) \in 1 .. Len(q) /\ Position(S, k) \in 1 .. Len(q)
    BY <1>1, <1>3, <1>8
  <2>2. q[Position(S, j)] = q[Position(S, k)]
    BY <1>6, <1>8, <1>11
  <2>3. Position(S, j) = Position(S, k)
    BY <1>11, <2>1, <2>2 DEF Distinct
  <2>4. QED
    BY <1>3, <1>8, <2>3
<1>12. QED
  BY <1>2, <1>8, <1>9, <1>10, <1>11 DEF c, Distinct

\* Appending a token to a queue that lacks it.
LEMMA AppendIs ==
    ASSUME NEW q \in Seq(TokenType), NEW t \in TokenType
    PROVE  /\ Sent(Append(q, t), t)
           /\ \A x : Sent(q, x) => Sent(Append(q, t), x)
           /\ Distinct(q) /\ ~Sent(q, t) => Distinct(Append(q, t))
           /\ \A w : Tokens(w, q) /\ t.generation <= w.slots[t.slot].generation
                    => Tokens(w, Append(q, t))
<1> DEFINE c == Append(q, t)
<1>1. Len(q) \in Nat /\ Len(c) = Len(q) + 1
      /\ \A i \in 1 .. Len(q) + 1 : c[i] = IF i <= Len(q) THEN q[i] ELSE t
  OBVIOUS
<1> HIDE DEF c
<1>2. \A i \in 1 .. Len(c) :
         (i \in 1 .. Len(q) /\ c[i] = q[i]) \/ (i = Len(c) /\ c[i] = t)
  BY <1>1
<1>3. Len(c) \in 1 .. Len(c) /\ c[Len(c)] = t
  BY <1>1
<1>4. \A i \in 1 .. Len(q) : i \in 1 .. Len(c) /\ c[i] = q[i]
  BY <1>1
<1>5. Sent(c, t) /\ \A x : Sent(q, x) => Sent(c, x)
  BY <1>3, <1>4 DEF Sent
<1>6. Distinct(q) /\ ~Sent(q, t) => Distinct(c)
  BY <1>2 DEF Distinct, Sent
<1>7. \A w : Tokens(w, q) /\ t.generation <= w.slots[t.slot].generation => Tokens(w, c)
  BY <1>2 DEF Tokens
<1>8. QED
  BY <1>5, <1>6, <1>7 DEF c

\* The table is finite.
LEMMA SlotsFinite == IsFiniteSet(Slots) /\ Capacity = Cardinality(Slots)
<1>1. 0 \in Int /\ UserSlots + Reserve - 1 \in Int
  BY NumbersAre
<1>2. QED
  BY <1>1, FS_Interval DEF Slots, Capacity

\* Tokens that lead to different slots, none of them s, do not fill the queue.
LEMMA Room ==
    ASSUME NEW c \in Seq(TokenType), NEW s \in Slots,
           \A k \in 1 .. Len(c) : c[k].slot # s,
           \A j, k \in 1 .. Len(c) : c[j].slot = c[k].slot => j = k
    PROVE  Len(c) < Capacity
<1>0. Len(c) \in Nat
  OBVIOUS
<1> DEFINE P == 1 .. Len(c)
           T == Slots \ {s}
           g == [k \in P |-> c[k].slot]
<1>1. IsFiniteSet(P) /\ Cardinality(P) = Len(c)
  BY <1>0, FS_Interval
<1>2. IsFiniteSet(T) /\ Cardinality(T) = Capacity - 1 /\ Capacity \in Nat
  BY SlotsFinite, CapacityIs, FS_RemoveElement
<1>3. g \in [P -> T]
  <2>1. \A k \in P : c[k] \in TokenType
    OBVIOUS
  <2>2. QED
    BY <2>1 DEF TokenType
<1>4. ~ (Cardinality(T) < Cardinality(P))
  <2> SUFFICES ASSUME Cardinality(T) < Cardinality(P) PROVE FALSE
    OBVIOUS
  <2> HIDE DEF P, T, g
  <2>1. \E x, y \in P : x # y /\ g[x] = g[y]
    BY <1>1, <1>2, <1>3, FS_PigeonHole
  <2>2. QED
    BY <2>1 DEF P, g
<1> HIDE DEF P, T, g
<1>5. QED
  BY <1>0, <1>1, <1>2, <1>4

\* The positions whose tokens a full queue keeps.
Alive(w, q) == {i \in DOMAIN q : /\ ResolveToken(w, q[i]) # NoSlot
                                 /\ w.slots[q[i].slot].state = "queued"}
Kept(w, q) == IF Len(q) < Capacity THEN q ELSE Compact(q, Alive(w, q))

\* The queue q after the token of slot s was sent.
Enqueued(w, s, q) ==
    /\ q = Append(Kept(w, submissions), Token(w, s))
    /\ Distinct(q) /\ Tokens(w, q) /\ Sent(q, Token(w, s))
    /\ \A t \in Slots : /\ t # s /\ fut.slots[t].allocated /\ fut.slots[t].state = "queued"
                        /\ Sent(submissions, Token(fut, t))
                        => Sent(q, Token(w, t))

\* A token is always accepted, and the tokens of queued Futures stay.
LEMMA EnqueueKeeps ==
    ASSUME fut \in World, QueuesOK, Tokens(fut, submissions), Distinct(submissions),
           NEW w \in World, NEW s \in Slots, Others(fut, w, s),
           w.slots[s].generation = fut.slots[s].generation + 1
    PROVE  Enqueued(w, s, Enqueue(w, Token(w, s)))
<1> DEFINE live == Alive(w, submissions)
           c == Compact(submissions, live)
           kept == Kept(w, submissions)
           x == Token(w, s)
<1>1. submissions \in Seq(TokenType) /\ Len(submissions) \in Nat
      /\ \A i \in 1 .. Len(submissions) : submissions[i] \in TokenType
      /\ DOMAIN submissions = 1 .. Len(submissions)
  BY DEF QueuesOK
<1>2. Enqueue(w, x) = IF Len(kept) < Capacity THEN Append(kept, x) ELSE kept
  BY Zenon DEF Enqueue, Kept, Alive
<1>3. live \subseteq DOMAIN submissions
  BY DEF Alive
<1>4. \A i \in live : /\ i \in 1 .. Len(submissions)
                      /\ w.slots[submissions[i].slot].allocated
                      /\ w.slots[submissions[i].slot].generation = submissions[i].generation
                      /\ w.slots[submissions[i].slot].state = "queued"
  BY <1>1 DEF Alive, ResolveToken
<1>5. \A i \in 1 .. Len(submissions) :
         /\ w.slots[submissions[i].slot].allocated
         /\ w.slots[submissions[i].slot].generation = submissions[i].generation
         /\ w.slots[submissions[i].slot].state = "queued"
         => i \in live
  BY <1>1, NumbersAre DEF Alive, ResolveToken, TokenType
<1> HIDE DEF live
<1>6. /\ c \in Seq(TokenType) /\ Len(c) \in Nat
      /\ \A k \in 1 .. Len(c) : \E i \in live : c[k] = submissions[i]
      /\ \A i \in live : Sent(c, submissions[i])
      /\ Distinct(c)
  BY <1>1, <1>3, CompactKeeps
<1> HIDE DEF c
<1>7. \A t \in Slots : t # s => w.slots[t] = fut.slots[t] /\ Token(w, t) = Token(fut, t)
  BY DEF Others, Token
<1>8. \A t \in Slots : w.slots[t].generation \in Nat /\ fut.slots[t].generation \in Nat
  BY WorldFields DEF SlotType
<1>9. \A i \in 1 .. Len(submissions) :
         /\ submissions[i].generation <= w.slots[submissions[i].slot].generation
         /\ submissions[i].slot = s => submissions[i].generation < w.slots[s].generation
  <2> TAKE i \in 1 .. Len(submissions)
  <2>1. submissions[i].slot \in Slots /\ submissions[i].generation \in Nat
    BY <1>1 DEF TokenType
  <2>2. submissions[i].generation <= fut.slots[submissions[i].slot].generation
    BY DEF Tokens
  <2>3. CASE submissions[i].slot = s
    BY <1>8, <2>1, <2>2, <2>3
  <2>4. CASE submissions[i].slot # s
    BY <1>7, <2>1, <2>2, <2>4
  <2>5. QED
    BY <2>3, <2>4
<1>10. kept \in Seq(TokenType) /\ Len(kept) < Capacity
  <2>1. CASE Len(submissions) < Capacity
    BY <1>1, <2>1 DEF Kept
  <2>2. CASE ~ (Len(submissions) < Capacity)
    <3>1. kept = c
      BY <2>2 DEF Kept, c, live
    <3>2. ASSUME NEW k \in 1 .. Len(c)
          PROVE  /\ c[k] \in TokenType /\ c[k].slot # s
                 /\ c[k].generation = w.slots[c[k].slot].generation
      <4>1. PICK i \in live : c[k] = submissions[i]
        BY <1>6
      <4>2. QED
        BY <1>1, <1>4, <1>8, <1>9, <4>1 DEF TokenType
    <3>3. ASSUME NEW j \in 1 .. Len(c), NEW k \in 1 .. Len(c), c[j].slot = c[k].slot PROVE j = k
      <4>1. c[j] = c[k]
        BY <3>2, <3>3 DEF TokenType
      <4>2. QED
        BY <1>6, <4>1 DEF Distinct
    <3>4. Len(c) < Capacity
      BY <1>6, <3>2, <3>3, Room
    <3>5. QED
      BY <1>6, <3>1, <3>4
  <2>3. QED
    BY <2>1, <2>2
<1>11. \A k \in 1 .. Len(kept) : \E i \in 1 .. Len(submissions) : kept[k] = submissions[i]
  BY <1>4, <1>6 DEF Kept, c, live
<1>12. Distinct(kept) /\ Tokens(w, kept) /\ ~Sent(kept, x)
  <2>1. Distinct(kept)
    BY <1>6 DEF Kept, c, live
  <2>2. Tokens(w, kept)
    BY <1>9, <1>11 DEF Tokens
  <2>3. ~Sent(kept, x)
    <3> SUFFICES ASSUME NEW k \in 1 .. Len(kept), kept[k] = x PROVE FALSE
      BY DEF Sent
    <3>1. PICK i \in 1 .. Len(submissions) : submissions[i] = x
      BY <1>11
    <3>2. submissions[i].slot = s /\ submissions[i].generation = w.slots[s].generation
      BY <3>1 DEF Token
    <3>3. submissions[i].generation < w.slots[s].generation
      BY <1>9, <3>2
    <3>4. QED
      BY <1>8, <3>2, <3>3
  <2>4. QED
    BY <2>1, <2>2, <2>3
<1>13. ASSUME NEW t \in Slots, t # s, fut.slots[t].allocated, fut.slots[t].state = "queued",
              Sent(submissions, Token(fut, t))
       PROVE  Sent(kept, Token(w, t))
  <2>1. PICK i \in 1 .. Len(submissions) : submissions[i] = Token(fut, t)
    BY <1>13 DEF Sent
  <2>2. submissions[i].slot = t /\ submissions[i].generation = fut.slots[t].generation
        /\ Token(w, t) = submissions[i] /\ w.slots[t] = fut.slots[t]
    BY <1>7, <1>13, <2>1 DEF Token
  <2>3. CASE Len(submissions) < Capacity
    BY <2>2, <2>3 DEF Kept, Sent
  <2>4. CASE ~ (Len(submissions) < Capacity)
    <3>1. i \in live
      BY <1>5, <1>13, <2>2
    <3>2. QED
      BY <1>6, <2>2, <2>4, <3>1 DEF Kept, c, live
  <2>5. QED
    BY <2>3, <2>4
<1>14. x \in TokenType /\ x.slot = s /\ x.generation = w.slots[s].generation
  BY TokenIs DEF Token
<1> HIDE DEF kept, x
<1>15. /\ Sent(Append(kept, x), x) /\ \A y : Sent(kept, y) => Sent(Append(kept, x), y)
       /\ Distinct(Append(kept, x))
  BY <1>10, <1>12, <1>14, AppendIs
<1>16. Tokens(w, Append(kept, x))
  <2>1. x.generation <= w.slots[x.slot].generation
    BY <1>8, <1>14
  <2>2. QED
    BY <1>10, <1>12, <1>14, <2>1, AppendIs
<1>17. Enqueue(w, x) = Append(kept, x)
  BY <1>2, <1>10
<1>18. QED
  BY <1>13, <1>15, <1>16, <1>17 DEF Enqueued, kept, x
-------------------------------------------------------------------------------
(* What is running. *)

\* A callable or continuation on the stack was called for its Future once.
Runs(w, st, n) ==
    /\ \A i \in 1 .. Len(st) : st[i].run <= n
    /\ \A i \in 1 .. Len(st), s \in Slots :
          /\ st[i].run # 0
          /\ w.slots[s].allocated /\ w.slots[s].seq = st[i].run
          => Begun(w.slots[s])
    /\ \A i, j \in 1 .. Len(st) : st[i].run = st[j].run => i = j \/ st[i].run = 0

\* A stack on which nothing new runs.
Calms(st, tt) ==
    \A i \in 1 .. Len(tt) : tt[i].run = 0 \/ (i \in 1 .. Len(st) /\ tt[i].run = st[i].run)

\* A stack whose innermost activation calls something for the Future f.
Calling(st, tt, f) ==
    /\ Len(tt) = Len(st) /\ Len(st) \in 1 .. Len(st)
    /\ \A i \in 1 .. Len(tt) : tt[i].run = IF i = Len(st) THEN f ELSE st[i].run

\* What runs was called, after a step that calls nothing ...
LEMMA CalmRuns ==
    ASSUME NEW w, NEW v, AllGo(w, v), NEW st \in Seq(FrameType), NEW tt, Calms(st, tt),
           NEW n \in Nat, Runs(w, st, n)
    PROVE  Runs(v, tt, n)
<1>1. \A i \in 1 .. Len(tt) : tt[i].run <= n
  BY DEF Runs, Calms
<1>2. ASSUME NEW i \in 1 .. Len(tt), NEW s \in Slots, tt[i].run # 0,
             v.slots[s].allocated, v.slots[s].seq = tt[i].run
      PROVE  Begun(v.slots[s])
  <2>1. i \in 1 .. Len(st) /\ tt[i].run = st[i].run
    BY <1>2 DEF Calms
  <2>2. Goes(w.slots[s], v.slots[s])
    BY DEF AllGo
  <2>3. w.slots[s].allocated /\ w.slots[s].seq = v.slots[s].seq
        /\ (Begun(w.slots[s]) => Begun(v.slots[s]))
    BY <1>2, <2>2 DEF Goes
  <2>4. QED
    BY <1>2, <2>1, <2>3 DEF Runs
<1>3. \A i, j \in 1 .. Len(tt) : tt[i].run = tt[j].run => i = j \/ tt[i].run = 0
  BY DEF Runs, Calms
<1>4. QED
  BY <1>1, <1>2, <1>3 DEF Runs

\* ... and after one that calls something not called before.
LEMMA CallRuns ==
    ASSUME NEW w \in World, NEW v, AllGo(w, v), NEW st, NEW tt, NEW n \in Nat, Runs(w, st, n),
           NEW s \in Slots, w.slots[s].allocated, Unique(w), w.slots[s].seq <= n,
           ~Begun(w.slots[s]), Begun(v.slots[s]), Calling(st, tt, w.slots[s].seq)
    PROVE  Runs(v, tt, n)
<1> DEFINE f == w.slots[s].seq
<1>1. \A i \in 1 .. Len(tt) : tt[i].run <= n
  BY DEF Runs, Calling
<1>2. \A i \in 1 .. Len(st) : st[i].run = f => f = 0
  BY DEF Runs
<1>3. ASSUME NEW i \in 1 .. Len(tt), NEW t \in Slots, tt[i].run # 0,
             v.slots[t].allocated, v.slots[t].seq = tt[i].run
      PROVE  Begun(v.slots[t])
  <2>1. w.slots[t].allocated /\ w.slots[t].seq = v.slots[t].seq
        /\ (Begun(w.slots[t]) => Begun(v.slots[t]))
    BY <1>3 DEF AllGo, Goes
  <2>2. CASE tt[i].run = f
    <3>1. t = s
      BY <1>3, <2>1, <2>2 DEF Unique
    <3>2. QED
      BY <3>1
  <2>3. CASE tt[i].run # f
    <3>1. i \in 1 .. Len(st) /\ tt[i].run = st[i].run
      BY <2>3 DEF Calling
    <3>2. QED
      BY <1>3, <2>1, <3>1 DEF Runs
  <2>4. QED
    BY <2>2, <2>3
<1>4. \A i, j \in 1 .. Len(tt) : tt[i].run = tt[j].run => i = j \/ tt[i].run = 0
  BY <1>2 DEF Runs, Calling
<1>5. QED
  BY <1>1, <1>3, <1>4 DEF Runs

\* The stack after a push, a pop or a change of its innermost activation.
LEMMA CalmSame == ASSUME NEW st PROVE Calms(st, st)
  BY DEF Calms

\* Changing the innermost activation, moving on, pushing, popping.
LEMMA CalmTop ==
    ASSUME StackOK(stack), NEW a, SetTop(a), a.run = 0 \/ a.run = Top.run
    PROVE  Calms(stack, stack')
<1>1. Len(stack) \in 1 .. Len(stack) /\ stack \in Seq(FrameType)
  BY TopIs DEF StackOK
<1>2. Len(stack') = Len(stack)
      /\ \A i \in 1 .. Len(stack) : stack'[i] = IF i = Len(stack) THEN a ELSE stack[i]
  BY <1>1 DEF SetTop
<1>3. QED
  BY <1>1, <1>2 DEF Calms, Top

\* Moving on,
LEMMA CalmMove ==
    ASSUME StackOK(stack), NEW phase, NEW n, Move(phase, n)
    PROVE  Calms(stack, stack')
<1> DEFINE a == [Top EXCEPT !.phase = phase, !.n = n]
<1>1. Top \in FrameType
  BY TopIs
<1>2. a.run = Top.run /\ SetTop(a)
  BY <1>1 DEF FrameType, Move
<1> HIDE DEF a
<1>3. QED
  BY <1>2, CalmTop

\* pushing,
LEMMA CalmPush ==
    ASSUME StackOK(stack), NEW a, Push(a), a.run = 0
    PROVE  Calms(stack, stack')
<1>1. stack \in Seq(FrameType) /\ Len(stack) \in Nat
  BY DEF StackOK
<1>2. Len(stack') = Len(stack) + 1
      /\ \A i \in 1 .. Len(stack) + 1 : stack'[i] = IF i <= Len(stack) THEN stack[i] ELSE a
  BY <1>1 DEF Push
<1>3. QED
  BY <1>1, <1>2 DEF Calms

\* and popping, with nothing new called.
LEMMA CalmPop ==
    ASSUME StackOK(stack), Len(stack) > 1, stack' = SubSeq(stack, 1, Len(stack) - 1)
    PROVE  Calms(stack, stack')
<1>1. stack \in Seq(FrameType) /\ Len(stack) \in Nat
  BY DEF StackOK
<1>2. Len(stack') = Len(stack) - 1 /\ \A i \in 1 .. Len(stack) - 1 : stack'[i] = stack[i]
  BY <1>1
<1>3. QED
  BY <1>1, <1>2 DEF Calms

\* Calling.
LEMMA CallTop ==
    ASSUME StackOK(stack), NEW a, SetTop(a)
    PROVE  Calling(stack, stack', a.run)
<1>1. Len(stack) \in 1 .. Len(stack) /\ stack \in Seq(FrameType)
  BY TopIs DEF StackOK
<1>2. Len(stack') = Len(stack)
      /\ \A i \in 1 .. Len(stack) : stack'[i] = IF i = Len(stack) THEN a ELSE stack[i]
  BY <1>1 DEF SetTop
<1>3. QED
  BY <1>1, <1>2 DEF Calling
-------------------------------------------------------------------------------
(* The invariant of the Futures that wait. *)

Fit(w, q, st, n) == Tracked(w) /\ Tokens(w, q) /\ Distinct(q) /\ Runs(w, st, n)
Waited(w, q) == Wanted(w) /\ Queued(w, q)
AInv == /\ Fit(fut, submissions, stack, next)
        /\ shutting_down \/ Waited(fut, submissions)

\* The invariant of the next state, put together.
LEMMA Fits ==
    ASSUME Fit(fut', submissions', stack', next'),
           shutting_down' \/ Waited(fut', submissions')
    PROVE  AInv'
<1>1. Fit(fut, submissions, stack, next)'
  BY DEF Fit, Tracked, Linked, Leads, Tokens, Distinct, Runs, Begun
<1>2. (shutting_down \/ Waited(fut, submissions))'
  BY DEF Waited, Wanted, Held, Queued, Sent, Token
<1>3. QED
  BY <1>1, <1>2 DEF AInv

\* Tokens stay good when generations only grow.
LEMMA TokensStay ==
    ASSUME NEW w \in World, NEW v, AllGo(w, v), NEW q \in Seq(TokenType)
    PROVE  /\ Tokens(w, q) => Tokens(v, q)
           /\ Queued(w, q) => Queued(v, q)
<1>1. \A s \in Slots : Goes(w.slots[s], v.slots[s])
  BY DEF AllGo
<1>2. \A i \in 1 .. Len(q) : q[i].slot \in Slots
  <2>1. \A i \in 1 .. Len(q) : q[i] \in TokenType
    OBVIOUS
  <2>2. QED
    BY <2>1 DEF TokenType
<1>3. Tokens(w, q) => Tokens(v, q)
  BY <1>1, <1>2 DEF Tokens, Goes
<1>4. ASSUME Queued(w, q), NEW s \in Slots, v.slots[s].allocated, v.slots[s].state = "queued"
      PROVE  v.slots[s].lane_waiting \/ Sent(q, Token(v, s))
  <2>1. /\ w.slots[s].allocated /\ w.slots[s].state = "queued"
        /\ w.slots[s].lane_waiting => v.slots[s].lane_waiting
        /\ v.slots[s].generation = w.slots[s].generation
    BY <1>1, <1>4 DEF Goes
  <2>2. Token(v, s) = Token(w, s)
    BY <2>1 DEF Token
  <2>3. QED
    BY <1>4, <2>1, <2>2 DEF Queued
<1>5. QED
  BY <1>3, <1>4 DEF Queued

\* A step that creates no Future, starts no callable and takes no submission.
LEMMA TendFits ==
    ASSUME IInv, AInv, Tends(fut, fut'), Calms(stack, stack'),
           UNCHANGED <<next, submissions, shutting_down>>
    PROVE  AInv'
<1>1. fut \in World /\ submissions \in Seq(TokenType) /\ stack \in Seq(FrameType) /\ next \in Nat
  BY DEF IInv, QueuesOK, StackOK, RestOK
<1>2. AllGo(fut, fut') /\ Tracked(fut') /\ (Wanted(fut) => Wanted(fut'))
  BY DEF Tends
<1>3. Tokens(fut', submissions) /\ (Queued(fut, submissions) => Queued(fut', submissions))
  BY <1>1, <1>2, TokensStay DEF AInv, Fit
<1>4. Runs(fut', stack', next)
  BY <1>1, <1>2, CalmRuns DEF AInv, Fit
<1>5. Fit(fut', submissions', stack', next')
  BY <1>2, <1>3, <1>4 DEF AInv, Fit
<1>6. shutting_down' \/ Waited(fut', submissions')
  BY <1>2, <1>3 DEF AInv, Waited
<1>7. QED
  BY <1>5, <1>6, Fits

\* A step that calls something for the Future in slot s.
LEMMA CallFits ==
    ASSUME IInv, AInv, Tends(fut, fut'), NEW s \in Slots, fut.slots[s].allocated,
           ~Begun(fut.slots[s]), Begun(fut'.slots[s]), Calling(stack, stack', fut.slots[s].seq)
    PROVE  Runs(fut', stack', next)
<1>1. fut \in World /\ stack \in Seq(FrameType) /\ next \in Nat /\ Unique(fut)
      /\ fut.slots[s].seq <= next
  BY DEF IInv, StackOK, RestOK, Owned, Below
<1>2. AllGo(fut, fut') /\ Runs(fut, stack, next)
  BY DEF Tends, AInv, Fit
<1>3. QED
  BY <1>1, <1>2, CallRuns

\* A new Future f in a free slot.
LEMMA TakesTracked ==
    ASSUME NEW w \in World, Tracked(w), NEW n \in Nat, Below(w, n), NEW s \in Slots,
           ~w.slots[s].allocated, NEW f \in Ids, f = n + 1,
           NEW kind \in AllKinds, NEW key \in Keys \union {NoKey}, NEW deadline \in BOOLEAN,
           NEW inputs \in Seq(Ids), NEW v, Takes(w, v, s, f, kind, key, deadline, inputs)
    PROVE  /\ Tracked(v) /\ (Wanted(w) => Wanted(v))
           /\ v.handles[f].alive /\ ~v.handles[f].terminal
           /\ TakenFields(w.slots[s], v.slots[s], f, kind, key, deadline, inputs)
<1> DEFINE a == w.slots[s]
           b == v.slots[s]
           h == Object(s, a.generation + 1)
<1>1. v \in World /\ Others(w, v, s) /\ b = Taken(a, f, kind, key, deadline, inputs)
      /\ v.handles = [w.handles EXCEPT ![f] = h]
  BY DEF Takes
<1>2. a \in SlotType /\ a.generation \in Nat /\ a.generation + 1 \in Nat
  BY WorldFields DEF SlotType
<1>3. TakenFields(a, b, f, kind, key, deadline, inputs)
  BY <1>1, <1>2, TakenIs
<1>4. /\ h.slot = s /\ h.generation = a.generation + 1 /\ h.alive = TRUE /\ h.terminal = FALSE
  BY <1>2, ObjectIs
<1> HIDE DEF h
<1>5. v.handles[f] = h /\ \A g \in Ids : g # f => v.handles[g] = w.handles[g]
  BY <1>1, WorldFields
<1>6. b.allocated = TRUE /\ b.generation = a.generation + 1 /\ b.seq = f /\ b.handle = TRUE
  BY <1>3 DEF TakenFields
<1>7. ASSUME NEW t \in Slots PROVE w.slots[t].seq # f
  BY SeqIs DEF Below
<1>8. ASSUME NEW t \in Slots, v.slots[t].allocated PROVE Linked(v, t)
  <2>1. CASE t = s
    BY <1>4, <1>5, <1>6, <2>1 DEF Linked
  <2>2. CASE t # s
    <3>1. v.slots[t] = w.slots[t] /\ Linked(w, t)
      BY <1>1, <2>2 DEF Others, Tracked
    <3>2. w.slots[t].seq # f
      BY <1>7
    <3>3. QED
      BY <1>5, <1>8, <3>1, <3>2 DEF Linked
  <2>3. QED
    BY <2>1, <2>2
<1>9. ASSUME NEW g \in Ids PROVE Leads(v, g)
  <2>1. CASE g = f
    <3>1. a.generation + 1 <= a.generation + 1
      BY <1>2
    <3>2. QED
      BY <1>4, <1>5, <1>6, <2>1, <3>1 DEF Leads
  <2>2. CASE g # f
    <3>1. v.handles[g] = w.handles[g] /\ Leads(w, g)
      BY <1>5, <2>2 DEF Tracked
    <3>2. CASE w.handles[g].slot = s
      <4>1. w.handles[g].generation \in Nat /\ w.handles[g].generation <= a.generation
        BY <3>1, <3>2, WorldFields DEF Leads, HandleType
      <4>2. QED
        BY <1>2, <1>6, <3>1, <3>2, <4>1 DEF Leads
    <3>3. CASE w.handles[g].slot # s
      BY <1>1, <3>1, <3>3 DEF Leads, Others
    <3>4. QED
      BY <3>2, <3>3
  <2>3. QED
    BY <2>1, <2>2
<1>10. ASSUME Wanted(w), NEW g \in Ids, v.handles[g].alive, ~v.handles[g].terminal
       PROVE  Held(v, g)
  <2>1. CASE g = f
    BY <1>4, <1>5, <1>6, <2>1 DEF Held
  <2>2. CASE g # f
    <3>1. v.handles[g] = w.handles[g] /\ Held(w, g)
      BY <1>5, <1>10, <2>2 DEF Wanted
    <3>2. w.handles[g].slot # s
      BY <3>1 DEF Held
    <3>3. QED
      BY <1>1, <3>1, <3>2 DEF Held, Others
  <2>3. QED
    BY <2>1, <2>2
<1>11. Tracked(v)
  BY <1>8, <1>9 DEF Tracked, Linked
<1>12. v.handles[f].alive /\ ~v.handles[f].terminal
  BY <1>4, <1>5
<1>13. QED
  BY <1>3, <1>10, <1>11, <1>12 DEF Wanted
-------------------------------------------------------------------------------
(* Steps that create a Future. *)

\* What a new Future changes of what runs and of what is queued.
LEMMA TakesRuns ==
    ASSUME NEW w \in World, NEW n \in Nat, Below(w, n), NEW s \in Slots, NEW v,
           Others(w, v, s), v.slots[s].seq = n + 1, NEW st \in Seq(FrameType), Runs(w, st, n)
    PROVE  Runs(v, st, n + 1)
<1>1. \A i \in 1 .. Len(st) : st[i].run \in Nat
  <2>1. \A i \in 1 .. Len(st) : st[i] \in FrameType
    OBVIOUS
  <2>2. QED
    BY <2>1, NumbersAre DEF FrameType
<1>2. \A i \in 1 .. Len(st) : st[i].run <= n /\ st[i].run <= n + 1 /\ st[i].run # n + 1
  BY <1>1 DEF Runs
<1>3. QED
  BY <1>2 DEF Runs, Others

\* A submission: the new Future has its object, its slot and its token.
LEMMA SubmitFits ==
    ASSUME IInv, AInv, NEW kind \in AllKinds, NEW key \in Keys \union {NoKey},
           NEW deadline \in BOOLEAN, NEW inputs \in Seq(Ids), NEW internal \in BOOLEAN,
           Submit(kind, key, deadline, inputs, internal), Calms(stack, stack'),
           shutting_down' = shutting_down
    PROVE  AInv' /\ fut'.handles[next'].alive
<1> DEFINE s == FindFree(internal)
           f == next + 1
           w == AllocateSlot(s, kind, key, deadline, inputs)
           x == Token(w, s)
           q == Enqueue(w, x)
           sent == \E i \in 1 .. Len(q) : q[i] = x
           u == ClearSlot([w EXCEPT !.handles[next + 1].alive = FALSE], s)
<1>1. next < MaxFutures /\ s # NoSlot
      /\ next' = f /\ submissions' = q /\ fut' = IF sent THEN w ELSE u
  BY Zenon DEF Submit
<1>2. s \in Slots /\ ~fut.slots[s].allocated
  BY <1>1, FreeIs
<1>3. next \in Nat /\ f \in Nat /\ f \in Ids /\ MaxFutures \in Nat
  BY <1>1, FutureAssumption DEF IInv, RestOK, Ids
<1>4. fut \in World /\ Below(fut, next) /\ QueuesOK /\ stack \in Seq(FrameType)
  BY DEF IInv, StackOK
<1>5. Tracked(fut) /\ Tokens(fut, submissions) /\ Distinct(submissions)
      /\ Runs(fut, stack, next)
  BY DEF AInv, Fit
<1> HIDE DEF s, u
<1>6. Takes(fut, w, s, f, kind, key, deadline, inputs)
  BY <1>1, <1>2, <1>3, <1>4, AllocateGives
<1> HIDE DEF w, f
<1>7. w \in World /\ Others(fut, w, s)
  BY <1>6 DEF Takes
<1>8. /\ Tracked(w) /\ (Wanted(fut) => Wanted(w)) /\ w.handles[f].alive
      /\ TakenFields(fut.slots[s], w.slots[s], f, kind, key, deadline, inputs)
  <2>1. f = next + 1
    BY DEF f
  <2>2. QED
    BY <1>2, <1>3, <1>4, <1>5, <1>6, <2>1, TakesTracked, SMTT(30)
<1>9. /\ w.slots[s].generation = fut.slots[s].generation + 1 /\ w.slots[s].seq = next + 1
      /\ w.slots[s].state = "queued"
  BY <1>8 DEF TakenFields, f
<1>10. Enqueued(w, s, q)
  BY <1>2, <1>4, <1>5, <1>7, <1>9, EnqueueKeeps
<1> HIDE DEF q
<1>11. Sent(q, x) /\ Tokens(w, q) /\ Distinct(q)
  BY <1>10 DEF Enqueued
<1> HIDE DEF x
<1>12. fut' = w
  BY <1>1, <1>11 DEF Sent
<1>13. Runs(w, stack, f)
  BY <1>2, <1>3, <1>4, <1>5, <1>7, <1>9, TakesRuns DEF f
<1>14. Runs(w, stack', f)
  <2>1. AllGo(w, w)
    BY DEF AllGo, Goes
  <2>2. QED
    BY <1>3, <1>4, <1>13, <2>1, CalmRuns
<1>15. Queued(fut, submissions) => Queued(w, q)
  <2> SUFFICES ASSUME Queued(fut, submissions), NEW t \in Slots,
                      w.slots[t].allocated, w.slots[t].state = "queued"
               PROVE  w.slots[t].lane_waiting \/ Sent(q, Token(w, t))
    BY DEF Queued
  <2>1. CASE t = s
    BY <1>11, <2>1 DEF x
  <2>2. CASE t # s
    <3>1. w.slots[t] = fut.slots[t]
      BY <1>7, <2>2 DEF Others
    <3>2. fut.slots[t].lane_waiting \/ Sent(submissions, Token(fut, t))
      BY <3>1 DEF Queued
    <3>3. QED
      BY <1>10, <2>2, <3>1, <3>2 DEF Enqueued
  <2>3. QED
    BY <2>1, <2>2
<1>16. Fit(fut', submissions', stack', next')
  BY <1>1, <1>8, <1>11, <1>12, <1>14 DEF Fit
<1>17. shutting_down' \/ Waited(fut', submissions')
  BY <1>1, <1>8, <1>12, <1>15 DEF AInv, Waited
<1>18. QED
  BY <1>1, <1>8, <1>12, <1>16, <1>17, Fits

\* Calls of functions and of native methods, and sleeps.
LEMMA CreateFits ==
    ASSUME IInv, AInv, js_future_call \/ CallDriver \/ js_future_sleep
    PROVE  AInv' /\ fut'.handles[next'].alive
<1>1. /\ {"call", "driver", "sleep"} \subseteq AllKinds /\ NoKey \in Keys \union {NoKey}
      /\ TRUE \in BOOLEAN /\ FALSE \in BOOLEAN /\ ScopedDeadline \in BOOLEAN
      /\ <<>> \in Seq(Ids) /\ \A k \in Keys : k \in Keys \union {NoKey}
  BY FutureAssumption DEF AllKinds, ScopedDeadline
<1>2. CASE js_future_call
  <2>1. Submit("call", NoKey, ScopedDeadline, <<>>, FALSE) /\ stack' = stack
        /\ shutting_down' = shutting_down
    BY <1>2 DEF js_future_call
  <2>2. QED
    BY <1>1, <2>1, CalmSame, SubmitFits
<1>3. CASE CallDriver
  <2>1. PICK k \in Keys : Submit("driver", k, TRUE, <<>>, FALSE)
    BY <1>3 DEF CallDriver
  <2>2. stack' = stack /\ shutting_down' = shutting_down
    BY <1>3 DEF CallDriver
  <2>3. QED
    BY <1>1, <2>1, <2>2, CalmSame, SubmitFits
<1>4. CASE js_future_sleep
  <2>1. Submit("sleep", NoKey, TRUE, <<>>, FALSE) /\ stack' = stack
        /\ shutting_down' = shutting_down
    BY <1>4 DEF js_future_sleep
  <2>2. QED
    BY <1>1, <2>1, CalmSame, SubmitFits
<1>5. QED
  BY <1>2, <1>3, <1>4

\* Synchronous native methods.
LEMMA CallAndWaitFits ==
    ASSUME IInv, AInv, future_call_and_wait
    PROVE  AInv' /\ fut'.handles[next'].alive
<1>1. /\ "driver" \in AllKinds /\ TRUE \in BOOLEAN /\ FALSE \in BOOLEAN /\ <<>> \in Seq(Ids)
  BY DEF AllKinds
<1>2. PICK k \in Keys : Submit("driver", k, FALSE, <<>>, TRUE)
  BY DEF future_call_and_wait
<1>3. k \in Keys \union {NoKey}
  OBVIOUS
<1>4. Push(Frame("js", next + 1, TRUE)) /\ shutting_down' = shutting_down
  BY DEF future_call_and_wait
<1>5. Frame("js", next + 1, TRUE).run = 0
  BY DEF Frame
<1>6. Calms(stack, stack')
  BY <1>4, <1>5, CalmPush DEF IInv
<1>7. QED
  BY <1>1, <1>2, <1>3, <1>4, <1>6, SubmitFits

\* Combinators, timeouts and continuations.
LEMMA CombinatorFits ==
    ASSUME IInv, AInv,
           \/ \E kind \in {"all", "race"} : future_make_combinator(kind)
           \/ js_future_timeout
           \/ \E kind \in {"map", "flatMap"} : future_make_continuation(kind)
    PROVE  AInv' /\ fut'.handles[next'].alive
<1>1. /\ {"all", "race", "timeout", "map", "flatMap"} \subseteq AllKinds
      /\ NoKey \in Keys \union {NoKey}
      /\ TRUE \in BOOLEAN /\ FALSE \in BOOLEAN /\ ScopedDeadline \in BOOLEAN
      /\ \A f \in Ids : <<f>> \in Seq(Ids)
  BY FutureAssumption DEF AllKinds, ScopedDeadline
<1>2. ASSUME NEW kind \in {"all", "race"}, future_make_combinator(kind)
      PROVE  AInv' /\ fut'.handles[next'].alive
  <2>1. PICK in \in InputLists : Submit(kind, NoKey, ScopedDeadline, in, FALSE)
    BY <1>2 DEF future_make_combinator
  <2>2. stack' = stack /\ shutting_down' = shutting_down
    BY <1>2 DEF future_make_combinator
  <2>3. in \in Seq(Ids) /\ kind \in AllKinds
    BY <1>1, InputListsAre
  <2>4. QED
    BY <1>1, <2>1, <2>2, <2>3, CalmSame, SubmitFits
<1>3. CASE js_future_timeout
  <2>1. PICK f \in Ids : Submit("timeout", NoKey, TRUE, <<f>>, FALSE)
    BY <1>3 DEF js_future_timeout
  <2>2. stack' = stack /\ shutting_down' = shutting_down
    BY <1>3 DEF js_future_timeout
  <2>3. "timeout" \in AllKinds /\ <<f>> \in Seq(Ids)
    BY <1>1
  <2>4. QED
    BY <1>1, <2>1, <2>2, <2>3, CalmSame, SubmitFits
<1>4. ASSUME NEW kind \in {"map", "flatMap"}, future_make_continuation(kind)
      PROVE  AInv' /\ fut'.handles[next'].alive
  <2>1. PICK f \in Ids : Submit(kind, NoKey, ScopedDeadline, <<f>>, FALSE)
    BY <1>4 DEF future_make_continuation
  <2>2. stack' = stack /\ shutting_down' = shutting_down
    BY <1>4 DEF future_make_continuation
  <2>3. kind \in AllKinds /\ <<f>> \in Seq(Ids)
    BY <1>1
  <2>4. QED
    BY <1>1, <2>1, <2>2, <2>3, CalmSame, SubmitFits
<1>5. QED
  BY <1>2, <1>3, <1>4
-------------------------------------------------------------------------------
(* Steps that settle Futures. *)

\* One slot, with the same Future and object, that does not go back.
LEMMA PutTends ==
    ASSUME NEW w \in World, Tracked(w), NEW s \in Slots, NEW b \in SlotType,
           Goes(w.slots[s], b), b.allocated = w.slots[s].allocated, b.seq = w.slots[s].seq,
           b.handle = w.slots[s].handle
    PROVE  Tends(w, Put(w, s, b))
<1>1. Put(w, s, b) \in World /\ Put(w, s, b).handles = w.handles /\ Put(w, s, b).slots[s] = b
      /\ \A t \in Slots : t # s => Put(w, s, b).slots[t] = w.slots[t]
  BY PutIs
<1>2. Others(w, Put(w, s, b), s)
  BY <1>1 DEF Others
<1> DEFINE v == Put(w, s, b)
<1> HIDE DEF v
<1>3. Tends(w, v)
  BY <1>1, <1>2, BookTends DEF v
<1>4. QED
  BY <1>3 DEF v

\* Settling, cancelling and polling.
LEMMA SettleTends ==
    ASSUME NEW w \in World, Tracked(w), NEW s \in Slots, NamedSlot(w.slots[s]),
           NEW st \in Terminal, NEW by \in Ids \union {0}
    PROVE  Tends(w, Settle(w, s, st, by))
<1>1. CASE ~w.slots[s].allocated \/ w.slots[s].state \in Terminal
  BY <1>1, SettleNot, TendsSame
<1>2. CASE w.slots[s].allocated /\ w.slots[s].state \notin Terminal
  <2> DEFINE r == IF st = "cancelled" THEN w.slots[s].result ELSE by
             v == Settle(w, s, st, by)
  <2>1. r \in Ids \union {0}
    BY WorldFields DEF SlotType
  <2>2. Over(w, v, s, st, r)
    BY <1>2, SettleOver
  <2> HIDE DEF r, v
  <2>3. Tends(w, v)
    BY <1>2, <2>1, <2>2, OverTends
  <2>4. QED
    BY <2>3 DEF v
<1>3. QED
  BY <1>1, <1>2

\* Cancelling ...
LEMMA CancelTends ==
    ASSUME NEW w \in World, Tracked(w), NEW s \in Slots, NamedSlot(w.slots[s]),
           w.slots[s].allocated, NEW answer
    PROVE  Tends(w, CancelSlot(w, s, answer))
<1> DEFINE v == CancelSlot(w, s, answer)
           a == w.slots[s]
<1>1. Cancels(w, v, s)
  BY CancelGives
<1>2. a \in SlotType /\ a.result \in Ids \union {0} /\ "cancelled" \in Terminal
  BY WorldFields DEF SlotType, Terminal
<1> HIDE DEF v
<1>3. CASE v = w
  BY <1>3, TendsSame DEF v
<1>4. CASE v = Put(w, s, Asked(a))
  <2> DEFINE b == Asked(a)
  <2>1. /\ b \in SlotType
        /\ b.allocated = a.allocated /\ b.generation = a.generation
        /\ b.seq = a.seq /\ b.kind = a.kind /\ b.state = a.state
        /\ b.lane_waiting = a.lane_waiting /\ b.handle = a.handle
        /\ b.running = a.running /\ b.called = a.called
    BY <1>2, AskedIs
  <2> HIDE DEF b
  <2>2. Goes(a, b)
    BY <2>1 DEF Goes, Begun
  <2>3. Tends(w, Put(w, s, b))
    BY <2>1, <2>2, PutTends
  <2>4. QED
    BY <1>4, <2>3 DEF v, b
<1>5. CASE Over(w, v, s, "cancelled", a.result)
  <2>1. Tends(w, v)
    BY <1>2, <1>5, OverTends
  <2>2. QED
    BY <2>1 DEF v
<1>6. QED
  BY <1>1, <1>3, <1>4, <1>5 DEF Cancels

\* ... and polling.
LEMMA PolledTends ==
    ASSUME NEW w \in World, Tracked(w), NEW s \in Slots, NamedSlot(w.slots[s]), NEW v,
           Polled(w, v, s)
    PROVE  Tends(w, v)
<1> DEFINE a == w.slots[s]
<1>1. a.seq \in Ids \union {0} /\ a.result \in Ids \union {0} /\ (a.driver_active => a.allocated)
      /\ {"fulfilled", "rejected", "cancelled"} \subseteq Terminal
  BY WorldFields DEF SlotType, Terminal, NamedSlot
<1>2. \/ v = w
      \/ /\ a.allocated
         /\ \E st \in Terminal, r \in Ids \union {0} : Over(w, v, s, st, r)
  BY <1>1 DEF Polled
<1>3. CASE v = w
  BY <1>3, TendsSame
<1>4. ASSUME NEW st \in Terminal, NEW r \in Ids \union {0}, Over(w, v, s, st, r), a.allocated
      PROVE  Tends(w, v)
  BY <1>4, OverTends
<1>5. QED
  BY <1>2, <1>3, <1>4

\* Where the steps begin.
LEMMA Here ==
    ASSUME IInv, AInv
    PROVE  /\ fut \in World /\ Tracked(fut) /\ StackOK(stack)
           /\ \A s \in Slots : NamedSlot(fut.slots[s])
           /\ \A s \in Slots : fut.slots[s].allocated => fut.slots[s].seq \in Ids
           /\ \A s \in Slots : fut.slots[s].seq \in Ids \union {0}
  BY WorldFields DEF IInv, AInv, Fit, Owned, NamedSlot, SlotType

\* Cancellation, finalization and waiting.
LEMMA ObjectFits ==
    ASSUME IInv, AInv, js_future_cancel \/ js_future_finalizer \/ js_future_wait \/ WaitReturns
    PROVE  AInv'
<1>0. /\ fut \in World /\ Tracked(fut) /\ StackOK(stack)
      /\ \A s \in Slots : NamedSlot(fut.slots[s])
  BY Here
<1>1. CASE js_future_cancel
  <2>1. PICK f \in Ids, answer \in CancelResults :
           HandleSlot(fut, f) # NoSlot /\ fut' = CancelSlot(fut, HandleSlot(fut, f), answer)
    BY <1>1 DEF js_future_cancel
  <2>2. HandleSlot(fut, f) \in Slots /\ fut.slots[HandleSlot(fut, f)].allocated
    BY <1>0, <2>1, HandleLeads DEF HandleSlot, ResolveToken
  <2>3. Tends(fut, fut')
    BY <1>0, <2>1, <2>2, CancelTends
  <2>4. QED
    BY <1>1, <2>3, CalmSame, TendFits DEF js_future_cancel
<1>2. CASE js_future_finalizer
  <2>1. PICK f \in Ids : fut' = DropHandle(fut, f)
    BY <1>2 DEF js_future_finalizer
  <2>2. Tends(fut, fut')
    BY <1>0, <2>1, DropGives, DropTends
  <2>3. QED
    BY <1>2, <2>2, CalmSame, TendFits DEF js_future_finalizer
<1>3. CASE js_future_wait
  <2>1. PICK f \in Ids : Push(Frame("js", f, FALSE))
    BY <1>3 DEF js_future_wait
  <2>2. Frame("js", f, FALSE).run = 0
    BY DEF Frame
  <2>3. Calms(stack, stack') /\ Tends(fut, fut')
    BY <1>0, <1>3, <2>1, <2>2, CalmPush, TendsSame DEF js_future_wait
  <2>4. QED
    BY <1>3, <2>3, TendFits DEF js_future_wait
<1>4. CASE WaitReturns
  <2>1. Calms(stack, stack')
    BY <1>0, <1>4, CalmPop DEF WaitReturns
  <2>2. Top.sync => Top.wait \in Ids
    BY <1>0, TopIs DEF FrameOK
  <2>3. fut' = IF Top.sync THEN DropHandle(fut, Top.wait) ELSE fut
    BY <1>4 DEF WaitReturns
  <2>4. Tends(fut, fut')
    <3>1. CASE Top.sync
      BY <1>0, <2>2, <2>3, <3>1, DropGives, DropTends
    <3>2. CASE ~Top.sync
      BY <1>0, <2>3, <3>2, TendsSame
    <3>3. QED
      BY <3>1, <3>2
  <2>5. QED
    BY <1>4, <2>1, <2>4, TendFits DEF WaitReturns
<1>5. QED
  BY <1>1, <1>2, <1>3, <1>4

\* Deadlines.
LEMMA DeadlineFits ==
    ASSUME IInv, AInv, expire_deadlines \/ advance_sleep_deadlines PROVE AInv'
<1>0. /\ fut \in World /\ Tracked(fut) /\ StackOK(stack)
      /\ \A s \in Slots : NamedSlot(fut.slots[s])
      /\ \A s \in Slots : fut.slots[s].seq \in Ids \union {0}
  BY Here
<1>1. CASE expire_deadlines
  <2> DEFINE s == Least(From("expire", Expirable))
  <2>1. s \in Expirable
    BY <1>1, ReachesLeast DEF expire_deadlines
  <2>2. PICK answer \in CancelResults, custom \in {"fulfilled", "rejected"} :
           fut' = Expire(fut, s, answer, custom)
    BY <1>1 DEF expire_deadlines
  <2>3. Move("expire", s + 1)
    BY <1>1 DEF expire_deadlines
  <2> HIDE DEF s
  <2>4. s \in Slots /\ fut.slots[s].allocated /\ fut.slots[s].state \notin Terminal
    BY <2>1 DEF Expirable
  <2> DEFINE st == IF fut.slots[s].driver_active THEN custom ELSE "rejected"
  <2>5. Over(fut, fut', s, st, fut.slots[s].seq) /\ st \in Terminal
    BY <1>0, <2>2, <2>4, ExpireOver DEF Terminal
  <2> HIDE DEF st
  <2>6. Tends(fut, fut') /\ Calms(stack, stack')
    BY <1>0, <2>3, <2>4, <2>5, OverTends, CalmMove
  <2>7. QED
    BY <1>1, <2>6, TendFits DEF expire_deadlines
<1>2. CASE advance_sleep_deadlines
  <2> DEFINE s == Least(From("sleep", Awake))
  <2>1. s \in Slots
    BY <1>2, ReachesLeast DEF advance_sleep_deadlines, Awake
  <2>2. fut' = Settle(fut, s, "fulfilled", fut.slots[s].seq) /\ Move("sleep", s + 1)
    BY <1>2 DEF advance_sleep_deadlines
  <2> HIDE DEF s
  <2>3. "fulfilled" \in Terminal
    BY DEF Terminal
  <2>4. Tends(fut, fut') /\ Calms(stack, stack')
    BY <1>0, <2>1, <2>2, <2>3, SettleTends, CalmMove
  <2>5. QED
    BY <1>2, <2>4, TendFits DEF advance_sleep_deadlines
<1>3. QED
  BY <1>1, <1>2

\* Polls of drivers and of what was woken.
LEMMA ActiveFits ==
    ASSUME IInv, AInv, poll_active_drivers PROVE AInv'
<1> DEFINE s == Least(From("active", Completed))
<1>0. /\ fut \in World /\ Tracked(fut) /\ StackOK(stack)
      /\ \A t \in Slots : NamedSlot(fut.slots[t])
  BY Here
<1>1. s \in Slots
  BY ReachesLeast DEF poll_active_drivers, Completed
<1>2. fut' \in PollReady(fut, s) /\ Move("active", s + 1)
  BY DEF poll_active_drivers
<1> HIDE DEF s
<1>3. Tends(fut, fut') /\ Calms(stack, stack')
  BY <1>0, <1>1, <1>2, PollGives, PolledTends, CalmMove
<1>4. QED
  BY <1>3, TendFits DEF poll_active_drivers

\* Polls of what was woken.
LEMMA ReadyFits ==
    ASSUME IInv, AInv, ReadyStep PROVE AInv'
<1> DEFINE s == ResolveToken(fut, Head(ready))
<1>0. /\ fut \in World /\ Tracked(fut) /\ StackOK(stack)
      /\ \A t \in Slots : NamedSlot(fut.slots[t])
  BY Here
<1>1. ready # <<>> /\ ready \in Seq(TokenType)
  BY DEF ReadyStep, Reaches, HasWork, IInv, QueuesOK
<1>2. Head(ready) \in TokenType
  BY <1>1
<1>3. fut' \in (IF s = NoSlot THEN {fut} ELSE PollReady(fut, s))
      /\ Move("ready", At("ready") + 1)
      /\ UNCHANGED <<next, submissions, shutting_down>>
  BY DEF ReadyStep
<1>4. s # NoSlot => s \in Slots
  BY <1>0, <1>2, TokenSlot
<1> HIDE DEF s
<1>5. Tends(fut, fut')
  <2>1. CASE s = NoSlot
    BY <1>0, <1>3, <2>1, TendsSame
  <2>2. CASE s # NoSlot
    BY <1>0, <1>3, <1>4, <2>2, PollGives, PolledTends
  <2>3. QED
    BY <2>1, <2>2
<1>6. Calms(stack, stack')
  BY <1>0, <1>3, CalmMove
<1>7. QED
  BY <1>3, <1>5, <1>6, TendFits
-------------------------------------------------------------------------------
(* Dispatch. *)

\* Another state of a slot that JavaScript's object cannot tell apart.
Same(a, b) ==
    /\ b.allocated = a.allocated /\ b.generation = a.generation /\ b.seq = a.seq
    /\ b.result = a.result /\ b.inputs = a.inputs /\ b.driver_active = a.driver_active
    /\ b.key = a.key /\ b.deadline = a.deadline /\ b.handle = a.handle

\* A driver that is started runs, or its Future is rejected and the slot empty.
LEMMA StartGives ==
    ASSUME NEW w \in World, NEW s \in Slots, NamedSlot(w.slots[s]), w.slots[s].driver_active,
           NEW ok \in BOOLEAN
    PROVE  Starts(w, StartDriver(w, s, ok), s)
<1> DEFINE a == w.slots[s]
           b == Running(a)
           u == Put(w, s, b)
           v == [u EXCEPT !.native[a.seq] = "running"]
           r == RejectAndDestroy(u, s)
<1>1. a \in SlotType /\ a.seq \in Ids /\ a.allocated /\ "running" \in NativeStates
  BY WorldFields DEF NamedSlot, SlotType, NativeStates
<1>2. /\ b \in SlotType /\ b.allocated = a.allocated /\ b.generation = a.generation
      /\ b.seq = a.seq /\ b.state = "pending" /\ b.result = a.result /\ b.handle = a.handle
      /\ b.driver_active = a.driver_active
  BY <1>1, RunningIs
<1>3. StartDriver(w, s, ok) = IF ok THEN v ELSE r
  BY Zenon DEF StartDriver, Running
<1> HIDE DEF b
<1>4. u \in World /\ u.native = w.native /\ u.handles = w.handles /\ u.slots[s] = b
      /\ \A t \in Slots : t # s => u.slots[t] = w.slots[t]
  BY <1>2, PutIs
<1> HIDE DEF u
<1>5. CASE ok
  <2>1. v \in World /\ v.slots = u.slots /\ v.native = [w.native EXCEPT ![a.seq] = "running"]
        /\ v.handles = w.handles
    BY <1>1, <1>4, NativeIs
  <2> HIDE DEF v
  <2>2. Others(w, v, s) /\ v.slots[s] = Running(a)
    BY <1>4, <2>1 DEF Others, b
  <2>3. Starts(w, v, s)
    BY <2>1, <2>2 DEF Starts
  <2>4. QED
    BY <1>3, <1>5, <2>3
<1>6. CASE ~ok
  <2>1. NamedSlot(u.slots[s]) /\ u.slots[s].allocated /\ u.slots[s].state \notin Terminal
    BY <1>1, <1>2, <1>4 DEF NamedSlot, Terminal
  <2>2. Over(u, r, s, "rejected", a.seq) /\ r.slots[s] = EmptySlot(a.generation)
    BY <1>2, <1>4, <2>1, RejectOver
  <2>3. Ended(u, r, s, u.slots[s].driver_active)
    BY <1>4, <2>1, RejectEnds
  <2> HIDE DEF r
  <2>4. r \in World /\ Others(w, r, s)
    BY <1>4, <2>2 DEF Over, Others
  <2>5. r.handles = ToldIn(w, s, "rejected", a.seq)
    BY <1>2, <1>4, <2>2 DEF Over, ToldIn
  <2>6. Over(w, r, s, "rejected", a.seq)
    BY <2>2, <2>4, <2>5 DEF Over
  <2>7. r.native = [w.native EXCEPT ![a.seq] = "destroyed"]
    BY <1>2, <1>4, <2>3 DEF Ended, Ends, Drops
  <2>8. \A f \in Ids : r.native[f] = "running" => w.native[f] = "running"
    BY <2>7, <1>1, WorldFields
  <2>9. Starts(w, r, s)
    BY <2>6, <2>8 DEF Starts
  <2>10. QED
    BY <1>3, <1>6, <2>9
<1>7. QED
  BY <1>5, <1>6

\* A driver that was started, or refused, is no longer queued.
LEMMA StartTends ==
    ASSUME NEW w \in World, Tracked(w), NEW s \in Slots, NamedSlot(w.slots[s]),
           w.slots[s].driver_active, w.slots[s].state = "queued", NEW v, Starts(w, v, s)
    PROVE  Tends(w, v) /\ (v.slots[s].allocated => v.slots[s].state # "queued")
<1> DEFINE a == w.slots[s]
<1>1. a \in SlotType /\ a.seq \in Ids \union {0} /\ a.allocated /\ "rejected" \in Terminal
      /\ "queued" \notin Terminal
  BY WorldFields DEF NamedSlot, SlotType, Terminal
<1>2. CASE Over(w, v, s, "rejected", a.seq)
  <2>1. Tends(w, v)
    BY <1>1, <1>2, OverTends
  <2>2. v.slots[s].allocated => v.slots[s].state # "queued"
    BY <1>2 DEF Over, Left, EmptySlot
  <2>3. QED
    BY <2>1, <2>2
<1>3. CASE /\ v \in World /\ Others(w, v, s) /\ v.handles = w.handles
           /\ v.slots[s] = Running(a)
  <2> DEFINE b == Running(a)
  <2>1. /\ b.allocated = a.allocated /\ b.generation = a.generation
        /\ b.seq = a.seq /\ b.state = "pending" /\ b.handle = a.handle
    BY <1>1, RunningIs
  <2>2. v.slots[s] = b
    BY <1>3
  <2> HIDE DEF b
  <2>3. Goes(a, b)
    BY <1>1, <2>1 DEF Goes, Begun
  <2>4. Tends(w, v)
    BY <1>3, <2>1, <2>2, <2>3, BookTends
  <2>5. QED
    BY <2>1, <2>2, <2>4
<1>4. QED
  BY <1>2, <1>3 DEF Starts

\* A slot that becomes pending.
PendingForms(a) ==
    {[a EXCEPT !.state = "pending"], [[a EXCEPT !.state = "pending"] EXCEPT !.timer = "armed"],
     [a EXCEPT !.kind = "js_call", !.state = "pending"]}

\* A dispatch that makes a Future pending changes little else.
LEMMA PendingSame ==
    ASSUME NEW a \in SlotType, NEW x \in PendingForms(a)
    PROVE  /\ x \in SlotType /\ Same(a, x) /\ x.state = "pending"
           /\ x.kind = a.kind \/ x.kind = "js_call"
           /\ x.running = a.running /\ x.called = a.called
<1> DEFINE b == [a EXCEPT !.state = "pending"]
           c == [b EXCEPT !.timer = "armed"]
           d == [a EXCEPT !.kind = "js_call", !.state = "pending"]
<1>1. "pending" \in States /\ "armed" \in {"none", "armed", "fired"} /\ "js_call" \in AllKinds
  BY DEF States, AllKinds
<1>2. b \in SlotType
  BY <1>1, Zenon DEF SlotType
<1>3. Same(a, b) /\ b.state = "pending" /\ b.kind = a.kind
      /\ b.running = a.running /\ b.called = a.called
  BY <1>1 DEF SlotType, Same
<1> HIDE DEF b
<1>4. c \in SlotType
  BY <1>1, <1>2, Zenon DEF SlotType
<1>5. Same(b, c) /\ c.state = b.state /\ c.kind = b.kind
      /\ c.running = b.running /\ c.called = b.called
  BY <1>2 DEF SlotType, Same
<1>6. d \in SlotType
  BY <1>1, Zenon DEF SlotType
<1>7. Same(a, d) /\ d.state = "pending" /\ d.kind = "js_call"
      /\ d.running = a.running /\ d.called = a.called
  BY <1>1 DEF SlotType, Same
<1>8. x = b \/ x = c \/ x = d
  BY Zenon DEF PendingForms, b
<1> HIDE DEF c, d
<1>9. CASE x = b
  BY <1>2, <1>3, <1>9
<1>10. CASE x = c
  BY <1>3, <1>4, <1>5, <1>10 DEF Same
<1>11. CASE x = d
  BY <1>6, <1>7, <1>11
<1>12. QED
  BY <1>8, <1>9, <1>10, <1>11

\* What is made pending ...
LEMMA PendingTends ==
    ASSUME NEW w \in World, Tracked(w), NEW s \in Slots, w.slots[s].state = "queued",
           NEW x \in PendingForms(w.slots[s])
    PROVE  /\ Tends(w, Put(w, s, x)) /\ Put(w, s, x) \in World /\ Put(w, s, x).slots[s] = x
           /\ Others(w, Put(w, s, x), s) /\ Put(w, s, x).handles = w.handles
           /\ Put(w, s, x).native = w.native
<1>1. w.slots[s] \in SlotType
  BY WorldFields
<1>2. x \in SlotType /\ Same(w.slots[s], x) /\ x.state = "pending"
  BY <1>1, PendingSame
<1>3. Goes(w.slots[s], x)
  BY <1>2 DEF Goes, Same, Begun
<1>4. Tends(w, Put(w, s, x))
  BY <1>2, <1>3, PutTends DEF Same
<1>5. Put(w, s, x) \in World /\ Put(w, s, x).slots[s] = x /\ Put(w, s, x).handles = w.handles
      /\ Put(w, s, x).native = w.native
      /\ \A t \in Slots : t # s => Put(w, s, x).slots[t] = w.slots[t]
  BY <1>2, PutIs
<1>6. QED
  BY <1>4, <1>5 DEF Others

\* Taking the head of a queue.
LEMMA TailKeeps ==
    ASSUME NEW q \in Seq(TokenType), q # <<>>
    PROVE  /\ Distinct(q) => Distinct(Tail(q))
           /\ \A w : Tokens(w, q) => Tokens(w, Tail(q))
           /\ \A x : Sent(q, x) /\ x # Head(q) => Sent(Tail(q), x)
<1> DEFINE c == Tail(q)
<1>1. Len(q) \in Nat /\ Len(q) >= 1 /\ Len(c) = Len(q) - 1 /\ Head(q) = q[1]
      /\ \A i \in 1 .. Len(q) - 1 : c[i] = q[i + 1]
  OBVIOUS
<1> HIDE DEF c
<1>2. \A i \in 1 .. Len(c) : i + 1 \in 1 .. Len(q) /\ c[i] = q[i + 1]
  BY <1>1
<1>3. ASSUME NEW i \in 1 .. Len(q), q[i] # Head(q) PROVE i - 1 \in 1 .. Len(c) /\ c[i - 1] = q[i]
  <2>1. i # 1
    BY <1>1, <1>3
  <2>2. i - 1 \in 1 .. Len(q) - 1
    BY <1>1, <2>1
  <2>3. c[i - 1] = q[(i - 1) + 1]
    BY <1>1, <2>2
  <2>4. QED
    BY <1>1, <2>2, <2>3
<1>4. ASSUME Distinct(q), NEW i \in 1 .. Len(c), NEW j \in 1 .. Len(c), c[i] = c[j] PROVE i = j
  <2>1. q[i + 1] = q[j + 1]
    BY <1>2, <1>4
  <2>2. i + 1 = j + 1
    BY <1>2, <1>4, <2>1 DEF Distinct
  <2>3. QED
    BY <2>2
<1>5. Distinct(q) => Distinct(c)
  BY <1>4 DEF Distinct
<1>6. \A w : Tokens(w, q) => Tokens(w, c)
  BY <1>2 DEF Tokens
<1>7. \A x : Sent(q, x) /\ x # Head(q) => Sent(c, x)
  BY <1>3 DEF Sent
<1>8. QED
  BY <1>5, <1>6, <1>7 DEF c

\* Settling after another such step.
LEMMA SettleAfterTends ==
    ASSUME NEW w, NEW u \in World, Tends(w, u), NEW s \in Slots, NamedSlot(u.slots[s]),
           NEW st \in Terminal, NEW by \in Ids \union {0}
    PROVE  Tends(w, Settle(u, s, st, by)) /\ NotQueued(Settle(u, s, st, by).slots[s])
<1> DEFINE v == Settle(u, s, st, by)
<1>1. Tracked(u)
  BY DEF Tends
<1>2. Tends(u, v) /\ NotQueued(v.slots[s])
  BY <1>1, SettleTends, SettleIs
<1> HIDE DEF v
<1>3. Tends(w, v)
  BY <1>2, TendsChain
<1>4. QED
  BY <1>2, <1>3 DEF v

\* What is dispatched is queued no longer, or waits for its lane.
Dispatched(a) == a.allocated /\ a.state = "queued" => a.lane_waiting

\* What is dispatched is no longer queued, or waits in its lane.
LEMMA DriverDispatch ==
    ASSUME IInv, AInv, NEW s \in Slots, fut.slots[s].allocated, fut.slots[s].state = "queued",
           fut.slots[s].kind = "driver", DispatchDriver(s)
    PROVE  Tends(fut, fut') /\ Dispatched(fut'.slots[s])
<1> DEFINE a == fut.slots[s]
<1>0. /\ fut \in World /\ Tracked(fut) /\ NamedSlot(a) /\ a \in SlotType
      /\ a.seq \in Ids \union {0} /\ a.driver_active /\ a.state \notin Terminal
      /\ "rejected" \in Terminal
  BY Here, WorldFields DEF IInv, Owned, Fresh, Terminal
<1>1. CASE fut' = RejectAndDestroy(fut, s)
  <2> DEFINE v == RejectAndDestroy(fut, s)
  <2>1. Over(fut, v, s, "rejected", a.seq) /\ v.slots[s] = EmptySlot(a.generation)
    BY <1>0, RejectOver
  <2> HIDE DEF v
  <2>2. Tends(fut, v)
    BY <1>0, <2>1, OverTends
  <2>3. QED
    BY <1>1, <2>1, <2>2 DEF v, EmptySlot, Dispatched
<1>2. CASE fut' = Put(fut, s, [a EXCEPT !.lane_waiting = TRUE])
  <2> DEFINE b == [a EXCEPT !.lane_waiting = TRUE]
  <2>1. TRUE \in BOOLEAN
    OBVIOUS
  <2>2. b \in SlotType
    BY <1>0, <2>1, Zenon DEF SlotType
  <2>3. Same(a, b) /\ b.state = a.state /\ b.lane_waiting = TRUE /\ b.kind = a.kind
        /\ b.running = a.running /\ b.called = a.called
    BY <1>0 DEF SlotType, Same
  <2>4. fut' = Put(fut, s, b)
    BY <1>2
  <2> HIDE DEF b
  <2>5. Goes(a, b)
    BY <2>3 DEF Goes, Same, Begun
  <2>6. Tends(fut, fut') /\ fut'.slots[s] = b
    BY <1>0, <2>2, <2>3, <2>4, <2>5, PutTends, PutIs, ZenonT(40) DEF Same
  <2>7. QED
    BY <2>3, <2>6 DEF Dispatched
<1>3. CASE \E ok \in BOOLEAN : fut' = StartDriver(fut, s, ok)
  <2>1. Starts(fut, fut', s)
    BY <1>0, <1>3, StartGives
  <2>2. QED
    BY <1>0, <2>1, StartTends DEF Dispatched
<1>4. QED
  BY <1>1, <1>2, <1>3 DEF DispatchDriver

\* ... or starts is no longer queued.
LEMMA DispatchTends ==
    ASSUME IInv, AInv, NEW s \in Slots, fut.slots[s].allocated, fut.slots[s].state = "queued",
           dispatch_submission(s)
    PROVE  Tends(fut, fut') /\ Dispatched(fut'.slots[s])
<1> DEFINE a == fut.slots[s]
<1>0. /\ fut \in World /\ Tracked(fut) /\ NamedSlot(a) /\ a \in SlotType
      /\ a.seq \in Ids \union {0} /\ {"fulfilled", "rejected"} \subseteq Terminal
  BY Here, WorldFields DEF Terminal
<1>1. CASE a.kind = "driver" /\ DispatchDriver(s)
  BY <1>1, DriverDispatch
<1>2. CASE start_sleep(s)
  <2> DEFINE b == [a EXCEPT !.state = "pending"]
             c == [b EXCEPT !.timer = "armed"]
             u == Put(fut, s, b)
             v == Put(fut, s, c)
  <2>1. b \in PendingForms(a) /\ c \in PendingForms(a)
    BY Zenon DEF PendingForms
  <2>2. Same(a, b) /\ Same(a, c) /\ b.state = "pending" /\ c.state = "pending"
    BY <1>0, <2>1, PendingSame
  <2>3. fut' \in IF b.seq \in due THEN {Settle(u, s, "fulfilled", b.seq)}
                 ELSE {v, Settle(u, s, "rejected", b.seq)}
    BY <1>2, Zenon DEF start_sleep
  <2> HIDE DEF b, c
  <2>4. Tends(fut, u) /\ u \in World /\ u.slots[s] = b /\ Tends(fut, v) /\ v.slots[s] = c
    BY <1>0, <2>1, PendingTends
  <2> HIDE DEF u, v
  <2>5. NamedSlot(u.slots[s])
    BY <1>0, <2>2, <2>4 DEF Same, NamedSlot
  <2>6. ASSUME NEW st \in Terminal
        PROVE  Tends(fut, Settle(u, s, st, b.seq)) /\ NotQueued(Settle(u, s, st, b.seq).slots[s])
    BY <1>0, <2>2, <2>4, <2>5, SettleAfterTends DEF Same
  <2>7. QED
    BY <1>0, <2>2, <2>3, <2>4, <2>6 DEF Dispatched, NotQueued
<1>3. CASE fut' = Settle(fut, s, "rejected", a.seq)
  BY <1>0, <1>3, TendsSame, SettleAfterTends DEF Dispatched, NotQueued
<1>4. CASE fut' = Put(fut, s, [a EXCEPT !.state = "pending"])
  <2> DEFINE b == [a EXCEPT !.state = "pending"]
  <2>1. b \in PendingForms(a)
    BY Zenon DEF PendingForms
  <2>2. fut' = Put(fut, s, b)
    BY <1>4
  <2> HIDE DEF b
  <2>3. Tends(fut, fut') /\ fut'.slots[s] = b /\ b.state = "pending"
    BY <1>0, <2>1, <2>2, PendingTends, PendingSame
  <2>4. QED
    BY <2>3 DEF Dispatched
<1>5. QED
  BY <1>1, <1>2, <1>3, <1>4 DEF dispatch_submission

\* The head of the queue is taken.
LEMMA TakeFits ==
    ASSUME IInv, AInv, submissions # <<>>, submissions' = Tail(submissions),
           Tends(fut, fut'), Runs(fut', stack', next'), shutting_down' = shutting_down,
           next' = next, NEW s, s = ResolveToken(fut, Head(submissions)),
           s # NoSlot => Dispatched(fut'.slots[s])
    PROVE  AInv'
<1>0. fut \in World /\ submissions \in Seq(TokenType)
  BY DEF IInv, QueuesOK
<1>1. AllGo(fut, fut') /\ Tracked(fut') /\ (Wanted(fut) => Wanted(fut'))
  BY DEF Tends
<1> DEFINE q == Tail(submissions)
<1>2. /\ Distinct(q) /\ Tokens(fut, q)
      /\ \A x : Sent(submissions, x) /\ x # Head(submissions) => Sent(q, x)
  BY <1>0, TailKeeps DEF AInv, Fit
<1>3. q \in Seq(TokenType)
  BY <1>0
<1> HIDE DEF q
<1>4. Tokens(fut', q)
  BY <1>0, <1>1, <1>2, <1>3, TokensStay
<1>5. ASSUME Queued(fut, submissions), NEW t \in Slots, fut'.slots[t].allocated,
             fut'.slots[t].state = "queued"
      PROVE  fut'.slots[t].lane_waiting \/ Sent(q, Token(fut', t))
  <2>1. /\ fut.slots[t].allocated /\ fut.slots[t].state = "queued"
        /\ fut.slots[t].lane_waiting => fut'.slots[t].lane_waiting
        /\ fut'.slots[t].generation = fut.slots[t].generation
    BY <1>1, <1>5 DEF AllGo, Goes
  <2>2. Token(fut', t) = Token(fut, t)
    BY <2>1 DEF Token
  <2>3. CASE t = s
    <3>1. s # NoSlot
      BY <2>3, NumbersAre
    <3>2. QED
      BY <1>5, <2>3, <3>1 DEF Dispatched
  <2>4. CASE t # s
    <3>1. Token(fut, t) # Head(submissions)
      BY <2>1, <2>4 DEF Token, ResolveToken
    <3>2. QED
      BY <1>2, <1>5, <2>1, <2>2, <3>1 DEF Queued
  <2>5. QED
    BY <2>3, <2>4
<1>6. Fit(fut', submissions', stack', next')
  BY <1>1, <1>2, <1>4 DEF Fit, q
<1>7. shutting_down' \/ Waited(fut', submissions')
  BY <1>1, <1>5 DEF AInv, Waited, Queued, q
<1>8. QED
  BY <1>6, <1>7, Fits

\* A dispatch, and the call of a JavaScript function.
LEMMA DispatchFits ==
    ASSUME IInv, AInv, DispatchStep PROVE AInv'
<1> DEFINE s == ResolveToken(fut, Head(submissions))
           live == s # NoSlot /\ fut.slots[s].state = "queued"
           calls == live /\ fut.slots[s].kind = "call" /\ fut.slots[s].call_refs
           n == At("dispatch") + 1
<1>0. /\ fut \in World /\ Tracked(fut) /\ StackOK(stack) /\ submissions \in Seq(TokenType)
      /\ stack \in Seq(FrameType) /\ next \in Nat /\ Runs(fut, stack, next)
  BY Here DEF IInv, QueuesOK, StackOK, RestOK, AInv, Fit
<1>1. submissions # <<>>
  BY DEF DispatchStep, Reaches, HasWork
<1>2. Head(submissions) \in TokenType
  BY <1>0, <1>1
<1>3. /\ submissions' = Tail(submissions)
      /\ \/ calls /\ dispatch_call(s)
         \/ live /\ dispatch_submission(s) /\ Move("dispatch", n)
         \/ ~live /\ UNCHANGED fut /\ Move("dispatch", n)
      /\ next' = next /\ shutting_down' = shutting_down
  BY Zenon DEF DispatchStep
<1>4. s # NoSlot => s \in Slots /\ fut.slots[s].allocated
  BY <1>0, <1>2, TokenSlot
<1> HIDE DEF s, n
<1>5. Tends(fut, fut') /\ Runs(fut', stack', next) /\ (s # NoSlot => Dispatched(fut'.slots[s]))
  <2>1. CASE calls /\ dispatch_call(s)
    <3> DEFINE a == fut.slots[s]
               b == [a EXCEPT !.kind = "js_call", !.state = "pending"]
               t == [Top EXCEPT !.phase = "call", !.n = At("dispatch") + 1,
                                !.run = a.seq, !.runSlot = s]
    <3>1. b \in PendingForms(a)
      BY Zenon DEF PendingForms
    <3>2. fut' = Put(fut, s, b) /\ SetTop(t)
      BY <2>1 DEF dispatch_call
    <3>3. b.kind = "js_call" /\ b.state = "pending" /\ a.state = "queued" /\ a.kind = "call"
      <4>1. a \in SlotType /\ b.kind = "js_call" /\ b.state = "pending"
        BY <1>0, <1>4, <2>1, WorldFields DEF SlotType
      <4>2. QED
        BY <2>1, <4>1
    <3>4. t.run = a.seq
      <4>1. Top \in FrameType
        BY <1>0, TopIs
      <4>2. QED
        BY <4>1 DEF FrameType
    <3> HIDE DEF b, t
    <3>5. Tends(fut, fut') /\ fut'.slots[s] = b
      BY <1>0, <1>4, <2>1, <3>1, <3>2, <3>3, PendingTends
    <3>6. ~Begun(a) /\ Begun(b)
      BY <3>3 DEF Begun
    <3>7. Calling(stack, stack', a.seq)
      BY <1>0, <3>2, <3>4, CallTop
    <3>8. Runs(fut', stack', next)
      BY <1>4, <2>1, <3>5, <3>6, <3>7, CallFits
    <3>9. QED
      BY <3>3, <3>5, <3>8 DEF Dispatched
  <2>2. CASE live /\ dispatch_submission(s) /\ Move("dispatch", n)
    <3>1. Tends(fut, fut') /\ Dispatched(fut'.slots[s])
      BY <1>4, <2>2, DispatchTends
    <3>2. Calms(stack, stack') /\ AllGo(fut, fut')
      BY <1>0, <2>2, <3>1, CalmMove DEF Tends
    <3>3. QED
      BY <1>0, <3>1, <3>2, CalmRuns
  <2>3. CASE ~live /\ UNCHANGED fut /\ Move("dispatch", n)
    <3>1. Tends(fut, fut') /\ (s # NoSlot => Dispatched(fut'.slots[s]))
      BY <1>0, <2>3, TendsSame DEF Dispatched
    <3>2. Calms(stack, stack') /\ AllGo(fut, fut')
      BY <1>0, <2>3, <3>1, CalmMove DEF Tends
    <3>3. QED
      BY <1>0, <3>1, <3>2, CalmRuns
  <2>4. QED
    BY <1>3, <2>1, <2>2, <2>3
<1>6. QED
  BY <1>1, <1>3, <1>5, TakeFits DEF s
-------------------------------------------------------------------------------
(* What goes on after a callback, the lanes and the combinators. *)

\* Bookkeeping that keeps state, object and Future of a slot.
LEMMA SameTends ==
    ASSUME NEW w \in World, Tracked(w), NEW s \in Slots, NEW b \in SlotType,
           b.allocated = w.slots[s].allocated, b.generation = w.slots[s].generation,
           b.seq = w.slots[s].seq, b.state = w.slots[s].state, b.handle = w.slots[s].handle,
           b.state = "queued" => b.lane_waiting = w.slots[s].lane_waiting,
           Begun(w.slots[s]) => Begun(b)
    PROVE  /\ Tends(w, Put(w, s, b)) /\ Put(w, s, b) \in World /\ Put(w, s, b).slots[s] = b
           /\ Others(w, Put(w, s, b), s) /\ Put(w, s, b).handles = w.handles
           /\ Put(w, s, b).native = w.native
<1>1. Goes(w.slots[s], b)
  BY DEF Goes
<1>2. Put(w, s, b) \in World /\ Put(w, s, b).slots[s] = b /\ Put(w, s, b).handles = w.handles
      /\ Put(w, s, b).native = w.native
      /\ \A t \in Slots : t # s => Put(w, s, b).slots[t] = w.slots[t]
  BY PutIs
<1>3. QED
  BY <1>1, <1>2, PutTends DEF Others

\* A callable returns, and a continuation.
LEMMA CallReturnFits ==
    ASSUME IInv, AInv, CallReturns PROVE AInv'
<1> DEFINE s == Top.runSlot
           a == fut.slots[s]
           b == [a EXCEPT !.call_refs = FALSE]
           w == Put(fut, s, b)
           r == ReleaseIfTerminal(PublishTerminal(w, s), s)
           t == [Top EXCEPT !.phase = "dispatch", !.run = 0, !.runSlot = NoSlot]
<1>0. /\ fut \in World /\ Tracked(fut) /\ StackOK(stack)
      /\ \A p \in Slots : NamedSlot(fut.slots[p])
  BY Here
<1>1. Top \in FrameType /\ s \in Slots /\ Top.run \in Ids \union {0}
  <2>1. Top \in FrameType /\ FrameOK(Top)
    BY <1>0, TopIs
  <2>2. QED
    BY <2>1 DEF FrameType, FrameOK, CallReturns
<1>2. /\ fut' \in IF w.slots[s].state \in Terminal THEN {r}
                  ELSE {Settle(w, s, state, Top.run) : state \in {"fulfilled", "rejected"}}
      /\ SetTop(t) /\ UNCHANGED <<next, submissions, shutting_down>>
  BY Zenon DEF CallReturns
<1>3. t.run = 0
  BY <1>1 DEF FrameType
<1> HIDE DEF t
<1>4. Calms(stack, stack')
  BY <1>0, <1>2, <1>3, CalmTop
<1> HIDE DEF s
<1>5. a \in SlotType /\ FALSE \in BOOLEAN
  BY <1>0, <1>1, WorldFields
<1>6. b \in SlotType
  BY <1>5, Zenon DEF SlotType
<1>7. Same(a, b) /\ b.state = a.state /\ b.kind = a.kind /\ b.lane_waiting = a.lane_waiting
      /\ b.running = a.running /\ b.called = a.called
  BY <1>5 DEF SlotType, Same
<1> HIDE DEF b
<1>8. Tends(fut, w) /\ w \in World /\ w.slots[s] = b
  BY <1>0, <1>1, <1>6, <1>7, SameTends DEF Same, Begun
<1>9. NamedSlot(w.slots[s]) /\ Tracked(w)
  BY <1>0, <1>1, <1>7, <1>8 DEF NamedSlot, Same, Tends
<1> HIDE DEF w
<1>10. CASE w.slots[s].state \in Terminal
  <2>1. fut' = r
    BY <1>2, <1>10
  <2>2. CASE w.slots[s].allocated
    <3>1. Closes(w, r, s)
      BY <1>1, <1>8, <1>9, <1>10, <2>2, ClosesGives
    <3> HIDE DEF r
    <3>2. Tends(w, r)
      BY <1>1, <1>8, <1>9, <1>10, <2>2, <3>1, ClosesTends
    <3>3. Tends(fut, fut')
      BY <1>8, <2>1, <3>2, TendsChain
    <3>4. QED
      BY <1>2, <1>4, <3>3, TendFits
  <2>3. CASE ~w.slots[s].allocated
    <3>1. r = w
      BY <2>3 DEF ReleaseIfTerminal, PublishTerminal
    <3>2. QED
      BY <1>2, <1>4, <1>8, <2>1, <3>1, TendFits
  <2>4. QED
    BY <2>2, <2>3
<1>11. CASE w.slots[s].state \notin Terminal
  <2>1. PICK st \in {"fulfilled", "rejected"} : fut' = Settle(w, s, st, Top.run)
    BY <1>2, <1>11
  <2>2. st \in Terminal
    BY DEF Terminal
  <2>3. Tends(fut, fut')
    BY <1>1, <1>8, <1>9, <2>1, <2>2, SettleAfterTends
  <2>4. QED
    BY <1>2, <1>4, <2>3, TendFits
<1>12. QED
  BY <1>10, <1>11

\* A continuation returns.
LEMMA ContinuationReturnFits ==
    ASSUME IInv, AInv, ContinuationReturns PROVE AInv'
<1> DEFINE s == Top.runSlot
           a == fut.slots[s]
           b == [a EXCEPT !.running = FALSE, !.called = TRUE]
           w == Put(fut, s, b)
           c(f) == [b EXCEPT !.inputs[1] = f]
           Chained(f) == IF Len(b.inputs) = 0 THEN w ELSE Put(fut, s, c(f))
           t == [Top EXCEPT !.phase = "combine", !.run = 0, !.runSlot = NoSlot]
<1>0. /\ fut \in World /\ Tracked(fut) /\ StackOK(stack)
      /\ \A p \in Slots : NamedSlot(fut.slots[p])
  BY Here
<1>1. Top \in FrameType /\ s \in Slots /\ Top.run \in Ids \union {0}
  <2>1. Top \in FrameType /\ FrameOK(Top)
    BY <1>0, TopIs
  <2>2. QED
    BY <2>1 DEF FrameType, FrameOK, ContinuationReturns
<1>2. /\ \/ fut' = Settle(w, s, "rejected", Top.run)
         \/ fut' = Settle(w, s, "fulfilled", Top.run)
         \/ \E f \in Ids : fut' = Chained(f)
      /\ SetTop(t) /\ UNCHANGED <<next, submissions, shutting_down>>
  <2>1. fut' \in {Settle(w, s, "rejected", Top.run)} \union
                IF b.kind = "map" THEN {Settle(w, s, "fulfilled", Top.run)}
                ELSE {Chained(f) : f \in {g \in Ids : Visible(g)}}
    BY Zenon DEF ContinuationReturns
  <2>2. SetTop(t) /\ UNCHANGED <<next, submissions, shutting_down>>
    BY Zenon DEF ContinuationReturns
  <2> HIDE DEF Chained, w, b
  <2>3. QED
    BY <2>1, <2>2
<1>3. t.run = 0
  BY <1>1 DEF FrameType
<1> HIDE DEF t
<1>4. Calms(stack, stack')
  BY <1>0, <1>2, <1>3, CalmTop
<1> HIDE DEF s
<1>5. a \in SlotType /\ FALSE \in BOOLEAN /\ TRUE \in BOOLEAN
  BY <1>0, <1>1, WorldFields
<1>6. b \in SlotType
  BY <1>5, Zenon DEF SlotType
<1>7. Same(a, b) /\ b.state = a.state /\ b.kind = a.kind /\ b.lane_waiting = a.lane_waiting
      /\ b.called = TRUE
  BY <1>5 DEF SlotType, Same
<1> HIDE DEF b
<1>8. Tends(fut, w) /\ w \in World /\ w.slots[s] = b
  BY <1>0, <1>1, <1>6, <1>7, SameTends DEF Same, Begun
<1>9. NamedSlot(w.slots[s])
  BY <1>0, <1>1, <1>7, <1>8 DEF NamedSlot, Same
<1>10. ASSUME NEW f \in Ids PROVE Tends(fut, Chained(f))
  <2>1. CASE Len(b.inputs) = 0
    BY <1>8, <2>1
  <2>2. CASE Len(b.inputs) # 0
    <3> DEFINE q == [b.inputs EXCEPT ![1] = f]
    <3>1. b.inputs \in Seq(Ids)
      BY <1>6 DEF SlotType
    <3>2. q \in Seq(Ids)
      BY <2>2, <3>1
    <3>3. c(f) = [b EXCEPT !.inputs = q]
      BY Zenon
    <3> HIDE DEF q, c
    <3>4. c(f) \in SlotType
      <4>1. [b EXCEPT !.inputs = q] \in SlotType
        BY <1>6, <3>2, Zenon DEF SlotType
      <4>2. QED
        BY <3>3, <4>1
    <3>5. /\ c(f).allocated = b.allocated /\ c(f).seq = b.seq /\ c(f).state = b.state
          /\ c(f).generation = b.generation /\ c(f).handle = b.handle
          /\ c(f).lane_waiting = b.lane_waiting
          /\ c(f).kind = b.kind /\ c(f).called = b.called /\ c(f).running = b.running
      BY <1>6, <3>3 DEF SlotType
    <3> DEFINE d == c(f)
    <3>6. /\ d \in SlotType /\ d.allocated = a.allocated /\ d.seq = a.seq /\ d.state = a.state
          /\ d.generation = a.generation /\ d.handle = a.handle
          /\ d.lane_waiting = a.lane_waiting /\ d.kind = a.kind /\ d.called = TRUE
      BY <1>7, <3>4, <3>5 DEF Same
    <3> HIDE DEF d
    <3>7. Tends(fut, Put(fut, s, d))
      BY <1>0, <1>1, <3>6, SameTends DEF Begun
    <3>8. QED
      BY <2>2, <3>7 DEF d
  <2>3. QED
    BY <2>1, <2>2
<1> HIDE DEF w, Chained
<1>11. "rejected" \in Terminal /\ "fulfilled" \in Terminal
  BY DEF Terminal
<1>12. Tends(fut, fut')
  BY <1>1, <1>2, <1>8, <1>9, <1>10, <1>11, SettleAfterTends
<1>13. QED
  BY <1>2, <1>4, <1>12, TendFits

\* A waiter of a lane gets its turn.
LEMMA LaneFits ==
    ASSUME IInv, AInv, dispatch_waiting_lanes PROVE AInv'
<1> DEFINE s == NextWaiting(fut)
           a == fut.slots[s]
           b == [a EXCEPT !.lane_waiting = FALSE]
<1>0. /\ fut \in World /\ Tracked(fut) /\ StackOK(stack)
      /\ \A p \in Slots : NamedSlot(fut.slots[p])
  BY Here
<1>1. s # NoSlot
  BY DEF dispatch_waiting_lanes, Reaches, HasWork
<1>2. s \in Slots /\ a.driver_active
  BY <1>0, <1>1, NextWaitingIn DEF Waiting
<1>3. /\ \/ a.state = "queued" /\ \E ok \in BOOLEAN : fut' = StartDriver(fut, s, ok)
         \/ a.state # "queued" /\ fut' = Put(fut, s, b)
      /\ \E n \in {At("lanes"), At("lanes") + 1} : Move("lanes", n)
      /\ UNCHANGED <<next, submissions, shutting_down>>
  <2>1. CASE a.state = "queued"
    BY <2>1 DEF dispatch_waiting_lanes
  <2>2. CASE a.state # "queued"
    BY <2>2 DEF dispatch_waiting_lanes
  <2>3. QED
    BY <2>1, <2>2
<1> HIDE DEF s
<1>4. Calms(stack, stack')
  BY <1>0, <1>3, CalmMove
<1>5. a \in SlotType /\ FALSE \in BOOLEAN
  BY <1>0, <1>2, WorldFields
<1>6. b \in SlotType
  BY <1>5, Zenon DEF SlotType
<1>7. Same(a, b) /\ b.state = a.state /\ b.kind = a.kind
      /\ b.running = a.running /\ b.called = a.called
  BY <1>5 DEF SlotType, Same
<1> HIDE DEF b
<1>8. Tends(fut, fut')
  <2>1. CASE a.state = "queued" /\ \E ok \in BOOLEAN : fut' = StartDriver(fut, s, ok)
    <3>1. Starts(fut, fut', s)
      BY <1>0, <1>2, <2>1, StartGives
    <3>2. QED
      BY <1>0, <1>2, <2>1, <3>1, StartTends
  <2>2. CASE a.state # "queued" /\ fut' = Put(fut, s, b)
    BY <1>0, <1>2, <1>6, <1>7, <2>2, SameTends DEF Same, Begun
  <2>3. QED
    BY <1>3, <2>1, <2>2
<1>9. QED
  BY <1>3, <1>4, <1>8, TendFits

\* Combinators copy the end of an input.
LEMMA CopyTends ==
    ASSUME NEW w \in World, Tracked(w), NEW s \in Slots, NamedSlot(w.slots[s]), NEW source
    PROVE  Tends(w, CopyTerminal(w, s, source))
<1>1. w.slots[s].seq \in Ids \union {0}
  BY WorldFields DEF SlotType
<1>2. CASE HandleState(w, source) \in Terminal
  BY <1>1, <1>2, SettleTends DEF CopyTerminal
<1>3. CASE HandleState(w, source) \notin Terminal
  BY <1>3, TendsSame DEF CopyTerminal
<1>4. QED
  BY <1>2, <1>3

\* Whatever a combinator does is such a step.
LEMMA AdvanceTends ==
    ASSUME IInv, AInv, NEW s \in Slots, fut.slots[s].allocated,
           fut.slots[s].state = "pending", NEW answer
    PROVE  Tends(fut, Advance(s, answer))
<1> DEFINE f == fut.slots[s].seq
<1>0. /\ fut \in World /\ Tracked(fut) /\ Owned(fut)
      /\ \A p \in Slots : NamedSlot(fut.slots[p])
  BY Here DEF IInv
<1>1. f \in Ids \union {0} /\ "fulfilled" \in Terminal /\ "rejected" \in Terminal
  BY <1>0, WorldFields DEF SlotType, Terminal
<1>2. Tends(fut, fut) /\ \A x : Tends(fut, CopyTerminal(fut, s, x))
  BY <1>0, TendsSame, CopyTends
<1>3. Tends(fut, Settle(fut, s, "fulfilled", f))
  BY <1>0, <1>1, SettleTends
<1>4. Tends(fut, advance_all(s))
  BY <1>2, <1>3, Zenon DEF advance_all
<1>5. Tends(fut, advance_race(s))
  BY <1>2, Zenon DEF advance_race
<1>6. Tends(fut, advance_continuation(s))
  BY <1>2, Zenon DEF advance_continuation
<1>7. CASE fut.slots[s].kind = "timeout"
  <2> DEFINE input == fut.slots[s].inputs[1]
             in == HandleSlot(fut, input)
             w == IF in # NoSlot THEN CancelSlot(fut, in, answer) ELSE fut
  <2>1. input \in Ids
    BY <1>0, <1>7, InputIs
  <2>2. Tends(fut, w) /\ Sound(fut, w)
    <3>1. in # NoSlot => in \in Slots /\ fut.slots[in].allocated
      BY <1>0, <2>1, HandleLeads
    <3>2. in # NoSlot => Tends(fut, CancelSlot(fut, in, answer))
      BY <1>0, <3>1, CancelTends
    <3>3. in # NoSlot => Sound(fut, CancelSlot(fut, in, answer))
      BY <1>0, <3>1, CancelSound
    <3>4. QED
      BY <1>0, <1>2, <3>2, <3>3, SoundSame
  <2> HIDE DEF w
  <2>3. w \in World /\ NamedSlot(w.slots[s])
    BY <2>2 DEF Sound, Owned
  <2>4. Tends(fut, Settle(w, s, "rejected", f))
    BY <1>1, <2>2, <2>3, SettleAfterTends
  <2>5. Tends(fut, advance_timeout(s, answer))
    BY <1>2, <2>4, Zenon DEF advance_timeout, w
  <2>6. QED
    BY <1>7, <2>5 DEF Advance
<1>8. CASE fut.slots[s].kind # "timeout"
  BY <1>4, <1>5, <1>6, <1>8 DEF Advance
<1>9. QED
  BY <1>7, <1>8

\* Combinators advance, or call their continuation.
LEMMA CombineFits ==
    ASSUME IInv, AInv, advance_combinators PROVE AInv'
<1> DEFINE s == Least(From("combine", Combinators))
           a == fut.slots[s]
           b == [a EXCEPT !.running = TRUE]
           t == [Top EXCEPT !.phase = "cont", !.n = s + 1, !.now = Now,
                            !.run = fut.slots[s].seq, !.runSlot = s]
           u == [Top EXCEPT !.phase = "combine", !.n = s + 1, !.now = Now]
<1>0. /\ fut \in World /\ Tracked(fut) /\ StackOK(stack) /\ next \in Nat
      /\ stack \in Seq(FrameType)
  BY Here DEF IInv, RestOK, StackOK
<1>1. s \in Slots /\ a.allocated /\ a.state = "pending"
  BY ReachesLeast DEF advance_combinators, Combinators
<1>2. /\ \/ RunsContinuation(s) /\ fut' = Put(fut, s, b) /\ SetTop(t)
         \/ (\E answer \in CancelResults : fut' = Advance(s, answer)) /\ SetTop(u)
      /\ UNCHANGED <<next, submissions, shutting_down>>
  BY Zenon DEF advance_combinators
<1> HIDE DEF s
<1>3. Top \in FrameType
  BY <1>0, TopIs
<1>4. t.run = a.seq /\ u.run = Top.run
  BY <1>3 DEF FrameType
<1> HIDE DEF t, u
<1>5. a \in SlotType /\ TRUE \in BOOLEAN
  BY <1>0, <1>1, WorldFields
<1>6. b \in SlotType
  BY <1>5, Zenon DEF SlotType
<1>7. Same(a, b) /\ b.state = a.state /\ b.kind = a.kind /\ b.lane_waiting = a.lane_waiting
      /\ b.running = TRUE /\ b.called = a.called
  BY <1>5 DEF SlotType, Same
<1> HIDE DEF b
<1>8. Tends(fut, Put(fut, s, b)) /\ Put(fut, s, b).slots[s] = b
  BY <1>0, <1>1, <1>6, <1>7, SameTends DEF Same, Begun
<1>9. CASE RunsContinuation(s) /\ fut' = Put(fut, s, b) /\ SetTop(t)
  <2>1. ~Begun(a)
    BY <1>9 DEF RunsContinuation, Begun
  <2>2. Begun(b)
    BY <1>1, <1>7 DEF Begun
  <2>3. Calling(stack, stack', a.seq)
    BY <1>0, <1>4, <1>9, CallTop
  <2>4. Tends(fut, fut') /\ Runs(fut', stack', next)
    BY <1>1, <1>8, <1>9, <2>1, <2>2, <2>3, CallFits
  <2>5. AllGo(fut, fut') /\ Tracked(fut') /\ (Wanted(fut) => Wanted(fut'))
    BY <2>4 DEF Tends
  <2>6. submissions \in Seq(TokenType)
    BY DEF IInv, QueuesOK
  <2>7. Tokens(fut', submissions) /\ (Queued(fut, submissions) => Queued(fut', submissions))
    BY <1>0, <2>5, <2>6, TokensStay DEF AInv, Fit
  <2>8. Fit(fut', submissions', stack', next')
    BY <1>2, <2>4, <2>5, <2>7 DEF AInv, Fit
  <2>9. shutting_down' \/ Waited(fut', submissions')
    BY <1>2, <2>5, <2>7 DEF AInv, Waited
  <2>10. QED
    BY <2>8, <2>9, Fits
<1>10. CASE (\E answer \in CancelResults : fut' = Advance(s, answer)) /\ SetTop(u)
  <2>1. Tends(fut, fut')
    BY <1>1, <1>10, AdvanceTends
  <2>2. Calms(stack, stack')
    BY <1>0, <1>4, <1>10, CalmTop
  <2>3. QED
    BY <1>2, <2>1, <2>2, TendFits
<1>11. QED
  BY <1>2, <1>9, <1>10
-------------------------------------------------------------------------------
(* The steps that are left. *)

\* A driver whose capture fails: the Future is over before it is sent.
LEMMA CaptureFailsFits ==
    ASSUME IInv, AInv, capture_call_driver
    PROVE  AInv' /\ fut'.handles[next'].alive
<1> DEFINE s == FindFree(FALSE)
           f == next + 1
           w == AllocateSlot(s, "call", NoKey, FALSE, <<>>)
           v == Settle(w, s, "rejected", f)
<1>1. /\ next < MaxFutures /\ s # NoSlot /\ next' = f /\ fut' = v
      /\ UNCHANGED <<submissions, stack, shutting_down>>
  BY DEF capture_call_driver
<1>2. s \in Slots /\ ~fut.slots[s].allocated
  BY <1>1, FreeIs
<1>3. next \in Nat /\ f \in Ids /\ f \in Nat /\ f \in Ids \union {0}
  BY <1>1, FutureAssumption DEF IInv, RestOK, Ids
<1>4. /\ "call" \in AllKinds /\ NoKey \in Keys \union {NoKey} /\ FALSE \in BOOLEAN
      /\ <<>> \in Seq(Ids) /\ "rejected" \in Terminal /\ "rejected" \in States
  BY DEF AllKinds, Terminal, States
<1>5. fut \in World /\ Below(fut, next) /\ stack \in Seq(FrameType)
      /\ submissions \in Seq(TokenType)
  BY DEF IInv, StackOK, QueuesOK
<1>6. Tracked(fut) /\ Tokens(fut, submissions) /\ Distinct(submissions)
      /\ Runs(fut, stack, next)
  BY DEF AInv, Fit
<1> HIDE DEF s
<1>7. Takes(fut, w, s, f, "call", NoKey, FALSE, <<>>)
  BY <1>1, <1>2, <1>3, <1>4, <1>5, AllocateGives
<1> HIDE DEF w
<1>8. w \in World /\ Others(fut, w, s)
  BY <1>7 DEF Takes
<1>9. /\ Tracked(w) /\ (Wanted(fut) => Wanted(w)) /\ w.handles[f].alive
      /\ ~w.handles[f].terminal
      /\ TakenFields(fut.slots[s], w.slots[s], f, "call", NoKey, FALSE, <<>>)
  BY <1>2, <1>3, <1>4, <1>5, <1>6, <1>7, TakesTracked
<1>10. /\ w.slots[s].generation = fut.slots[s].generation + 1 /\ w.slots[s].seq = f
       /\ w.slots[s].state = "queued" /\ w.slots[s].allocated
       /\ w.slots[s].driver_active = FALSE
  BY <1>9 DEF TakenFields
<1>11. NamedSlot(w.slots[s]) /\ w.slots[s].state \notin Terminal
  BY <1>3, <1>10 DEF NamedSlot, Terminal, Ids
<1>12. Tends(w, v) /\ NotQueued(v.slots[s])
  BY <1>2, <1>3, <1>4, <1>8, <1>9, <1>11, TendsSame, SettleAfterTends
<1>13. /\ Others(w, v, s) /\ v.handles = ToldIn(w, s, "rejected", f)
  BY <1>2, <1>3, <1>4, <1>8, <1>10, <1>11, SettleOver DEF Over
<1> DEFINE x == ToldIn(w, s, "rejected", f)
<1>14. ToldOK(w, x, s, "rejected", f)
  BY <1>2, <1>3, <1>4, <1>8, <1>10, <1>11, ToldIs
<1> HIDE DEF v
<1>15. v.handles[f].alive
  <2>1. v.handles = x
    BY <1>13
  <2> HIDE DEF x
  <2>2. QED
    BY <1>9, <1>10, <1>14, <2>1 DEF ToldOK
<1> HIDE DEF x
<1>16. Runs(v, stack', f)
  <2>1. Runs(w, stack, f)
    BY <1>2, <1>3, <1>5, <1>6, <1>8, <1>10, TakesRuns
  <2>2. AllGo(w, v) /\ Calms(stack, stack')
    BY <1>1, <1>12, CalmSame DEF Tends
  <2>3. QED
    BY <1>3, <1>5, <2>1, <2>2, CalmRuns
<1>17. Tokens(v, submissions)
  <2>1. \A i \in 1 .. Len(submissions) : submissions[i].slot \in Slots
                                         /\ submissions[i].generation \in Nat
    <3>1. \A i \in 1 .. Len(submissions) : submissions[i] \in TokenType
      BY <1>5
    <3>2. QED
      BY <3>1 DEF TokenType
  <2>2. \A t \in Slots : w.slots[t].generation = fut.slots[t].generation
                         \/ w.slots[t].generation = fut.slots[t].generation + 1
    BY <1>8, <1>10 DEF Others
  <2>3. \A t \in Slots : fut.slots[t].generation \in Nat
    BY <1>5, WorldFields DEF SlotType
  <2>4. Tokens(w, submissions)
    <3>1. SUFFICES ASSUME NEW i \in 1 .. Len(submissions)
                   PROVE  submissions[i].generation <= w.slots[submissions[i].slot].generation
      BY DEF Tokens
    <3>2. submissions[i].generation <= fut.slots[submissions[i].slot].generation
      BY <1>6 DEF Tokens
    <3> DEFINE t == submissions[i].slot
               k == submissions[i].generation
    <3>3. t \in Slots /\ k \in Nat
      BY <2>1
    <3> HIDE DEF t, k
    <3>4. k <= fut.slots[t].generation => k <= w.slots[t].generation
      BY <2>2, <2>3, <3>3
    <3>5. QED
      BY <3>2, <3>4 DEF t, k
  <2>5. QED
    BY <1>5, <1>8, <1>12, <2>4, TokensStay DEF Tends
<1>18. Queued(fut, submissions) => Queued(v, submissions)
  <2>1. \A t \in Slots : t # s => v.slots[t] = fut.slots[t]
    BY <1>8, <1>13 DEF Others
  <2>2. QED
    BY <1>12, <2>1 DEF Queued, NotQueued, Token
<1>19. Fit(fut', submissions', stack', next')
  BY <1>1, <1>6, <1>12, <1>16, <1>17 DEF Fit, Tends
<1>20. shutting_down' \/ Waited(fut', submissions')
  BY <1>1, <1>9, <1>12, <1>18 DEF AInv, Waited, Tends
<1>21. QED
  BY <1>1, <1>15, <1>19, <1>20, Fits

\* The end of an activation.
LEMMA PollEndFits ==
    ASSUME IInv, AInv, PollEnds PROVE AInv'
<1> DEFINE a == [Top EXCEPT !.phase = "js", !.n = 0, !.now = {}]
<1>1. fut \in World /\ Tracked(fut) /\ StackOK(stack)
  BY Here
<1>2. UNCHANGED <<fut, next, submissions, shutting_down>> /\ SetTop(a)
  BY DEF PollEnds
<1>3. Top \in FrameType
  BY <1>1, TopIs
<1>4. a.run = Top.run
  BY <1>3 DEF FrameType
<1> HIDE DEF a
<1>5. Calms(stack, stack')
  BY <1>1, <1>2, <1>4, CalmTop
<1>6. QED
  BY <1>1, <1>2, <1>5, TendsSame, TendFits

\* The clock, native operations and the timer task.
LEMMA EnvironmentFits ==
    ASSUME IInv, AInv, Environment PROVE AInv'
<1>1. fut \in World /\ Tracked(fut) /\ StackOK(stack)
  BY Here
<1>2. UNCHANGED <<next, submissions, stack, shutting_down>>
  BY DEF Environment, DeadlinePasses, NativeCompletes, future_wake, TimerFires,
         sleep_timer_callback
<1>3. CASE UNCHANGED fut
  BY <1>1, <1>2, <1>3, TendsSame, CalmSame, TendFits
<1>4. CASE \E f \in Ids : NativeCompletes(f)
  <2>1. PICK f \in Ids : fut' = [fut EXCEPT !.native[f] = "done"]
    BY <1>4 DEF NativeCompletes
  <2>2. "done" \in NativeStates
    BY DEF NativeStates
  <2>3. fut' \in World /\ fut'.slots = fut.slots /\ fut'.handles = fut.handles
    BY <1>1, <2>1, <2>2, NativeIs
  <2>4. Tends(fut, fut')
    BY <1>1, <2>3, NativeTends
  <2>5. QED
    BY <1>2, <2>4, CalmSame, TendFits
<1>5. CASE TimerFires
  <2>1. PICK s \in Slots : fut' = Put(fut, s, [fut.slots[s] EXCEPT !.timer = "fired"])
    BY <1>5 DEF TimerFires
  <2> DEFINE a == fut.slots[s]
             b == [a EXCEPT !.timer = "fired"]
  <2>2. a \in SlotType /\ "fired" \in {"none", "armed", "fired"}
    BY <1>1, WorldFields
  <2>3. b \in SlotType
    BY <2>2, Zenon DEF SlotType
  <2>4. /\ b.allocated = a.allocated /\ b.generation = a.generation /\ b.seq = a.seq
        /\ b.state = a.state /\ b.handle = a.handle /\ b.lane_waiting = a.lane_waiting
        /\ b.kind = a.kind /\ b.running = a.running /\ b.called = a.called
    BY <2>2 DEF SlotType
  <2>5. fut' = Put(fut, s, b)
    BY <2>1
  <2> HIDE DEF b
  <2>6. Begun(a) => Begun(b)
    BY <2>4 DEF Begun
  <2>7. Tends(fut, fut')
    BY <1>1, <2>3, <2>4, <2>5, <2>6, SameTends
  <2>8. QED
    BY <1>2, <2>7, CalmSame, TendFits
<1>6. QED
  BY <1>3, <1>4, <1>5 DEF Environment, DeadlinePasses, future_wake, sleep_timer_callback

\* What a pass of the teardown does with a slot.
LEMMA MarkedGoes ==
    ASSUME NEW a \in SlotType, a.state \notin Terminal, NEW answer
    PROVE  Goes(a, [a EXCEPT !.state = IF answer = "cancelled" THEN "cancelled" ELSE @,
                             !.cancel_requested = (answer = "requested")])
<1> DEFINE state == IF answer = "cancelled" THEN "cancelled" ELSE a.state
           asked == answer = "requested"
           b == [a EXCEPT !.state = state, !.cancel_requested = asked]
<1>1. state = a.state \/ state = "cancelled"
  OBVIOUS
<1>2. b = [a EXCEPT !.state = IF answer = "cancelled" THEN "cancelled" ELSE @,
                    !.cancel_requested = (answer = "requested")]
  BY Zenon
<1> HIDE DEF state, asked
<1>3. /\ b.allocated = a.allocated /\ b.generation = a.generation /\ b.seq = a.seq
      /\ b.handle = a.handle /\ b.lane_waiting = a.lane_waiting /\ b.kind = a.kind
      /\ b.running = a.running /\ b.called = a.called /\ b.state = state
  BY DEF SlotType
<1> HIDE DEF b
<1>4. Goes(a, b)
  BY <1>1, <1>3 DEF Goes, Begun
<1>5. QED
  BY <1>2, <1>4

\* Slots that empty or keep their Futures keep every object its own.
LEMMA PassTends ==
    ASSUME NEW w \in World, Tracked(w), NEW v \in World, v.handles = w.handles, AllGo(w, v),
           \A s \in Slots : v.slots[s].handle => w.slots[s].handle
    PROVE  Tracked(v)
<1>1. \A s \in Slots : Goes(w.slots[s], v.slots[s])
  BY DEF AllGo
<1>2. \A s \in Slots : Linked(v, s)
  BY <1>1 DEF Tracked, Linked, Goes
<1>3. \A f \in Ids : Leads(v, f)
  BY <1>1 DEF Tracked, Leads, Goes
<1>4. QED
  BY <1>2, <1>3 DEF Tracked

\* The teardown: objects may lose their slots, but none gets a wrong one.
LEMMA TeardownFits ==
    ASSUME IInv, AInv, IInv', prepare_future_runtime_destroy PROVE AInv'
<1> DEFINE gone == {s \in Slots : fut.slots[s].allocated /\ TornDown(fut.slots[s])}
           Pass(s, answer) ==
                LET slot == fut.slots[s] IN
                IF s \in gone THEN EmptySlot(slot.generation)
                ELSE IF slot.driver_active /\ slot.state \notin Terminal
                        /\ ~slot.cancel_requested
                THEN [slot EXCEPT
                        !.state = IF answer[s] = "cancelled" THEN "cancelled" ELSE @,
                        !.cancel_requested = (answer[s] = "requested")]
                ELSE slot
           native == [f \in Ids |->
                     IF \E s \in gone : fut.slots[s].driver_active /\ fut.slots[s].seq = f
                     THEN "destroyed" ELSE fut.native[f]]
<1>0. fut \in World /\ fut' \in World /\ stack \in Seq(FrameType) /\ next \in Nat
      /\ submissions \in Seq(TokenType)
  BY DEF IInv, StackOK, RestOK, QueuesOK
<1>1. PICK answer : fut' = [fut EXCEPT !.slots = [s \in Slots |-> Pass(s, answer)],
                                       !.native = native]
  BY Zenon DEF prepare_future_runtime_destroy
<1>2. shutting_down' = TRUE /\ UNCHANGED <<next, submissions, stack>>
  BY DEF prepare_future_runtime_destroy
<1> DEFINE slots == [s \in Slots |-> Pass(s, answer)]
<1>3. ASSUME NEW s \in Slots
      PROVE  Goes(fut.slots[s], slots[s]) /\ (slots[s].handle => fut.slots[s].handle)
  <2>1. fut.slots[s] \in SlotType
    BY <1>0, WorldFields
  <2> DEFINE a == fut.slots[s]
             c == answer[s]
             b == [a EXCEPT !.state = IF c = "cancelled" THEN "cancelled" ELSE @,
                            !.cancel_requested = (c = "requested")]
  <2>2. \/ slots[s] = EmptySlot(a.generation)
        \/ slots[s] = a
        \/ slots[s] = b /\ a.state \notin Terminal
    BY Zenon
  <2> HIDE DEF slots, c
  <2>3. Goes(a, EmptySlot(a.generation)) /\ ~EmptySlot(a.generation).handle
    BY <2>1, EmptyGoes
  <2>4. Goes(a, a)
    BY DEF Goes
  <2>5. a.state \notin Terminal => Goes(a, b)
    BY <2>1, MarkedGoes, Zenon
  <2>6. b.handle = a.handle
    BY <2>1 DEF SlotType
  <2> HIDE DEF b
  <2>7. QED
    BY <2>2, <2>3, <2>4, <2>5, <2>6
<1>4. fut' = [fut EXCEPT !.slots = slots, !.native = native]
  BY <1>1
<1> HIDE DEF slots, native, gone
<1>5. fut'.slots = slots /\ fut'.handles = fut.handles
  BY <1>0, <1>4 DEF World
<1>6. AllGo(fut, fut')
  BY <1>3, <1>5 DEF AllGo
<1>7. Tracked(fut')
  BY <1>0, <1>3, <1>5, <1>6, PassTends DEF AInv, Fit
<1>8. Tokens(fut', submissions)
  BY <1>0, <1>6, TokensStay DEF AInv, Fit
<1>9. Runs(fut', stack, next)
  BY <1>0, <1>6, CalmSame, CalmRuns DEF AInv, Fit
<1>10. Fit(fut', submissions', stack', next')
  BY <1>2, <1>7, <1>8, <1>9 DEF AInv, Fit
<1>11. QED
  BY <1>2, <1>10, Fits

\* In the initial state nothing waits.
LEMMA StartFits == ASSUME Init PROVE AInv
<1>1. IInv
  BY Start
<1>2. /\ fut = [slots |-> [s \in Slots |-> EmptySlot(0)],
                handles |-> [f \in Ids |-> NoHandle], native |-> [f \in Ids |-> "none"]]
      /\ submissions = <<>> /\ stack = <<Frame("js", 0, FALSE)>> /\ next = 0
  BY DEF Init
<1>3. fut.slots = [s \in Slots |-> EmptySlot(0)] /\ fut.handles = [f \in Ids |-> NoHandle]
  BY <1>2
<1>4. \A s \in Slots : ~fut.slots[s].allocated
  BY <1>3 DEF EmptySlot
<1>5. \A f \in Ids : ~fut.handles[f].alive /\ fut.handles[f].slot \notin Slots
  BY <1>3, NumbersAre DEF NoHandle
<1>6. Tracked(fut) /\ Wanted(fut) /\ Queued(fut, submissions)
  BY <1>4, <1>5 DEF Tracked, Linked, Leads, Wanted, Queued
<1>7. Tokens(fut, submissions) /\ Distinct(submissions)
  BY <1>2 DEF Tokens, Distinct
<1>8. Len(stack) = 1 /\ stack[1].run = 0
  BY <1>2 DEF Frame
<1>9. \A i \in 1 .. Len(stack) : stack[i].run = 0
  BY <1>8
<1>10. Runs(fut, stack, next)
  <2>1. next = 0
    BY <1>2
  <2>2. \A i \in 1 .. Len(stack) : stack[i].run <= next
    BY <1>9, <2>1
  <2>3. QED
    BY <1>9, <2>2 DEF Runs
<1>11. QED
  BY <1>6, <1>7, <1>10 DEF AInv, Fit, Waited

\* Every step keeps the invariant, and creates no Future without an object.
LEMMA StepFits ==
    ASSUME IInv, AInv, [Next]_vars
    PROVE  AInv' /\ (next' # next => fut'.handles[next'].alive)
<1>0. IInv'
  BY Steps DEF StepOK
<1>1. CASE \/ js_future_call \/ CallDriver \/ js_future_sleep \/ capture_call_driver
           \/ future_call_and_wait \/ js_future_timeout
           \/ \E kind \in {"all", "race"} : future_make_combinator(kind)
           \/ \E kind \in {"map", "flatMap"} : future_make_continuation(kind)
  BY <1>1, CreateFits, CaptureFailsFits, CallAndWaitFits, CombinatorFits
<1>2. CASE js_future_cancel \/ js_future_finalizer \/ js_future_wait \/ WaitReturns
  BY <1>2, ObjectFits DEF js_future_cancel, js_future_finalizer, js_future_wait, WaitReturns
<1>3. CASE Poll
  <2>1. AInv'
    BY <1>3, DeadlineFits, DispatchFits, ReadyFits, ActiveFits, LaneFits, CombineFits,
       CallReturnFits, ContinuationReturnFits, PollEndFits DEF Poll
  <2>2. next' = next
    BY <1>3 DEF Poll, expire_deadlines, advance_sleep_deadlines, DispatchStep, ReadyStep,
       poll_active_drivers, dispatch_waiting_lanes, advance_combinators, CallReturns,
       ContinuationReturns, PollEnds
  <2>3. QED
    BY <2>1, <2>2
<1>4. CASE Environment
  BY <1>4, EnvironmentFits DEF Environment, DeadlinePasses, NativeCompletes, future_wake,
     TimerFires, sleep_timer_callback
<1>5. CASE prepare_future_runtime_destroy
  BY <1>0, <1>5, TeardownFits DEF prepare_future_runtime_destroy
<1>6. CASE UNCHANGED vars
  <2>1. UNCHANGED <<fut, next, submissions, stack, shutting_down>>
    BY <1>6 DEF vars
  <2>2. QED
    BY <2>1, Here, TendsSame, CalmSame, TendFits
<1>7. QED
  BY <1>1, <1>2, <1>3, <1>4, <1>5, <1>6 DEF Next, Finished, JavaScript

\* Objects and tokens that lead to their slots lose nothing.
LEMMA LosesNothing == ASSUME IInv, AInv PROVE NothingLost
<1>1. CASE shutting_down
  BY <1>1, Typed DEF NothingLost, NoLostHandle, NoLostSubmission
<1>2. CASE ~shutting_down
  <2>1. Wanted(fut) /\ Queued(fut, submissions) /\ Tracked(fut)
    BY <1>2 DEF AInv, Fit, Waited
  <2>2. ASSUME NEW f \in Ids, fut.handles[f].alive, ~fut.handles[f].terminal
        PROVE  /\ HandleSlot(fut, f) # NoSlot /\ fut.slots[HandleSlot(fut, f)].seq = f
               /\ fut.slots[HandleSlot(fut, f)].handle
    <3> DEFINE s == fut.handles[f].slot
    <3>1. Held(fut, f) /\ Leads(fut, f)
      BY <2>1, <2>2 DEF Wanted, Tracked
    <3>2. /\ s \in Slots /\ s # NoSlot /\ fut.slots[s].allocated /\ fut.slots[s].handle
          /\ fut.slots[s].generation = fut.handles[f].generation /\ fut.slots[s].seq = f
      BY <3>1, NumbersAre DEF Held, Leads
    <3> DEFINE t == [slot |-> s, generation |-> fut.handles[f].generation]
    <3>3. t.slot = s /\ t.generation = fut.handles[f].generation
      OBVIOUS
    <3>4. HandleSlot(fut, f) = ResolveToken(fut, t)
      BY <2>2, <3>2 DEF HandleSlot
    <3> HIDE DEF t
    <3>5. HandleSlot(fut, f) = s
      BY <3>2, <3>3, <3>4 DEF ResolveToken
    <3>6. QED
      BY <3>2, <3>5
  <2>3. NoLostHandle
    BY <2>2 DEF NoLostHandle
  <2>4. NoLostSubmission
    BY <2>1 DEF NoLostSubmission, Queued, Sent
  <2>5. QED
    BY <2>3, <2>4, Typed DEF NothingLost
<1>3. QED
  BY <1>1, <1>2

\* Until the teardown no Future is lost.
THEOREM FuturesAreNotLost == Spec => []NothingLost
<1>1. Init => IInv /\ AInv
  BY Start, StartFits
<1>2. IInv /\ AInv /\ [Next]_vars => IInv' /\ AInv'
  BY Steps, StepFits DEF StepOK
<1>3. IInv /\ AInv => NothingLost
  BY LosesNothing
<1>4. QED
  BY <1>1, <1>2, <1>3, PTL DEF Spec

\* A callable is active at most once, however callables nest in waits and polls.
THEOREM CallablesRunOnce == Spec => []CalledOnce
<1>1. Init => IInv /\ AInv
  BY Start, StartFits
<1>2. IInv /\ AInv /\ [Next]_vars => IInv' /\ AInv'
  BY Steps, StepFits DEF StepOK
<1>3. AInv => CalledOnce
  BY DEF AInv, Fit, Runs, CalledOnce
<1>4. QED
  BY <1>1, <1>2, <1>3, PTL DEF Spec

\* Every call that found a slot for its Future is accepted by the queue.
THEOREM SubmissionsAreAccepted == Spec => SubmitAccepted
<1>1. Init => IInv /\ AInv
  BY Start, StartFits
<1>2. IInv /\ AInv /\ [Next]_vars => IInv' /\ AInv'
  BY Steps, StepFits DEF StepOK
<1>3. IInv /\ AInv /\ [Next]_vars => [next' # next => fut'.handles[next'].alive]_vars
  BY StepFits
<1>4. QED
  BY <1>1, <1>2, <1>3, PTL DEF Spec, SubmitAccepted
===============================================================================
