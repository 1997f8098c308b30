-------------------------- MODULE FutureCallsProofs --------------------------
(***************************************************************************)
(* Proofs about FutureScheduler: a Future is settled by its own callable   *)
(* or driver, lanes start their operations in the order of their           *)
(* submission, a cancellation that was asked for is what the Future ends   *)
(* with, and no sleep ends before its time.  They hold as long as no       *)
(* Future is settled while its callable runs (~CancelOnStack), the last    *)
(* one when the timer task shares the core of the runtime task (SameCore); *)
(* the run future_slot_reuse shows what happens without the first.         *)
(*                                                                         *)
(* The argument is about what a step does with a slot.  One that creates   *)
(* no Future changes kind, inputs and requests only as they may (Heeds),   *)
(* ends nothing but aptly (Duly), and leaves the slots alone that          *)
(* callables run for (Spares); a new Future is the youngest, and waits for *)
(* objects that JavaScript can see.  The order of a lane is that of the    *)
(* queue before it (Ordered), and those that wait in a lane are older than *)
(* all that is still to come (Elder).                                      *)
(***************************************************************************)
EXTENDS FutureSchedulerProofs

(* Whose result it is. *)

\* A slot has no result but that of its own Future; a free one is empty; only
\* drivers are started, are asked to stop or outlive their Future, and what was
\* not started is queued.
Sane(a) ==
    /\ a.result \in {0, a.seq}
    /\ ~a.allocated => a = EmptySlot(a.generation)
    /\ a.driver_active => a.kind = "driver" /\ (~a.driver_started => a.state = "queued")
    /\ a.deadline => a.kind \in {"driver", "sleep", "timeout"}
    /\ a.cancel_requested => a.driver_active /\ a.state # "queued"
    /\ a.state = "fulfilled" => ~a.handle

\* Some slot waits for the Future f.
Awaited(w, f) ==
    \E s \in Slots : \E i \in 1 .. Len(w.slots[s].inputs) : w.slots[s].inputs[i] = f

\* A timeout was put on something that no callable runs for.
Tame == {"sleep", "driver", "all", "race"}
Harmless(w, f) ==
    LET h == w.handles[f]
        a == w.slots[h.slot]
    IN h.slot \in Slots /\ ~h.terminal /\ a.allocated /\ a.generation = h.generation
       => a.kind \in Tame

\* What is known of the slots, objects and operations: an object tells its own end,
\* the objects there are belong to Futures that were created, what is waited for is
\* held, and only drivers have an operation.
Minded(w, n) ==
    /\ \A s \in Slots : Sane(w.slots[s])
    /\ \A f \in Ids : w.handles[f].by \in {0, f}
    /\ \A f \in Ids : w.handles[f].alive => f <= n
    /\ \A f \in Ids : Awaited(w, f) => w.handles[f].alive
    /\ \A s \in Slots : w.slots[s].allocated /\ w.slots[s].kind # "driver"
                        => w.native[w.slots[s].seq] = "none"
    /\ \A s \in Slots : /\ w.slots[s].allocated /\ w.slots[s].kind = "timeout"
                        /\ w.slots[s].inputs # <<>>
                        => Harmless(w, w.slots[s].inputs[1])

\* An activation that called something, and the slot it did it for: a callable,
\* or a continuation whose input is there to stay.
Calls(a) == a.phase \in {"call", "cont"}
Tied(w, f) == w.handles[f].terminal /\ w.handles[f].state = "fulfilled"
Occupied(w, a) ==
    LET b == w.slots[a.runSlot] IN
    /\ a.run # 0 /\ a.runSlot \in Slots
    /\ b.allocated /\ b.seq = a.run /\ b.state = "pending"
    /\ b.kind \in {"js_call", "map", "flatMap"}
    /\ b.kind # "js_call" => b.running /\ Tied(w, b.inputs[1])
Engaged(w, st) ==
    \A i \in 1 .. Len(st) : /\ Calls(st[i]) => Occupied(w, st[i])
                            /\ st[i].sync => ~Awaited(w, st[i].wait)

\* What a step that creates no Future does to a slot ...
Alters(a, b) ==
    /\ Sane(b)
    /\ b.allocated => b.kind = a.kind \/ (a.kind = "call" /\ b.kind = "js_call")
    /\ b.inputs \in {a.inputs, <<>>}
Changes(a, b) == Alters(a, b) /\ (b.allocated /\ b.lane_waiting => a.lane_waiting)
\* ... to an object ...
Remains(g, h, f) ==
    /\ h.slot = g.slot /\ h.generation = g.generation /\ (h.alive => g.alive)
    /\ h.by \in {0, f}
\* ... and to all of them, if it parks nothing in a lane or does.
Respects(w, v) ==
    /\ \A s \in Slots : Alters(w.slots[s], v.slots[s])
    /\ \A f \in Ids : Remains(w.handles[f], v.handles[f], f)
    /\ \A f \in Ids : Awaited(v, f) =>
          /\ w.handles[f].terminal => v.handles[f] = w.handles[f]
          /\ w.handles[f].alive => v.handles[f].alive
    /\ \A f \in Ids : v.native[f] = "none" <=> w.native[f] = "none"
Heeds(w, v) == Respects(w, v) /\ \A s \in Slots : Changes(w.slots[s], v.slots[s])

\* A slot that a callable runs for is left as it is.
Spare(a, b) ==
    /\ b.allocated = a.allocated /\ b.seq = a.seq /\ b.state = a.state /\ b.kind = a.kind
    /\ b.running = a.running /\ b.inputs = a.inputs
Spares(w, v, st) ==
    \A i \in 1 .. Len(st) : Calls(st[i]) => Spare(w.slots[st[i].runSlot], v.slots[st[i].runSlot])

\* A stack on which nothing new is called or waited for by a native method.
Rests(st, tt) ==
    \A i \in 1 .. Len(tt) :
       /\ Calls(tt[i]) => /\ i \in 1 .. Len(st) /\ Calls(st[i])
                          /\ tt[i].run = st[i].run /\ tt[i].runSlot = st[i].runSlot
       /\ tt[i].sync => i \in 1 .. Len(st) /\ st[i].sync /\ tt[i].wait = st[i].wait

\* No new input.
LEMMA AwaitedWas ==
    ASSUME NEW w, NEW v, Respects(w, v), NEW f, Awaited(v, f) PROVE Awaited(w, f)
<1>1. PICK s \in Slots : \E i \in 1 .. Len(v.slots[s].inputs) : v.slots[s].inputs[i] = f
  BY DEF Awaited
<1>2. v.slots[s].inputs \in {w.slots[s].inputs, <<>>}
  BY DEF Respects, Alters
<1>3. v.slots[s].inputs = w.slots[s].inputs
  BY <1>1, <1>2
<1>4. QED
  BY <1>1, <1>3 DEF Awaited

\* Doing nothing heeds everything ...
LEMMA HeedsSame ==
    ASSUME NEW w, NEW n, Minded(w, n) PROVE Heeds(w, w)
  BY DEF Heeds, Respects, Changes, Alters, Remains, Minded

\* ... and two such steps are one.
LEMMA HeedsChain ==
    ASSUME NEW w, NEW u, NEW v, AllGo(u, v), Heeds(w, u), Heeds(u, v)
    PROVE  Heeds(w, v)
<1>1. \A s \in Slots : Changes(w.slots[s], v.slots[s])
  BY DEF Heeds, Changes, Alters, AllGo, Goes
<1>2. \A f \in Ids : Remains(w.handles[f], v.handles[f], f)
  BY DEF Heeds, Respects, Remains
<1>3. ASSUME NEW f \in Ids, Awaited(v, f)
      PROVE  /\ w.handles[f].terminal => v.handles[f] = w.handles[f]
             /\ w.handles[f].alive => v.handles[f].alive
  <2>1. Awaited(u, f)
    BY <1>3, AwaitedWas DEF Heeds
  <2>2. /\ w.handles[f].terminal => u.handles[f] = w.handles[f]
        /\ w.handles[f].alive => u.handles[f].alive
    BY <1>3, <2>1 DEF Heeds, Respects
  <2>3. QED
    BY <1>3, <2>2 DEF Heeds, Respects
<1>4. \A f \in Ids : v.native[f] = "none" <=> w.native[f] = "none"
  BY DEF Heeds, Respects
<1>5. QED
  BY <1>1, <1>2, <1>3, <1>4 DEF Heeds, Respects, Changes

\* The first input of a slot is awaited.
LEMMA FirstAwaited ==
    ASSUME NEW w \in World, NEW s \in Slots, w.slots[s].inputs # <<>>
    PROVE  w.slots[s].inputs[1] \in Ids /\ Awaited(w, w.slots[s].inputs[1])
<1> DEFINE in == w.slots[s].inputs
<1>1. in \in Seq(Ids)
  BY WorldFields DEF SlotType
<1> HIDE DEF in
<1>2. in # <<>>
  BY DEF in
<1>3. 1 \in 1 .. Len(in) /\ in[1] \in Ids
  BY <1>1, <1>2
<1>4. QED
  BY <1>3 DEF Awaited, in

\* What is heeded stays known.
LEMMA HeedsMinded ==
    ASSUME NEW w \in World, NEW n, Minded(w, n), NEW v \in World, AllGo(w, v), Respects(w, v),
           \A s \in Slots : NamedSlot(w.slots[s])
    PROVE  Minded(v, n)
<1>1. \A s \in Slots : Sane(v.slots[s])
  BY DEF Respects, Alters
<1>2. \A f \in Ids : v.handles[f].by \in {0, f}
  BY DEF Respects, Remains
<1>3. /\ \A f \in Ids : v.handles[f].alive => f <= n
      /\ \A f \in Ids : Awaited(v, f) => v.handles[f].alive
  BY AwaitedWas DEF Minded, Respects, Remains
<1>4. ASSUME NEW s \in Slots, v.slots[s].allocated, v.slots[s].kind # "driver"
      PROVE  v.native[v.slots[s].seq] = "none"
  <2>1. w.slots[s].allocated /\ v.slots[s].seq = w.slots[s].seq /\ w.slots[s].kind # "driver"
    BY <1>4 DEF AllGo, Goes, Respects, Alters
  <2>2. w.slots[s].seq \in Ids
    BY <2>1, WorldFields DEF NamedSlot, SlotType
  <2>3. QED
    BY <2>1, <2>2 DEF Minded, Respects
<1>5. ASSUME NEW s \in Slots, v.slots[s].allocated, v.slots[s].kind = "timeout",
             v.slots[s].inputs # <<>>
      PROVE  Harmless(v, v.slots[s].inputs[1])
  <2> DEFINE f == v.slots[s].inputs[1]
  <2>1. /\ w.slots[s].allocated /\ w.slots[s].kind = "timeout"
        /\ w.slots[s].inputs = v.slots[s].inputs
    BY <1>5 DEF AllGo, Goes, Respects, Alters
  <2>2. Harmless(w, f)
    BY <1>5, <2>1 DEF Minded
  <2>3. f \in Ids /\ Awaited(v, f)
    BY <1>5, FirstAwaited
  <2> HIDE DEF f
  <2>4. SUFFICES ASSUME v.handles[f].slot \in Slots, ~v.handles[f].terminal,
                        v.slots[v.handles[f].slot].allocated,
                        v.slots[v.handles[f].slot].generation = v.handles[f].generation
                 PROVE  v.slots[v.handles[f].slot].kind \in Tame
    BY DEF Harmless, f
  <2> DEFINE t == v.handles[f].slot
  <2>5. w.handles[f].slot = t /\ w.handles[f].generation = v.handles[f].generation
    BY <2>3 DEF Respects, Remains
  <2>6. ~w.handles[f].terminal
    BY <2>3, <2>4 DEF Respects
  <2>7. w.slots[t].allocated /\ w.slots[t].generation = v.handles[f].generation
    BY <2>4 DEF AllGo, Goes
  <2>8. w.slots[t].kind \in Tame
    BY <2>2, <2>4, <2>5, <2>6, <2>7 DEF Harmless
  <2>9. v.slots[t].kind = w.slots[t].kind \/ w.slots[t].kind = "call"
    BY <2>4 DEF Respects, Alters
  <2>10. QED
    BY <2>8, <2>9 DEF Tame
<1>6. QED
  BY <1>1, <1>2, <1>3, <1>4, <1>5 DEF Minded

\* A callable runs on for the Future it runs for.
LEMMA OccupiedStay ==
    ASSUME NEW w \in World, NEW v \in World, Respects(w, v), \A s \in Slots : Served(w.slots[s]),
           NEW x, Occupied(w, x), Spare(w.slots[x.runSlot], v.slots[x.runSlot]),
           NEW y, y.run = x.run, y.runSlot = x.runSlot
    PROVE  Occupied(v, y)
<1> DEFINE s == x.runSlot
           a == w.slots[s]
           b == v.slots[s]
<1>1. /\ x.run # 0 /\ s \in Slots /\ a.allocated /\ a.seq = x.run /\ a.state = "pending"
      /\ a.kind \in {"js_call", "map", "flatMap"}
      /\ a.kind # "js_call" => a.running /\ Tied(w, a.inputs[1])
  BY DEF Occupied
<1>2. a.kind # "js_call" => Tied(v, a.inputs[1])
  <2> SUFFICES ASSUME a.kind # "js_call" PROVE Tied(v, a.inputs[1])
    OBVIOUS
  <2>1. a.inputs # <<>>
    BY <1>1 DEF Served, Terminal
  <2>2. b.inputs = a.inputs
    BY DEF Spare
  <2>3. a.inputs[1] \in Ids /\ Awaited(v, a.inputs[1])
    BY <1>1, <2>1, <2>2, FirstAwaited
  <2>4. QED
    BY <1>1, <2>3 DEF Respects, Tied
<1>3. Spare(a, b) /\ y.run = x.run /\ y.runSlot = s
  OBVIOUS
<1> HIDE DEF s
<1>4. QED
  BY <1>1, <1>2, <1>3 DEF Spare, Occupied

\* Activations that are left keep their Futures.
LEMMA HeedsEngaged ==
    ASSUME NEW w \in World, NEW v \in World, Respects(w, v), \A s \in Slots : Served(w.slots[s]),
           NEW st, Engaged(w, st), NEW tt, Rests(st, tt), Spares(w, v, tt)
    PROVE  Engaged(v, tt)
<1>1. ASSUME NEW i \in 1 .. Len(tt), Calls(tt[i]) PROVE Occupied(v, tt[i])
  <2>1. i \in 1 .. Len(st) /\ Calls(st[i]) /\ st[i].run = tt[i].run
        /\ st[i].runSlot = tt[i].runSlot
    BY <1>1 DEF Rests
  <2>2. Occupied(w, st[i]) /\ Spare(w.slots[st[i].runSlot], v.slots[st[i].runSlot])
    BY <1>1, <2>1 DEF Engaged, Spares
  <2>3. QED
    BY <2>1, <2>2, OccupiedStay
<1>2. ASSUME NEW i \in 1 .. Len(tt), tt[i].sync PROVE ~Awaited(v, tt[i].wait)
  BY <1>2, AwaitedWas DEF Rests, Engaged
<1>3. QED
  BY <1>1, <1>2 DEF Engaged

\* A sleep ends well only when it is over, and what was asked to stop ends
\* cancelled, unless its time was up.
Apt(a, st) ==
    /\ SameCore /\ a.kind = "sleep" /\ st = "fulfilled" => a.seq \in due
    /\ a.cancel_requested /\ a.state = "pending" => st = "cancelled" \/ a.seq \in due
Rightly(w, v) ==
    \A s \in Slots :
       LET h == v.handles[w.slots[s].seq] IN
       w.slots[s].allocated /\ w.slots[s].handle /\ h.terminal => Apt(w.slots[s], h.state)

\* No operation is started.
Unstarted(w, v) == \A f \in Ids : v.native[f] = "running" => w.native[f] = "running"
Duly(w, v) == Rightly(w, v) /\ Unstarted(w, v)

\* Emptying a slot is such a change.
LEMMA EmptySane ==
    ASSUME NEW a \in SlotType
    PROVE  Changes(a, EmptySlot(a.generation))
<1> DEFINE e == EmptySlot(a.generation)
<1>1. a.generation \in Nat
  BY DEF SlotType
<1>2. e.allocated = FALSE /\ e.generation = a.generation /\ e.result = 0 /\ e.inputs = <<>>
      /\ e.driver_active = FALSE /\ e.deadline = FALSE /\ e.cancel_requested = FALSE
      /\ e.handle = FALSE
  BY DEF EmptySlot
<1>3. e = EmptySlot(e.generation)
  BY <1>2
<1> HIDE DEF e
<1>4. QED
  BY <1>2, <1>3 DEF Sane, Changes, Alters, e

\* So is the end of a Future, and it ends as it should when it ends aptly.
LEMMA OverHeeds ==
    ASSUME NEW w \in World, Tracked(w), Owned(w), NEW n, Minded(w, n), NEW s \in Slots,
           w.slots[s].allocated, NEW st \in Terminal, NEW r \in {0, w.slots[s].seq},
           NEW v, Over(w, v, s, st, r), NEW drops \in BOOLEAN, Ends(w, v, s, drops),
           w.slots[s].driver_active /\ w.slots[s].state = "queued" => drops
    PROVE  Heeds(w, v) /\ (Apt(w.slots[s], st) => Duly(w, v))
<1> DEFINE a == w.slots[s]
           b == v.slots[s]
           f == a.seq
           x == ToldIn(w, s, st, r)
<1>1. v \in World /\ Others(w, v, s) /\ v.handles = x
      /\ (b = EmptySlot(a.generation) \/ Left(a, b, st, r))
  BY DEF Over
<1>2. a \in SlotType /\ f \in Ids /\ r \in Ids \union {0} /\ st \in States /\ st # "queued"
      /\ NamedSlot(a)
  BY WorldFields DEF Owned, NamedSlot, SlotType, States, Terminal
<1>3. ToldOK(w, x, s, st, r)
  BY <1>2, ToldIs
<1>4. \A t \in Slots : Sane(w.slots[t])
  BY DEF Minded
<1> HIDE DEF x
<1>5. Changes(a, b)
  <2>1. CASE b = EmptySlot(a.generation)
    BY <1>2, <2>1, EmptySane
  <2>2. CASE Left(a, b, st, r)
    <3>1. ~drops /\ Stays(w, v, s)
      BY <2>2 DEF Left, Ends, Drops
    <3>2. a.state # "queued" /\ a.driver_started /\ b.driver_started
      BY <1>4, <2>2, <3>1 DEF Left, Sane, Stays
    <3>3. Sane(b)
      BY <1>2, <1>4, <2>2, <3>2 DEF Left, Sane
    <3>4. QED
      BY <2>2, <3>3 DEF Changes, Alters, Left
  <2>3. QED
    BY <1>1, <2>1, <2>2
<1>6. \A t \in Slots : Changes(w.slots[t], v.slots[t])
  <2>1. \A t \in Slots : t # s => Changes(w.slots[t], w.slots[t])
    BY <1>4 DEF Changes, Alters
  <2>2. QED
    BY <1>1, <1>5, <2>1 DEF Others
<1>7. ASSUME NEW g \in Ids PROVE Remains(w.handles[g], v.handles[g], g)
  <2>1. w.handles[g].by \in {0, g}
    BY DEF Minded
  <2>2. CASE g # f \/ ~a.handle
    <3>1. v.handles[g] = w.handles[g]
      BY <1>1, <1>3, <2>2 DEF ToldOK
    <3>2. QED
      BY <2>1, <3>1 DEF Remains
  <2>3. CASE g = f /\ a.handle
    BY <1>1, <1>3, <2>3 DEF ToldOK, Remains
  <2>4. QED
    BY <2>2, <2>3
<1>8. Linked(w, s)
  BY DEF Tracked
<1>9. ASSUME NEW g \in Ids, w.handles[g].terminal PROVE v.handles[g] = w.handles[g]
  BY <1>1, <1>3, <1>8, <1>9 DEF ToldOK, Linked
<1>10. Unstarted(w, v) /\ \A g \in Ids : v.native[g] = "none" <=> w.native[g] = "none"
  <2>1. CASE Stays(w, v, s)
    BY <2>1 DEF Stays, Unstarted
  <2>2. CASE Drops(w, v, s)
    <3>1. a.driver_active /\ v.native = [w.native EXCEPT ![f] = "destroyed"]
      BY <2>2 DEF Drops
    <3>2. w.native[f] # "none"
      BY <3>1 DEF Owned, Driven
    <3>3. QED
      BY <1>2, <3>1, <3>2, WorldFields DEF Unstarted
  <2>3. QED
    BY <2>1, <2>2 DEF Ends
<1>11. Heeds(w, v)
  <2>1. \A g \in Ids : w.handles[g].alive => v.handles[g].alive
    BY <1>1, <1>3 DEF ToldOK
  <2>2. QED
    BY <1>6, <1>7, <1>9, <1>10, <2>1 DEF Heeds, Respects, Changes
<1>12. ASSUME Apt(a, st), NEW t \in Slots, w.slots[t].allocated, w.slots[t].handle,
              v.handles[w.slots[t].seq].terminal
       PROVE  Apt(w.slots[t], v.handles[w.slots[t].seq].state)
  <2>1. CASE t = s
    BY <1>1, <1>3, <1>12, <2>1 DEF ToldOK
  <2>2. CASE t # s
    <3>1. w.slots[t].seq # f
      BY <1>12, <2>2 DEF Owned, Unique
    <3>2. Linked(w, t)
      BY DEF Tracked
    <3>3. QED
      BY <1>1, <1>3, <1>12, <3>1, <3>2 DEF ToldOK, Linked
  <2>3. QED
    BY <2>1, <2>2
<1>13. QED
  BY <1>10, <1>11, <1>12 DEF Rightly, Duly

\* Nothing ends where objects stay as they are.
LEMMA SameRightly ==
    ASSUME NEW w, Tracked(w), NEW v, v.handles = w.handles PROVE Rightly(w, v)
  BY DEF Rightly, Tracked, Linked

\* Doing nothing ends nothing.
LEMMA DulySame == ASSUME NEW w, Tracked(w), NEW n, Minded(w, n) PROVE Heeds(w, w) /\ Duly(w, w)
  BY SameRightly, HeedsSame DEF Duly, Unstarted

\* One slot changes, and no object.
LEMMA OneHeeds ==
    ASSUME NEW w, Tracked(w), NEW n, Minded(w, n), NEW v, NEW s \in Slots, Others(w, v, s),
           v.handles = w.handles, Changes(w.slots[s], v.slots[s]),
           v.native = w.native
    PROVE  Heeds(w, v) /\ Duly(w, v)
<1>1. \A t \in Slots : Changes(w.slots[t], v.slots[t])
  <2>1. \A t \in Slots : Changes(w.slots[t], w.slots[t])
    BY DEF Changes, Alters, Minded
  <2>2. QED
    BY <2>1 DEF Others
<1>2. \A f \in Ids : Remains(w.handles[f], v.handles[f], f)
  BY DEF Remains, Minded
<1>3. QED
  BY <1>1, <1>2, SameRightly DEF Heeds, Respects, Changes, Duly, Unstarted

\* No callable runs for slot s.
Clear(s, st) == \A i \in 1 .. Len(st) : Calls(st[i]) => st[i].runSlot # s

\* The slots of activations are spared by what is done to another one.
LEMMA OthersSpared ==
    ASSUME NEW w, NEW v, NEW s, Others(w, v, s), NEW st, Engaged(w, st), NEW tt, Rests(st, tt),
           Clear(s, tt)
    PROVE  Spares(w, v, tt)
<1> SUFFICES ASSUME NEW i \in 1 .. Len(tt), Calls(tt[i])
             PROVE  Spare(w.slots[tt[i].runSlot], v.slots[tt[i].runSlot])
  BY DEF Spares
<1>1. tt[i].runSlot \in Slots
  BY DEF Rests, Engaged, Occupied
<1>2. v.slots[tt[i].runSlot] = w.slots[tt[i].runSlot]
  BY <1>1 DEF Others, Clear
<1>3. QED
  BY <1>2 DEF Spare

\* Slots that do not change are spared.
LEMMA SameSpared == ASSUME NEW w, NEW v, v.slots = w.slots, NEW st PROVE Spares(w, v, st)
  BY DEF Spares, Spare

\* Two steps that spare what is called spare it together.
LEMMA SparesChain ==
    ASSUME NEW w, NEW u, NEW v, NEW st, Spares(w, u, st), Spares(u, v, st)
    PROVE  Spares(w, v, st)
  BY DEF Spares, Spare

\* Only slots of callables and continuations that wait are occupied.
LEMMA NotOccupied ==
    ASSUME NEW w, NEW st, Engaged(w, st), NEW tt, Rests(st, tt), NEW s,
           \/ ~w.slots[s].allocated \/ w.slots[s].state # "pending"
           \/ w.slots[s].kind \notin {"js_call", "map", "flatMap"}
           \/ w.slots[s].kind # "js_call" /\ ~w.slots[s].running
           \/ \A i \in 1 .. Len(st) : st[i].run # w.slots[s].seq
    PROVE  Clear(s, tt)
<1> SUFFICES ASSUME NEW i \in 1 .. Len(tt), Calls(tt[i]), tt[i].runSlot = s PROVE FALSE
  BY DEF Clear
<1>1. i \in 1 .. Len(st) /\ Calls(st[i]) /\ st[i].runSlot = s
  BY DEF Rests
<1>2. Occupied(w, st[i])
  BY <1>1 DEF Engaged
<1>3. QED
  BY <1>1, <1>2 DEF Occupied

\* What was woken of the sleeps is over, what wakes is an operation, and a timer
\* callback that keeps the runtime task waiting runs for a sleep that is over.
Woken(w, q, d) ==
    \A i \in 1 .. Len(q) :
       LET a == w.slots[q[i].slot] IN
       /\ q[i].generation <= a.generation
       /\ SameCore /\ a.allocated /\ a.generation = q[i].generation /\ a.kind = "sleep"
          => a.seq \in d
Fired(w, f, d) == SameCore /\ f # NoSlot => (w.slots[f].allocated => w.slots[f].seq \in d)
Waked(w, F) == \A f \in F : w.native[f] # "none"

\* Submissions are in the order in which they were made, and what waits in a
\* lane was made before them.
Ordered(w, q) ==
    \A i, j \in 1 .. Len(q) :
       LET a == w.slots[q[i].slot]
           b == w.slots[q[j].slot]
       IN /\ i < j
          /\ a.allocated /\ a.generation = q[i].generation
          /\ b.allocated /\ b.generation = q[j].generation
          => a.seq < b.seq
Elder(w) ==
    \A s, t \in Slots :
       /\ w.slots[s].allocated /\ w.slots[s].lane_waiting
       /\ w.slots[t].allocated /\ w.slots[t].state = "queued" /\ ~w.slots[t].lane_waiting
       => w.slots[s].seq < w.slots[t].seq

\* The inductive invariant.
BInv ==
    /\ Minded(fut, next) /\ Engaged(fut, stack)
    /\ Woken(fut, ready, due) /\ Fired(fut, firing, due) /\ Waked(fut, waking)
    /\ Ordered(fut, submissions)
    /\ shutting_down \/ Elder(fut)

\* The invariant of the next state, put together.
LEMMA Binds ==
    ASSUME Minded(fut', next'), Engaged(fut', stack'), Woken(fut', ready', due'),
           Fired(fut', firing', due'), Waked(fut', waking'), Ordered(fut', submissions'),
           shutting_down' \/ Elder(fut')
    PROVE  BInv'
<1>1. Minded(fut, next)'
  BY DEF Minded, Sane, Harmless, Awaited
<1>2. Engaged(fut, stack)'
  BY DEF Engaged, Occupied, Calls, Tied, Awaited
<1>3. Woken(fut, ready, due)' /\ Fired(fut, firing, due)' /\ Waked(fut, waking)'
  BY DEF Woken, Fired, Waked
<1>4. Ordered(fut, submissions)' /\ (shutting_down \/ Elder(fut))'
  BY DEF Ordered, Elder
<1>5. QED
  BY <1>1, <1>2, <1>3, <1>4 DEF BInv

\* The queue of what was woken stays right ...
LEMMA WokenStay ==
    ASSUME NEW w \in World, NEW v, AllGo(w, v), Respects(w, v), NEW q \in Seq(TokenType),
           NEW d, NEW e, d \subseteq e, Woken(w, q, d)
    PROVE  Woken(v, q, e)
<1> SUFFICES ASSUME NEW i \in 1 .. Len(q)
             PROVE  LET b == v.slots[q[i].slot] IN
                    /\ q[i].generation <= b.generation
                    /\ SameCore /\ b.allocated /\ b.generation = q[i].generation
                       /\ b.kind = "sleep"
                       => b.seq \in e
  BY DEF Woken
<1>1. q[i].slot \in Slots
  <2>1. q[i] \in TokenType
    OBVIOUS
  <2>2. QED
    BY <2>1 DEF TokenType
<1> DEFINE a == w.slots[q[i].slot]
           b == v.slots[q[i].slot]
<1>2. /\ q[i].generation <= a.generation
      /\ SameCore /\ a.allocated /\ a.generation = q[i].generation /\ a.kind = "sleep"
         => a.seq \in d
  BY DEF Woken
<1>3. Goes(a, b) /\ Alters(a, b)
  BY <1>1 DEF AllGo, Respects
<1>4. QED
  BY <1>2, <1>3 DEF Goes, Alters

\* ... as do the wakes that are under way ...
LEMMA WakedStay ==
    ASSUME NEW w, NEW v, Respects(w, v), NEW F, F \subseteq Ids, Waked(w, F) PROVE Waked(v, F)
  BY DEF Waked, Respects

\* ... the order of the submissions ...
LEMMA OrderedStay ==
    ASSUME NEW w, NEW v, AllGo(w, v), NEW q \in Seq(TokenType), Ordered(w, q)
    PROVE  Ordered(v, q)
<1>1. \A i \in 1 .. Len(q) : q[i].slot \in Slots
  <2>1. \A i \in 1 .. Len(q) : q[i] \in TokenType
    OBVIOUS
  <2>2. QED
    BY <2>1 DEF TokenType
<1>2. \A s \in Slots : /\ v.slots[s].generation = w.slots[s].generation
                       /\ v.slots[s].allocated => /\ w.slots[s].allocated
                                                  /\ v.slots[s].seq = w.slots[s].seq
  BY DEF AllGo, Goes
<1>3. QED
  BY <1>1, <1>2 DEF Ordered

\* ... and the age of those in the lanes.
LEMMA ElderStay ==
    ASSUME NEW w, NEW v, AllGo(w, v), Heeds(w, v), Elder(w) PROVE Elder(v)
<1>1. \A s \in Slots : v.slots[s].allocated =>
         /\ w.slots[s].allocated /\ v.slots[s].seq = w.slots[s].seq
         /\ v.slots[s].lane_waiting => w.slots[s].lane_waiting
         /\ v.slots[s].state = "queued" => /\ w.slots[s].state = "queued"
                                           /\ w.slots[s].lane_waiting => v.slots[s].lane_waiting
  BY DEF AllGo, Goes, Heeds, Changes
<1>2. QED
  BY <1>1 DEF Elder

\* A step of the runtime task that creates no Future, takes no submission and
\* parks nothing in a lane.
LEMMA HeedFits ==
    ASSUME IInv, AInv, BInv, Tends(fut, fut'), Heeds(fut, fut'), Rests(stack, stack'),
           Spares(fut, fut', stack'), Woken(fut, ready', due),
           UNCHANGED <<next, submissions, due, waking, firing, shutting_down>>,
           SameCore => firing = NoSlot, ready' \in Seq(TokenType)
    PROVE  BInv'
<1>1. fut \in World /\ submissions \in Seq(TokenType) /\ fut' \in World /\ AllGo(fut, fut')
      /\ waking \subseteq Ids /\ Respects(fut, fut')
  <2>1. waking \subseteq Ids
    BY FutureAssumption DEF IInv, RestOK, Ids
  <2>2. QED
    BY <2>1 DEF IInv, QueuesOK, Tends, Heeds
<1>2. \A s \in Slots : NamedSlot(fut.slots[s]) /\ Served(fut.slots[s])
  BY DEF IInv, Owned
<1>3. Minded(fut', next')
  BY <1>1, <1>2, HeedsMinded DEF BInv
<1>4. Engaged(fut', stack')
  BY <1>1, <1>2, HeedsEngaged DEF BInv
<1>5. Woken(fut', ready', due')
  BY <1>1, WokenStay
<1>6. Fired(fut', firing', due')
  BY DEF Fired
<1>7. Waked(fut', waking')
  BY <1>1, WakedStay DEF BInv
<1>8. Ordered(fut', submissions')
  BY <1>1, OrderedStay DEF BInv
<1>9. shutting_down' \/ Elder(fut')
  BY <1>1, ElderStay DEF BInv
<1>10. QED
  BY <1>3, <1>4, <1>5, <1>6, <1>7, <1>8, <1>9, Binds

\* The stack after a push, a pop or a change of its innermost activation.
LEMMA RestsSame == ASSUME NEW st PROVE Rests(st, st)
  BY DEF Rests

\* The innermost activation changes, and calls nothing new;
LEMMA RestsTop ==
    ASSUME StackOK(stack), NEW a, SetTop(a), a.sync => Top.sync /\ a.wait = Top.wait,
           Calls(a) => Calls(Top) /\ a.run = Top.run /\ a.runSlot = Top.runSlot
    PROVE  Rests(stack, stack')
<1>1. Len(stack) \in 1 .. Len(stack) /\ stack \in Seq(FrameType)
  BY TopIs DEF StackOK
<1>2. Len(stack') = Len(stack)
      /\ \A i \in 1 .. Len(stack) : stack'[i] = IF i = Len(stack) THEN a ELSE stack[i]
  BY <1>1 DEF SetTop
<1>3. QED
  BY <1>1, <1>2 DEF Rests, Top

\* it goes on to another phase;
LEMMA RestsMove ==
    ASSUME StackOK(stack), NEW phase, phase \notin {"call", "cont"}, NEW n, Move(phase, n)
    PROVE  Rests(stack, stack')
<1> DEFINE a == [Top EXCEPT !.phase = phase, !.n = n]
<1>1. Top \in FrameType
  BY TopIs
<1>2. a.phase = phase /\ a.sync = Top.sync /\ a.wait = Top.wait /\ SetTop(a)
  BY <1>1 DEF FrameType, Move
<1> HIDE DEF a
<1>3. QED
  BY <1>2, RestsTop DEF Calls

\* it starts an activation that calls nothing;
LEMMA RestsPush ==
    ASSUME StackOK(stack), NEW a, Push(a), ~Calls(a), ~a.sync
    PROVE  Rests(stack, stack')
<1>1. stack \in Seq(FrameType) /\ Len(stack) \in Nat
  BY DEF StackOK
<1>2. Len(stack') = Len(stack) + 1
      /\ \A i \in 1 .. Len(stack) + 1 : stack'[i] = IF i <= Len(stack) THEN stack[i] ELSE a
  BY <1>1 DEF Push
<1>3. QED
  BY <1>1, <1>2 DEF Rests

\* it ends.
LEMMA RestsPop ==
    ASSUME StackOK(stack), Len(stack) > 1, stack' = SubSeq(stack, 1, Len(stack) - 1)
    PROVE  Rests(stack, stack')
<1>1. stack \in Seq(FrameType) /\ Len(stack) \in Nat
  BY DEF StackOK
<1>2. Len(stack') = Len(stack) - 1 /\ \A i \in 1 .. Len(stack) - 1 : stack'[i] = stack[i]
  BY <1>1
<1>3. QED
  BY <1>1, <1>2 DEF Rests

\* The world may become v while the activations that are left are those of tt.
Minds(v, tt) == Tends(fut, v) /\ Heeds(fut, v) /\ Duly(fut, v) /\ Spares(fut, v, tt)

\* Where the steps begin, seen from the invariant.
LEMMA Facts ==
    ASSUME IInv, AInv, BInv
    PROVE  /\ fut \in World /\ Tracked(fut) /\ Owned(fut) /\ StackOK(stack)
           /\ Minded(fut, next) /\ Engaged(fut, stack)
           /\ \A s \in Slots : NamedSlot(fut.slots[s]) /\ fut.slots[s] \in SlotType
                               /\ Sane(fut.slots[s])
           /\ Woken(fut, ready, due) /\ ready \in Seq(TokenType)
  BY Here, WorldFields DEF IInv, Owned, BInv, Minded, QueuesOK

\* Doing nothing.
LEMMA SameMinds ==
    ASSUME IInv, AInv, BInv, NEW tt PROVE Minds(fut, tt)
  BY Facts, TendsSame, DulySame, SameSpared DEF Minds

\* The end of a Future that no callable runs for.
LEMMA OverMinds ==
    ASSUME IInv, AInv, BInv, NEW s \in Slots, fut.slots[s].allocated, NEW st \in Terminal,
           NEW r \in {0, fut.slots[s].seq}, NEW v, Over(fut, v, s, st, r), NEW drops \in BOOLEAN,
           Ends(fut, v, s, drops),
           fut.slots[s].driver_active /\ fut.slots[s].state = "queued" => drops,
           Apt(fut.slots[s], st), NEW tt, Rests(stack, tt), Clear(s, tt)
    PROVE  Minds(v, tt)
<1>1. r \in Ids \union {0}
  BY Facts DEF SlotType
<1>2. Tends(fut, v)
  BY <1>1, Facts, OverTends
<1>3. Heeds(fut, v) /\ Duly(fut, v)
  BY Facts, OverHeeds
<1>4. Spares(fut, v, tt)
  BY Facts, OthersSpared DEF Over
<1>5. QED
  BY <1>2, <1>3, <1>4 DEF Minds

\* From such a step to the invariant of the next state.
LEMMA MindFits ==
    ASSUME IInv, AInv, BInv, Minds(fut', stack'), Rests(stack, stack'),
           Woken(fut, ready', due), ready' \in Seq(TokenType),
           UNCHANGED <<next, submissions, due, waking, firing, shutting_down>>,
           SameCore => firing = NoSlot
    PROVE  BInv' /\ Duly(fut, fut')
  BY HeedFits DEF Minds

\* Moving on calls nothing.
LEMMA Moving ==
    ASSUME IInv, NEW phase \in {"expire", "sleep", "dispatch", "ready", "active", "lanes"}, NEW n,
           Move(phase, n)
    PROVE  Rests(stack, stack')
  BY RestsMove DEF IInv

\* The end of a Future whose time is up.
LEMMA ExpireMinds ==
    ASSUME IInv, AInv, BInv, ~CancelOnStack, NEW s \in Expirable, NEW answer,
           NEW custom \in {"fulfilled", "rejected"}, NEW tt, Rests(stack, tt)
    PROVE  Minds(Expire(fut, s, answer, custom), tt)
<1> DEFINE a == fut.slots[s]
           v == Expire(fut, s, answer, custom)
           st == IF a.driver_active THEN custom ELSE "rejected"
           drops == a.driver_active /\ a.state = "queued"
<1>1. /\ s \in Slots /\ a.allocated /\ a.state \notin Terminal /\ a.kind \notin {"sleep", "timeout"}
      /\ a.deadline /\ a.seq \in due
  BY DEF Expirable
<1>2. fut \in World /\ NamedSlot(a) /\ a \in SlotType /\ Sane(a)
  BY <1>1, Facts
<1>3. custom \in Terminal /\ st \in Terminal /\ drops \in BOOLEAN
  BY <1>2 DEF Terminal
<1>4. Over(fut, v, s, st, a.seq)
  BY <1>1, <1>2, ExpireOver
<1>5. Ends(fut, v, s, drops)
  BY <1>1, <1>2, <1>3, ExpireEnds DEF Ended
<1>6. Apt(a, st)
  BY <1>1 DEF Apt
<1>7. Clear(s, tt)
  <2>1. a.kind \notin {"js_call", "map", "flatMap"}
    BY <1>1, <1>2 DEF Sane
  <2>2. QED
    BY <2>1, Facts, NotOccupied
<1> HIDE DEF v, st
<1>8. drops \in BOOLEAN /\ (a.driver_active /\ a.state = "queued" => drops)
  BY <1>3
<1> HIDE DEF drops
<1>9. Minds(v, tt)
  BY <1>1, <1>3, <1>4, <1>5, <1>6, <1>7, <1>8, OverMinds
<1>10. QED
  BY <1>9 DEF v

\* The end of a Future that is no driver's.
LEMMA SettleMinds ==
    ASSUME IInv, AInv, BInv, NEW s \in Slots, fut.slots[s].allocated,
           NEW st \in Terminal, Apt(fut.slots[s], st), NEW tt, Rests(stack, tt), Clear(s, tt),
           ~fut.slots[s].driver_active, NEW by \in {0, fut.slots[s].seq}
    PROVE  Minds(Settle(fut, s, st, by), tt)
<1> DEFINE a == fut.slots[s]
           v == Settle(fut, s, st, by)
           r == IF st = "cancelled" THEN a.result ELSE by
<1>1. fut \in World /\ NamedSlot(a) /\ a \in SlotType /\ Sane(a)
  BY Facts
<1>2. by \in Ids \union {0} /\ r \in {0, a.seq}
  BY <1>1 DEF SlotType, Sane
<1>3. CASE a.state \in Terminal
  BY <1>3, SettleNot, SameMinds
<1>4. CASE a.state \notin Terminal
  <2>1. Over(fut, v, s, st, r)
    BY <1>1, <1>2, <1>4, SettleOver
  <2>2. Ends(fut, v, s, FALSE)
    BY <1>1, <1>2, SettleIs DEF Ends
  <2> HIDE DEF v, r
  <2>3. Minds(v, tt)
    BY <1>1, <1>2, <2>1, <2>2, OverMinds
  <2>4. QED
    BY <2>3 DEF v
<1>5. QED
  BY <1>3, <1>4

\* Deadlines, checked and expired.
LEMMA DeadlineKeeps ==
    ASSUME IInv, AInv, BInv, ~CancelOnStack, expire_deadlines \/ advance_sleep_deadlines
    PROVE  BInv' /\ Duly(fut, fut')
<1>1. CASE expire_deadlines
  <2> DEFINE s == Least(From("expire", Expirable))
  <2>1. s \in Expirable
    BY <1>1, ReachesLeast DEF expire_deadlines
  <2>2. PICK answer \in CancelResults, custom \in {"fulfilled", "rejected"} :
           fut' = Expire(fut, s, answer, custom)
    BY <1>1 DEF expire_deadlines
  <2>3. /\ Move("expire", s + 1) /\ (SameCore => firing = NoSlot)
        /\ UNCHANGED <<next, submissions, ready, due, waking, firing, shutting_down>>
    BY <1>1 DEF expire_deadlines, Reaches, Polls, RuntimeRuns
  <2> HIDE DEF s
  <2>4. Rests(stack, stack')
    BY <2>3, Moving
  <2>5. Minds(fut', stack')
    BY <2>1, <2>2, <2>4, ExpireMinds
  <2>6. QED
    BY <2>3, <2>4, <2>5, Facts, MindFits
<1>2. CASE advance_sleep_deadlines
  <2> DEFINE s == Least(From("sleep", Awake))
             a == fut.slots[s]
  <2>1. s \in Awake
    BY <1>2, ReachesLeast DEF advance_sleep_deadlines
  <2>2. fut' = Settle(fut, s, "fulfilled", fut.slots[s].seq)
    BY <1>2 DEF advance_sleep_deadlines
  <2>3. /\ Move("sleep", s + 1) /\ (SameCore => firing = NoSlot)
        /\ UNCHANGED <<next, submissions, ready, due, waking, firing, shutting_down>>
    BY <1>2 DEF advance_sleep_deadlines, Reaches, Polls, RuntimeRuns
  <2> HIDE DEF s
  <2>4. Rests(stack, stack')
    BY <2>3, Moving
  <2>5. s \in Slots /\ a.allocated /\ a.kind = "sleep" /\ a.seq \in due /\ Sane(a)
    BY <2>1, Facts DEF Awake
  <2>6. Clear(s, stack')
    BY <2>4, <2>5, Facts, NotOccupied
  <2>7. ~a.driver_active /\ Apt(a, "fulfilled") /\ "fulfilled" \in Terminal
    BY <2>5 DEF Sane, Apt, Terminal
  <2>8. Minds(fut', stack')
    BY <2>2, <2>4, <2>5, <2>6, <2>7, SettleMinds
  <2>9. QED
    BY <2>3, <2>4, <2>8, Facts, MindFits
<1>3. QED
  BY <1>1, <1>2

\* A poll of a slot.
LEMMA PollMinds ==
    ASSUME IInv, AInv, BInv, NEW s \in Slots, NEW v \in PollReady(fut, s),
           SameCore /\ fut.slots[s].allocated /\ fut.slots[s].kind = "sleep"
           => fut.slots[s].seq \in due,
           NEW tt, Rests(stack, tt)
    PROVE  Minds(v, tt)
<1> DEFINE a == fut.slots[s]
<1>1. fut \in World /\ Owned(fut) /\ NamedSlot(a) /\ a \in SlotType /\ Sane(a)
  BY Facts
<1>2. CASE v = fut
  BY <1>2, SameMinds
<1>3. CASE v # fut
  <2>1. PICK st \in Terminal, r \in {0, a.seq} :
           /\ Over(fut, v, s, st, r) /\ a.allocated /\ Apt(a, st)
           /\ a.kind \in {"sleep", "driver"}
    <3>1. Polled(fut, v, s)
      BY <1>1, PollGives
    <3>2. a.result \in {0, a.seq} /\ (a.driver_active => a.kind = "driver" /\ a.allocated)
          /\ (a.cancel_requested => a.driver_active)
          /\ {"fulfilled", "rejected", "cancelled"} \subseteq Terminal /\ "pending" \notin Terminal
      BY <1>1 DEF Sane, NamedSlot, Terminal
    <3>3. QED
      BY <1>3, <3>1, <3>2 DEF Polled, Apt
  <2>2. PICK drops \in BOOLEAN :
           Ends(fut, v, s, drops) /\ (drops => a.driver_active)
    BY <1>1, PollReadyEnds DEF Ended
  <2>3. ~ (a.driver_active /\ a.state = "queued")
    <3> SUFFICES ASSUME a.driver_active, a.state = "queued" PROVE FALSE
      OBVIOUS
    <3>1. fut.native[a.seq] = "captured" /\ a.kind = "driver"
      BY <1>1 DEF Owned, Driven, Sane
    <3>2. v = fut
      BY <3>1 DEF PollReady
    <3>3. QED
      BY <1>3, <3>2
  <2>4. Clear(s, tt)
    BY <2>1, Facts, NotOccupied
  <2>5. QED
    BY <2>1, <2>2, <2>3, <2>4, OverMinds
<1>4. QED
  BY <1>2, <1>3

\* The polls of active drivers.
LEMMA ActiveKeeps ==
    ASSUME IInv, AInv, BInv, poll_active_drivers
    PROVE  BInv' /\ Duly(fut, fut')
<1> DEFINE s == Least(From("active", Completed))
<1>1. s \in Completed
  BY ReachesLeast DEF poll_active_drivers
<1>2. /\ fut' \in PollReady(fut, s) /\ Move("active", s + 1) /\ (SameCore => firing = NoSlot)
      /\ UNCHANGED <<next, submissions, ready, due, waking, firing, shutting_down>>
  BY DEF poll_active_drivers, Reaches, Polls, RuntimeRuns
<1> HIDE DEF s
<1>3. s \in Slots /\ fut.slots[s].driver_active
  BY <1>1 DEF Completed
<1>4. fut.slots[s].kind # "sleep"
  BY <1>3, Facts DEF Sane
<1>5. Rests(stack, stack')
  BY <1>2, Moving
<1>6. Minds(fut', stack')
  BY <1>2, <1>3, <1>4, <1>5, PollMinds
<1>7. QED
  BY <1>2, <1>5, <1>6, Facts, MindFits

\* Taking what was woken first.
LEMMA WokenTail ==
    ASSUME NEW w, NEW q \in Seq(TokenType), NEW d, q # <<>>, Woken(w, q, d)
    PROVE  /\ Tail(q) \in Seq(TokenType) /\ Woken(w, Tail(q), d)
           /\ LET a == w.slots[Head(q).slot] IN
              SameCore /\ a.allocated /\ a.generation = Head(q).generation /\ a.kind = "sleep"
              => a.seq \in d
<1> DEFINE c == Tail(q)
<1>1. Len(q) \in Nat /\ Len(q) >= 1 /\ Len(c) = Len(q) - 1 /\ Head(q) = q[1]
      /\ c \in Seq(TokenType)
      /\ \A i \in 1 .. Len(q) - 1 : c[i] = q[i + 1]
  OBVIOUS
<1> HIDE DEF c
<1>2. \A i \in 1 .. Len(c) : i + 1 \in 1 .. Len(q) /\ c[i] = q[i + 1]
  BY <1>1
<1>3. Woken(w, c, d)
  BY <1>2 DEF Woken
<1>4. 1 \in 1 .. Len(q)
  BY <1>1
<1>5. QED
  BY <1>1, <1>3, <1>4 DEF Woken, c

\* Polls of what was woken.
LEMMA ReadyKeeps ==
    ASSUME IInv, AInv, BInv, ReadyStep
    PROVE  BInv' /\ Duly(fut, fut')
<1> DEFINE s == ResolveToken(fut, Head(ready))
<1>1. ready # <<>> /\ ready \in Seq(TokenType) /\ Woken(fut, ready, due)
  BY Facts DEF ReadyStep, Reaches, HasWork
<1>2. Head(ready) \in TokenType
  BY <1>1
<1>3. /\ fut' \in (IF s = NoSlot THEN {fut} ELSE PollReady(fut, s))
      /\ ready' = Tail(ready) /\ Move("ready", At("ready") + 1) /\ (SameCore => firing = NoSlot)
      /\ UNCHANGED <<next, submissions, due, waking, firing, shutting_down>>
  BY DEF ReadyStep, Reaches, Polls, RuntimeRuns
<1>4. /\ Tail(ready) \in Seq(TokenType) /\ Woken(fut, Tail(ready), due)
      /\ LET a == fut.slots[Head(ready).slot] IN
         SameCore /\ a.allocated /\ a.generation = Head(ready).generation /\ a.kind = "sleep"
         => a.seq \in due
  BY <1>1, WokenTail
<1>5. Rests(stack, stack')
  BY <1>3, Moving
<1>6. Minds(fut', stack')
  <2>1. CASE s = NoSlot
    BY <1>3, <2>1, SameMinds
  <2>2. CASE s # NoSlot
    <3>1. /\ s \in Slots /\ s = Head(ready).slot
          /\ fut.slots[s].generation = Head(ready).generation
      BY <1>2, <2>2, Facts, TokenSlot DEF ResolveToken
    <3> HIDE DEF s
    <3>2. QED
      BY <1>3, <1>4, <1>5, <2>2, <3>1, PollMinds
  <2>3. QED
    BY <2>1, <2>2
<1>7. QED
  BY <1>3, <1>4, <1>5, <1>6, MindFits

\* The end of a poll.
LEMMA PollEndKeeps ==
    ASSUME IInv, AInv, BInv, PollEnds
    PROVE  BInv' /\ Duly(fut, fut')
<1> DEFINE a == [Top EXCEPT !.phase = "js", !.n = 0, !.now = {}]
<1>1. SetTop(a) /\ fut' = fut /\ (SameCore => firing = NoSlot)
      /\ UNCHANGED <<next, submissions, ready, due, waking, firing, shutting_down>>
  BY DEF PollEnds, Polls, RuntimeRuns
<1>2. StackOK(stack) /\ Top \in FrameType
  BY Facts, TopIs
<1>3. a.phase = "js" /\ a.sync = Top.sync /\ a.wait = Top.wait
  BY <1>2 DEF FrameType
<1> HIDE DEF a
<1>4. Rests(stack, stack')
  BY <1>1, <1>2, <1>3, RestsTop DEF Calls
<1>5. QED
  BY <1>1, <1>4, SameMinds, Facts, MindFits

\* A cancellation: only drivers remember that they were asked.
LEMMA CancelMinds ==
    ASSUME IInv, AInv, BInv, NEW s \in Slots, fut.slots[s].allocated, NEW answer,
           NEW tt, Rests(stack, tt), Clear(s, tt)
    PROVE  Minds(CancelSlot(fut, s, answer), tt)
<1> DEFINE a == fut.slots[s]
           v == CancelSlot(fut, s, answer)
           drops == a.driver_active /\ a.state = "queued"
<1>1. fut \in World /\ Tracked(fut) /\ NamedSlot(a) /\ a \in SlotType /\ Sane(a)
      /\ Minded(fut, next) /\ Engaged(fut, stack)
  BY Facts
<1>2. Cancels(fut, v, s) /\ Ends(fut, v, s, drops) /\ Tends(fut, v)
  BY <1>1, CancelGives, CancelEnds, CancelTends DEF Ended
<1> HIDE DEF v
<1>3. CASE v = fut
  BY <1>3, SameMinds DEF v
<1>4. CASE a.driver_active /\ a.state # "queued" /\ v = Put(fut, s, Asked(a))
  <2> DEFINE b == Asked(a)
  <2>1. /\ b \in SlotType /\ b.cancel_requested = TRUE
        /\ b.allocated = a.allocated /\ b.generation = a.generation
        /\ b.seq = a.seq /\ b.kind = a.kind /\ b.state = a.state
        /\ b.result = a.result /\ b.inputs = a.inputs
        /\ b.driver_active = a.driver_active /\ b.deadline = a.deadline
        /\ b.lane_waiting = a.lane_waiting /\ b.driver_started = a.driver_started
        /\ b.handle = a.handle
    BY <1>1, AskedIs
  <2> HIDE DEF b
  <2>2. v.native = fut.native /\ v.handles = fut.handles /\ v.slots[s] = b
        /\ Others(fut, v, s)
    BY <1>1, <1>4, <2>1, PutIs DEF b, Others
  <2>3. Changes(a, b)
    BY <1>1, <1>4, <2>1 DEF Sane, Changes, Alters
  <2>4. Heeds(fut, v) /\ Duly(fut, v)
    BY <1>1, <2>2, <2>3, OneHeeds
  <2>5. Spares(fut, v, tt)
    BY <1>1, <2>2, OthersSpared
  <2>6. QED
    BY <1>2, <2>4, <2>5 DEF Minds, v
<1>5. CASE Over(fut, v, s, "cancelled", a.result)
  <2>1. "cancelled" \in Terminal /\ Apt(a, "cancelled") /\ a.result \in {0, a.seq}
    BY <1>1 DEF Terminal, Apt, Sane
  <2>2. drops \in BOOLEAN /\ (a.driver_active /\ a.state = "queued" => drops)
    BY <1>1 DEF SlotType
  <2> HIDE DEF drops
  <2>3. Minds(v, tt)
    BY <1>2, <1>5, <2>1, <2>2, OverMinds
  <2>4. QED
    BY <2>3 DEF v
<1>6. QED
  BY <1>2, <1>3, <1>4, <1>5 DEF Cancels

\* Cancellation by JavaScript.
LEMMA CancelKeeps ==
    ASSUME IInv, AInv, BInv, ~CancelOnStack, js_future_cancel
    PROVE  BInv' /\ Duly(fut, fut')
<1>1. PICK f \in Ids, answer \in CancelResults :
         /\ HandleSlot(fut, f) # NoSlot /\ ~OnStack(f)
         /\ fut' = CancelSlot(fut, HandleSlot(fut, f), answer)
  BY DEF js_future_cancel
<1>2. /\ stack' = stack /\ (SameCore => firing = NoSlot)
      /\ UNCHANGED <<next, submissions, ready, due, waking, firing, shutting_down>>
  BY DEF js_future_cancel, JsRuns, RuntimeRuns
<1> DEFINE s == HandleSlot(fut, f)
<1>3. s \in Slots /\ fut.slots[s].allocated
  BY <1>1, Facts, HandleLeads
<1>4. fut.slots[s].seq = f
  <2>1. fut.handles[f].slot = s /\ fut.slots[s].generation = fut.handles[f].generation
    BY <1>1 DEF HandleSlot, ResolveToken
  <2>2. Leads(fut, f)
    BY Facts DEF Tracked
  <2>3. QED
    BY <1>3, <2>1, <2>2 DEF Leads
<1>5. \A i \in 1 .. Len(stack) : stack[i].run # fut.slots[s].seq
  BY <1>1, <1>4 DEF OnStack
<1> HIDE DEF s
<1>6. Rests(stack, stack')
  BY <1>2, RestsSame
<1>7. Clear(s, stack')
  BY <1>5, <1>6, Facts, NotOccupied
<1>8. Minds(fut', stack')
  BY <1>1, <1>3, <1>6, <1>7, CancelMinds DEF s
<1>9. QED
  BY <1>2, <1>6, <1>8, Facts, MindFits

\* A Future that goes on only loses its object.
LEMMA DropKeeps ==
    ASSUME NEW w \in World, NEW f \in Ids, HandleSlot(w, f) # NoSlot,
           w.slots[HandleSlot(w, f)].handle, w.slots[HandleSlot(w, f)].state = "pending"
    PROVE  DropHandle(w, f).slots[HandleSlot(w, f)] = Hush(w.slots[HandleSlot(w, f)])
<1> DEFINE s == HandleSlot(w, f)
           dead == [w EXCEPT !.handles[f] = [@ EXCEPT !.alive = FALSE, !.terminal = FALSE,
                                            !.state = "queued", !.by = 0]]
           b == [w.slots[s] EXCEPT !.handle = FALSE]
           u == Put(dead, s, b)
<1>1. s \in Slots /\ w.slots[s] \in SlotType
  BY HandleLeads, WorldFields
<1>2. DropHandle(w, f) = ReleaseIfTerminal(u, s)
  BY Zenon DEF DropHandle
<1>3. b = Hush(w.slots[s])
  BY DEF Hush
<1>4. b.state = "pending"
  BY <1>1 DEF SlotType
<1> HIDE DEF s, b
<1>5. dead.slots = w.slots
  BY DEF World
<1> HIDE DEF dead
<1>6. u.slots = [dead.slots EXCEPT ![s] = b]
  <2>1. u = [dead EXCEPT !.slots[s] = b]
    BY DEF Put
  <2>2. QED
    BY <1>5, <2>1, WorldFields DEF dead, World
<1>7. u.slots[s] = b
  BY <1>1, <1>5, <1>6, WorldFields
<1> HIDE DEF u
<1>8. ReleaseIfTerminal(u, s) = u
  BY <1>4, <1>7 DEF ReleaseIfTerminal, Terminal
<1>9. QED
  BY <1>2, <1>3, <1>7, <1>8 DEF s

\* A finalizer: nobody waits for the object it forgets.
LEMMA DropMinds ==
    ASSUME IInv, AInv, BInv, NEW f \in Ids, ~Awaited(fut, f), NEW tt, Rests(stack, tt)
    PROVE  Minds(DropHandle(fut, f), tt)
<1> DEFINE v == DropHandle(fut, f)
           s == HandleSlot(fut, f)
           a == fut.slots[s]
<1>1. fut \in World /\ Tracked(fut) /\ Minded(fut, next) /\ Engaged(fut, stack)
      /\ \A t \in Slots : fut.slots[t] \in SlotType /\ Sane(fut.slots[t])
  BY Facts
<1>2. Dropped(fut, v, f)
  BY <1>1, DropGives
<1>3. Tends(fut, v)
  BY <1>1, <1>2, DropTends
<1>4. s # NoSlot => s \in Slots
  BY <1>1, HandleLeads
<1>5. s # NoSlot /\ a.handle /\ a.state = "pending" => v.slots[s] = Hush(a)
  BY <1>1, DropKeeps
<1> HIDE DEF v
<1>6. /\ v.native = fut.native
      /\ \A g \in Ids : g # f => v.handles[g] = fut.handles[g]
      /\ v.handles[f].slot = fut.handles[f].slot
      /\ v.handles[f].generation = fut.handles[f].generation
      /\ v.handles[f].alive = FALSE /\ v.handles[f].terminal = FALSE /\ v.handles[f].by = 0
  BY <1>2 DEF Dropped
<1>7. ASSUME NEW t \in Slots
      PROVE  \/ v.slots[t] = fut.slots[t]
             \/ v.slots[t] = Hush(fut.slots[t])
             \/ v.slots[t] = EmptySlot(fut.slots[t].generation) /\ fut.slots[t].state # "pending"
  <2>1. CASE s # NoSlot /\ a.handle
    <3>1. Others(fut, v, s) /\ v.slots[s] \in {Hush(a), EmptySlot(a.generation)}
      BY <1>2, <2>1 DEF Dropped
    <3>2. QED
      BY <1>5, <2>1, <3>1 DEF Others
  <2>2. CASE ~ (s # NoSlot /\ a.handle)
    BY <1>2, <2>2 DEF Dropped
  <2>3. QED
    BY <2>1, <2>2
<1> HIDE DEF s
<1>8. ASSUME NEW t \in Slots
      PROVE  /\ Changes(fut.slots[t], v.slots[t])
             /\ v.slots[t].handle => fut.slots[t].handle
             /\ fut.slots[t].allocated /\ fut.slots[t].state = "pending"
                => Spare(fut.slots[t], v.slots[t])
  <2> DEFINE g == fut.slots[t]
  <2>1. g \in SlotType /\ Sane(g)
    BY <1>1
  <2>2. CASE v.slots[t] = g
    BY <2>1, <2>2 DEF Changes, Alters, Spare
  <2>3. CASE v.slots[t] = Hush(g)
    <3> DEFINE h == Hush(g)
    <3>1. /\ h.handle = FALSE
          /\ h.allocated = g.allocated /\ h.generation = g.generation
          /\ h.seq = g.seq /\ h.kind = g.kind /\ h.state = g.state
          /\ h.result = g.result /\ h.inputs = g.inputs
          /\ h.driver_active = g.driver_active
          /\ h.lane_waiting = g.lane_waiting /\ h.deadline = g.deadline
          /\ h.cancel_requested = g.cancel_requested
          /\ h.running = g.running /\ h.driver_started = g.driver_started
      BY <2>1, HushIs
    <3>2. ~g.allocated => h = EmptySlot(h.generation)
      <4> SUFFICES ASSUME ~g.allocated PROVE h = g /\ g = EmptySlot(g.generation)
        BY <3>1
      <4>1. g = EmptySlot(g.generation)
        BY <2>1 DEF Sane
      <4>2. ~g.handle
        BY <4>1 DEF EmptySlot
      <4>3. QED
        BY <4>1, <4>2 DEF Hush
    <3>3. v.slots[t] = h
      BY <2>3
    <3> HIDE DEF h
    <3>4. Sane(h)
      BY <2>1, <3>1, <3>2 DEF Sane
    <3>5. QED
      BY <3>1, <3>3, <3>4 DEF Changes, Alters, Spare
  <2>4. CASE v.slots[t] = EmptySlot(g.generation) /\ g.state # "pending"
    <3>1. Changes(g, EmptySlot(g.generation)) /\ ~EmptySlot(g.generation).handle
      BY <2>1, EmptySane, EmptyGoes
    <3>2. QED
      BY <2>4, <3>1
  <2>5. QED
    BY <1>7, <2>2, <2>3, <2>4
<1>9. \A g \in Ids : Remains(fut.handles[g], v.handles[g], g)
  <2>1. \A g \in Ids : fut.handles[g].by \in {0, g}
    BY <1>1 DEF Minded
  <2>2. QED
    BY <1>6, <2>1 DEF Remains
<1>10. ~Awaited(v, f)
  BY <1>8 DEF Awaited, Changes, Alters
<1>11. Heeds(fut, v)
  BY <1>6, <1>8, <1>9, <1>10 DEF Heeds, Respects, Changes
<1>12. Duly(fut, v)
  <2>1. ASSUME NEW t \in Slots, fut.slots[t].allocated, fut.slots[t].handle,
               v.handles[fut.slots[t].seq].terminal
        PROVE  FALSE
    <3>1. fut.slots[t].seq \in Ids /\ ~fut.handles[fut.slots[t].seq].terminal
      BY <1>1, <2>1 DEF Tracked, Linked
    <3>2. QED
      BY <1>6, <2>1, <3>1
  <2>2. QED
    BY <1>6, <2>1 DEF Duly, Rightly, Unstarted
<1>13. Spares(fut, v, tt)
  <2> SUFFICES ASSUME NEW i \in 1 .. Len(tt), Calls(tt[i])
               PROVE  Spare(fut.slots[tt[i].runSlot], v.slots[tt[i].runSlot])
    BY DEF Spares
  <2>1. /\ tt[i].runSlot \in Slots /\ fut.slots[tt[i].runSlot].allocated
        /\ fut.slots[tt[i].runSlot].state = "pending"
    BY <1>1 DEF Rests, Engaged, Occupied
  <2>2. QED
    BY <1>8, <2>1
<1>14. QED
  BY <1>3, <1>11, <1>12, <1>13 DEF Minds, v

\* Finalizers and waits.
LEMMA ObjectKeeps ==
    ASSUME IInv, AInv, BInv, js_future_finalizer \/ js_future_wait \/ WaitReturns
    PROVE  BInv' /\ Duly(fut, fut')
<1>0. /\ (SameCore => firing = NoSlot)
      /\ UNCHANGED <<next, submissions, ready, due, waking, firing, shutting_down>>
  BY DEF js_future_finalizer, js_future_wait, WaitReturns, JsRuns, RuntimeRuns
<1>1. Minds(fut', stack') /\ Rests(stack, stack')
  <2>1. CASE js_future_finalizer
    <3>1. PICK f \in Ids : ~Rooted(f) /\ fut' = DropHandle(fut, f)
      BY <2>1 DEF js_future_finalizer
    <3>2. stack' = stack /\ ~Awaited(fut, f)
      BY <2>1, <3>1 DEF js_future_finalizer, Rooted, Awaited
    <3>3. Rests(stack, stack')
      BY <3>2, RestsSame
    <3>4. QED
      BY <3>1, <3>2, <3>3, DropMinds
  <2>2. CASE js_future_wait
    <3>1. PICK f \in Ids : Push(Frame("js", f, FALSE))
      BY <2>2 DEF js_future_wait
    <3> DEFINE a == Frame("js", f, FALSE)
    <3>2. ~Calls(a) /\ ~a.sync
      BY DEF Calls, Frame
    <3> HIDE DEF a
    <3>3. Rests(stack, stack')
      BY <3>1, <3>2, Facts, RestsPush DEF a
    <3>4. fut' = fut
      BY <2>2 DEF js_future_wait
    <3>5. QED
      BY <3>3, <3>4, SameMinds
  <2>3. CASE WaitReturns
    <3>1. Rests(stack, stack')
      BY <2>3, Facts, RestsPop DEF WaitReturns
    <3>2. fut' = IF Top.sync THEN DropHandle(fut, Top.wait) ELSE fut
      BY <2>3 DEF WaitReturns
    <3>3. Top.sync => Top.wait \in Ids /\ ~Awaited(fut, Top.wait)
      <4>1. FrameOK(Top) /\ Len(stack) \in 1 .. Len(stack)
        BY Facts, TopIs
      <4>2. QED
        BY <4>1, Facts DEF FrameOK, Engaged, Top
    <3>4. CASE Top.sync
      BY <3>1, <3>2, <3>3, <3>4, DropMinds
    <3>5. CASE ~Top.sync
      BY <3>1, <3>2, <3>5, SameMinds
    <3>6. QED
      BY <3>4, <3>5
  <2>4. QED
    BY <2>1, <2>2, <2>3
<1>2. QED
  BY <1>0, <1>1, Facts, MindFits

\* A lane starts its operations in the order of their submission.
Fifo(w, v) ==
    \A s, t \in Slots :
         /\ w.slots[s].driver_active /\ w.slots[t].driver_active
         /\ w.slots[s].key = w.slots[t].key /\ w.slots[s].key # NoKey
         /\ w.native[w.slots[s].seq] = "captured"
         /\ w.native[w.slots[t].seq] = "captured"
         /\ v.native[w.slots[t].seq] = "running"
         => w.slots[t].seq <= w.slots[s].seq
Orderly(w, v) == Rightly(w, v) /\ Fifo(w, v)

\* A step that starts no operation keeps the order of the lanes.
LEMMA DulyOrderly ==
    ASSUME NEW w \in World, Owned(w), NEW v, Duly(w, v) PROVE Orderly(w, v)
<1>1. \A t \in Slots : w.slots[t].driver_active => w.slots[t].seq \in Ids
  BY DriverNames
<1>2. Fifo(w, v)
  BY <1>1 DEF Fifo, Duly, Unstarted
<1>3. QED
  BY <1>2 DEF Orderly, Duly

\* What a dispatch leaves alone.
LEMMA PendingMore ==
    ASSUME NEW a \in SlotType, NEW x \in PendingForms(a)
    PROVE  /\ x.lane_waiting = a.lane_waiting /\ x.cancel_requested = a.cancel_requested
           /\ x.driver_started = a.driver_started
  BY DEF PendingForms, SlotType

\* A Future becomes pending.
LEMMA PendingMinds ==
    ASSUME IInv, AInv, BInv, NEW s \in Slots, fut.slots[s].allocated,
           fut.slots[s].state = "queued", ~fut.slots[s].driver_active,
           NEW x \in PendingForms(fut.slots[s]),
           x.kind = fut.slots[s].kind \/ fut.slots[s].kind = "call",
           NEW tt, Rests(stack, tt)
    PROVE  Minds(Put(fut, s, x), tt)
<1> DEFINE a == fut.slots[s]
           v == Put(fut, s, x)
<1>1. fut \in World /\ Tracked(fut) /\ a \in SlotType /\ Sane(a) /\ Minded(fut, next)
      /\ Engaged(fut, stack)
  BY Facts
<1>2. /\ Same(a, x) /\ x.state = "pending" /\ (x.kind = a.kind \/ x.kind = "js_call")
      /\ x.lane_waiting = a.lane_waiting /\ x.cancel_requested = a.cancel_requested
  BY <1>1, PendingSame, PendingMore
<1>3. Tends(fut, v) /\ v.slots[s] = x /\ Others(fut, v, s) /\ v.handles = fut.handles
      /\ v.native = fut.native
  BY <1>1, PendingTends
<1>4. Changes(a, x)
  BY <1>1, <1>2 DEF Same, Sane, Changes, Alters
<1> HIDE DEF v
<1>5. Heeds(fut, v) /\ Duly(fut, v)
  BY <1>1, <1>3, <1>4, OneHeeds
<1>6. Clear(s, tt)
  BY <1>1, NotOccupied
<1>7. Spares(fut, v, tt)
  BY <1>1, <1>3, <1>6, OthersSpared
<1>8. QED
  BY <1>3, <1>5, <1>7 DEF Minds, v

\* What ends when it is dispatched.
LEMMA PendingSettleMinds ==
    ASSUME IInv, AInv, BInv, NEW s \in Slots, fut.slots[s].allocated,
           fut.slots[s].state = "queued", ~fut.slots[s].driver_active,
           NEW st \in Terminal, st # "cancelled", Apt(fut.slots[s], st), NEW tt, Rests(stack, tt)
    PROVE  Minds(Settle(Put(fut, s, [fut.slots[s] EXCEPT !.state = "pending"]), s, st,
                        fut.slots[s].seq), tt)
<1> DEFINE a == fut.slots[s]
           x == [a EXCEPT !.state = "pending"]
           u == Put(fut, s, x)
           v == Settle(u, s, st, a.seq)
<1>1. fut \in World /\ Tracked(fut) /\ a \in SlotType /\ Sane(a) /\ NamedSlot(a)
      /\ Engaged(fut, stack) /\ Owned(fut)
  BY Facts
<1>2. x \in PendingForms(a) /\ x.kind = a.kind /\ x.key = a.key
  BY <1>1 DEF PendingForms, SlotType
<1>3. /\ Same(a, x) /\ x \in SlotType /\ x.state = "pending" /\ x.lane_waiting = a.lane_waiting
      /\ x.driver_started = a.driver_started
  BY <1>1, <1>2, PendingSame, PendingMore
<1>4. u.slots[s] = x /\ Others(fut, u, s) /\ u.handles = fut.handles /\ u \in World
  BY <1>1, <1>2, PendingTends
<1>5. Served(a) => Served(x)
  BY <1>2, <1>3 DEF Same, Served, Terminal
<1>6. Ends(fut, u, s, FALSE)
  BY <1>1, <1>2, <1>3, <1>4, <1>5, PutStays DEF Same, Ends
<1> HIDE DEF x
<1>7. NamedSlot(x) /\ x.allocated /\ x.state \notin Terminal /\ Alike(a, x) /\ x.seq = a.seq
  BY <1>1, <1>3 DEF Same, NamedSlot, Terminal, Alike
<1>8. a.seq \in Ids \union {0}
  BY <1>1 DEF SlotType
<1> HIDE DEF u
<1>9. Over(u, v, s, st, a.seq)
  BY <1>4, <1>7, <1>8, SettleOver
<1>10. Ends(fut, v, s, FALSE)
  BY <1>1, <1>6, <1>8, SettleEnds
<1>11. Clear(s, tt)
  BY <1>1, NotOccupied
<1> HIDE DEF v
<1>12. Over(fut, v, s, st, a.seq)
  BY <1>4, <1>7, <1>9, OverFrom
<1>13. Minds(v, tt)
  BY <1>10, <1>11, <1>12, OverMinds
<1>14. QED
  BY <1>13 DEF v, u, x

\* Taking the head of the queue keeps its order.
LEMMA OrderedTail ==
    ASSUME NEW w, NEW q \in Seq(TokenType), q # <<>>, Ordered(w, q)
    PROVE  Ordered(w, Tail(q)) /\ Tail(q) \in Seq(TokenType)
<1> DEFINE c == Tail(q)
<1>1. Len(q) \in Nat /\ Len(q) >= 1 /\ Len(c) = Len(q) - 1 /\ c \in Seq(TokenType)
      /\ \A i \in 1 .. Len(q) - 1 : c[i] = q[i + 1]
  OBVIOUS
<1> HIDE DEF c
<1>2. \A i \in 1 .. Len(c) : i + 1 \in 1 .. Len(q) /\ c[i] = q[i + 1]
  BY <1>1
<1>4. Ordered(w, c)
  <2> SUFFICES ASSUME NEW i \in 1 .. Len(c), NEW j \in 1 .. Len(c), i < j
               PROVE  LET a == w.slots[c[i].slot]
                          b == w.slots[c[j].slot]
                      IN a.allocated /\ a.generation = c[i].generation
                         /\ b.allocated /\ b.generation = c[j].generation
                         => a.seq < b.seq
    BY DEF Ordered
  <2> DEFINE m == i + 1
             n == j + 1
  <2>1. m \in 1 .. Len(q) /\ n \in 1 .. Len(q) /\ m < n /\ c[i] = q[m] /\ c[j] = q[n]
    BY <1>1, <1>2
  <2> HIDE DEF m, n
  <2>2. QED
    BY <2>1 DEF Ordered
<1>5. QED
  BY <1>1, <1>4 DEF c

\* A step that takes a submission.
LEMMA TakeBinds ==
    ASSUME IInv, AInv, BInv, Tends(fut, fut'), Respects(fut, fut'), Engaged(fut', stack'),
           Elder(fut'), submissions # <<>>, submissions' = Tail(submissions),
           SameCore => firing = NoSlot,
           UNCHANGED <<next, ready, due, waking, firing, shutting_down>>
    PROVE  BInv'
<1>1. fut \in World /\ submissions \in Seq(TokenType) /\ fut' \in World /\ AllGo(fut, fut')
      /\ waking \subseteq Ids /\ ready \in Seq(TokenType)
  <2>1. waking \subseteq Ids
    BY FutureAssumption DEF IInv, RestOK, Ids
  <2>2. QED
    BY <2>1 DEF IInv, QueuesOK, Tends
<1>2. \A s \in Slots : NamedSlot(fut.slots[s])
  BY DEF IInv, Owned
<1>3. Minded(fut', next')
  BY <1>1, <1>2, HeedsMinded DEF BInv
<1>4. Woken(fut', ready', due')
  BY <1>1, WokenStay DEF BInv
<1>5. Fired(fut', firing', due')
  BY DEF Fired
<1>6. Waked(fut', waking')
  BY <1>1, WakedStay DEF BInv
<1>7. Ordered(fut', submissions')
  BY <1>1, OrderedStay, OrderedTail DEF BInv
<1>8. QED
  BY <1>3, <1>4, <1>5, <1>6, <1>7, Binds

\* What is queued and waits in no lane is younger than what is dispatched.
LEMMA HeadFirst ==
    ASSUME IInv, AInv, BInv, ~shutting_down, submissions # <<>>,
           NEW s \in Slots, s = ResolveToken(fut, Head(submissions)),
           NEW p \in Slots, p # s, fut.slots[p].allocated, fut.slots[p].state = "queued",
           ~fut.slots[p].lane_waiting
    PROVE  fut.slots[s].seq < fut.slots[p].seq
<1>1. Sent(submissions, Token(fut, p)) /\ Ordered(fut, submissions)
  BY DEF AInv, Waited, Queued, BInv
<1>2. PICK j \in 1 .. Len(submissions) : submissions[j] = Token(fut, p)
  BY <1>1 DEF Sent
<1>3. submissions \in Seq(TokenType)
  BY DEF IInv, QueuesOK
<1>4. Head(submissions) = submissions[1] /\ 1 \in 1 .. Len(submissions)
      /\ Head(submissions) \in TokenType
  BY <1>3
<1>5. /\ s = submissions[1].slot /\ fut.slots[s].allocated
      /\ fut.slots[s].generation = submissions[1].generation
  BY <1>4, NumbersAre DEF ResolveToken
<1>6. submissions[j].slot = p /\ submissions[j].generation = fut.slots[p].generation
  BY <1>2 DEF Token
<1>7. 1 < j
  <2>1. j # 1
    BY <1>5, <1>6
  <2>2. QED
    BY <2>1
<1>8. QED
  BY <1>1, <1>4, <1>5, <1>6, <1>7 DEF Ordered

\* What is dispatched or continued calls something for the slot s.
LEMMA CallEngaged ==
    ASSUME StackOK(stack), NEW w \in World, NEW v \in World, Respects(w, v),
           \A t \in Slots : Served(w.slots[t]), Engaged(w, stack),
           NEW s, Others(w, v, s), Clear(s, stack), NEW a, SetTop(a), Occupied(v, a),
           a.sync => Top.sync /\ a.wait = Top.wait
    PROVE  Engaged(v, stack')
<1>1. Len(stack) \in 1 .. Len(stack) /\ stack \in Seq(FrameType)
  BY TopIs DEF StackOK
<1>2. Len(stack') = Len(stack)
      /\ \A i \in 1 .. Len(stack) : stack'[i] = IF i = Len(stack) THEN a ELSE stack[i]
  BY <1>1 DEF SetTop
<1>3. ASSUME NEW i \in 1 .. Len(stack'), Calls(stack'[i]) PROVE Occupied(v, stack'[i])
  <2>1. CASE i = Len(stack)
    BY <1>2, <2>1
  <2>2. CASE i # Len(stack)
    <3> DEFINE x == stack[i]
    <3>1. stack'[i] = x /\ Calls(x) /\ i \in 1 .. Len(stack)
      BY <1>2, <1>3, <2>2
    <3>2. Occupied(w, x) /\ x.runSlot # s /\ x.runSlot \in Slots
      BY <3>1 DEF Engaged, Clear, Occupied
    <3> HIDE DEF x
    <3>3. Spare(w.slots[x.runSlot], v.slots[x.runSlot])
      BY <3>2 DEF Others, Spare
    <3>4. Occupied(v, x)
      BY <3>2, <3>3, OccupiedStay
    <3>5. QED
      BY <3>1, <3>4
  <2>3. QED
    BY <2>1, <2>2
<1>4. ASSUME NEW i \in 1 .. Len(stack'), stack'[i].sync PROVE ~Awaited(v, stack'[i].wait)
  <2>1. i \in 1 .. Len(stack) /\ stack[i].sync /\ stack'[i].wait = stack[i].wait
    BY <1>1, <1>2, <1>4 DEF Top
  <2>2. ~Awaited(w, stack[i].wait)
    BY <2>1 DEF Engaged
  <2>3. QED
    BY <2>1, <2>2, AwaitedWas
<1>5. QED
  BY <1>3, <1>4 DEF Engaged

\* A driver that is rejected before it ran.
LEMMA RejectMinds ==
    ASSUME IInv, AInv, BInv, NEW s \in Slots, fut.slots[s].driver_active,
           fut.slots[s].state = "queued", NEW tt, Rests(stack, tt)
    PROVE  Minds(RejectAndDestroy(fut, s), tt)
<1> DEFINE a == fut.slots[s]
           v == RejectAndDestroy(fut, s)
<1>1. fut \in World /\ a \in SlotType /\ Sane(a) /\ NamedSlot(a) /\ Engaged(fut, stack)
      /\ a.allocated
  BY Facts DEF NamedSlot
<1>2. Over(fut, v, s, "rejected", a.seq)
  BY <1>1, RejectOver DEF Terminal
<1>3. Ends(fut, v, s, TRUE)
  BY <1>1, RejectEnds DEF Ended
<1>4. "rejected" \in Terminal /\ Apt(a, "rejected")
  BY DEF Terminal, Apt
<1>5. Clear(s, tt)
  BY <1>1, NotOccupied
<1> HIDE DEF v
<1>6. Minds(v, tt)
  BY <1>1, <1>2, <1>3, <1>4, <1>5, OverMinds
<1>7. QED
  BY <1>6 DEF v

\* A driver that was started.
LEMMA RunningMinds ==
    ASSUME IInv, AInv, BInv, NEW s \in Slots, fut.slots[s].driver_active,
           fut.slots[s].state = "queued", NEW tt, Rests(stack, tt),
           NEW v \in World, Others(fut, v, s), v.handles = fut.handles,
           v.slots[s] = Running(fut.slots[s]),
           v.native = [fut.native EXCEPT ![fut.slots[s].seq] = "running"]
    PROVE  Heeds(fut, v) /\ Rightly(fut, v) /\ Spares(fut, v, tt)
<1> DEFINE a == fut.slots[s]
           b == Running(a)
<1>1. fut \in World /\ a \in SlotType /\ Sane(a) /\ NamedSlot(a) /\ Engaged(fut, stack)
      /\ Tracked(fut) /\ Minded(fut, next) /\ Owned(fut)
  BY Facts
<1>2. /\ b.allocated = a.allocated /\ b.generation = a.generation
      /\ b.seq = a.seq /\ b.kind = a.kind /\ b.result = a.result /\ b.inputs = a.inputs
      /\ b.driver_active = a.driver_active /\ b.deadline = a.deadline
      /\ b.lane_waiting = FALSE /\ b.cancel_requested = a.cancel_requested
      /\ b.driver_started = TRUE /\ b.state = "pending"
  BY <1>1, RunningIs
<1> HIDE DEF b
<1>3. Changes(a, b)
  BY <1>1, <1>2 DEF Changes, Alters, Sane, NamedSlot
<1>4. \A t \in Slots : Changes(fut.slots[t], v.slots[t])
  <2>1. \A t \in Slots : Changes(fut.slots[t], fut.slots[t])
    BY <1>1 DEF Changes, Alters, Minded
  <2>2. QED
    BY <1>3, <2>1 DEF Others, b
<1>5. \A f \in Ids : Remains(fut.handles[f], v.handles[f], f)
  BY <1>1 DEF Remains, Minded
<1>6. fut.native[a.seq] = "captured" /\ a.seq \in Ids
  BY <1>1, QueuedCaptured, DriverNames
<1>7. \A f \in Ids : v.native[f] = "none" <=> fut.native[f] = "none"
  BY <1>1, <1>6, WorldFields
<1>8. Heeds(fut, v)
  BY <1>4, <1>5, <1>7 DEF Heeds, Respects, Changes
<1>9. Rightly(fut, v)
  BY <1>1, SameRightly
<1>10. Clear(s, tt)
  BY <1>1, NotOccupied
<1>11. QED
  BY <1>1, <1>8, <1>9, <1>10, OthersSpared

\* One that refuses to start has been started for nothing.
LEMMA RefusedMinds ==
    ASSUME IInv, AInv, BInv, NEW s \in Slots, fut.slots[s].driver_active,
           fut.slots[s].state = "queued", NEW tt, Rests(stack, tt)
    PROVE  Minds(StartDriver(fut, s, FALSE), tt)
<1> DEFINE a == fut.slots[s]
           b == Running(a)
           u == Put(fut, s, b)
           v == RejectAndDestroy(u, s)
<1>1. fut \in World /\ a \in SlotType /\ Sane(a) /\ NamedSlot(a) /\ Engaged(fut, stack)
      /\ a.allocated
  BY Facts DEF NamedSlot
<1>2. /\ b \in SlotType /\ b.allocated = a.allocated /\ b.seq = a.seq
      /\ b.driver_active = a.driver_active /\ b.state = "pending"
  BY <1>1, RunningIs
<1>3. StartDriver(fut, s, FALSE) = v
  BY DEF StartDriver, Running
<1>4. v = StartDriver(fut, s, FALSE)
  BY <1>3
<1> HIDE DEF b
<1>5. u \in World /\ u.native = fut.native /\ u.handles = fut.handles /\ u.slots[s] = b
      /\ Others(fut, u, s)
  BY <1>1, <1>2, PutIs DEF Others
<1>6. NamedSlot(b) /\ b.state \notin Terminal
  BY <1>1, <1>2 DEF NamedSlot, Terminal
<1> HIDE DEF u
<1>7. v.slots[s] = EmptySlot(b.generation)
  BY <1>1, <1>2, <1>5, <1>6, RejectOver
<1>8. Drops(u, v, s) /\ v \in World
  BY <1>1, <1>2, <1>5, <1>6, RejectEnds DEF Ended, Ends
<1>9. ~v.slots[s].allocated /\ v.slots[s].seq = 0 /\ ~v.slots[s].driver_active
  BY <1>7 DEF EmptySlot
<1> HIDE DEF v
<1>10. Carries(a, v.slots[s])
  BY <1>9 DEF Carries, Served
<1>11. Drops(fut, v, s)
  BY <1>2, <1>5, <1>8, <1>10 DEF Drops, Others, SameSlots
<1>12. v.handles = ToldIn(fut, s, "rejected", a.seq) /\ v.slots[s] = EmptySlot(a.generation)
  <2>1. Over(u, v, s, "rejected", b.seq)
    BY <1>1, <1>2, <1>5, <1>6, RejectOver DEF v
  <2>2. b.handle = a.handle /\ b.generation = a.generation
    BY <1>1, RunningIs DEF b
  <2>3. QED
    BY <1>2, <1>5, <1>7, <2>1, <2>2 DEF Over, ToldIn
<1>13. Over(fut, v, s, "rejected", a.seq)
  BY <1>8, <1>11, <1>12 DEF Over, Drops
<1>14. Ends(fut, v, s, TRUE)
  BY <1>8, <1>11 DEF Ends
<1>15. "rejected" \in Terminal /\ Apt(a, "rejected")
  BY DEF Terminal, Apt
<1>16. Clear(s, tt)
  BY <1>1, NotOccupied
<1>17. Minds(v, tt)
  BY <1>1, <1>13, <1>14, <1>15, <1>16, OverMinds
<1>18. QED
  BY <1>3, <1>17 DEF v

\* The one that is started is the oldest of its lane.
LEMMA StartFifo ==
    ASSUME IInv, AInv, BInv, NEW s \in Slots, fut.slots[s].driver_active,
           \A p \in Slots : /\ p # s /\ fut.slots[p].driver_active
                            /\ fut.slots[p].state = "queued"
                            /\ fut.slots[p].key = fut.slots[s].key /\ fut.slots[s].key # NoKey
                            => fut.slots[s].seq <= fut.slots[p].seq,
           NEW v, v.native = [fut.native EXCEPT ![fut.slots[s].seq] = "running"]
    PROVE  Fifo(fut, v)
<1>1. fut \in World /\ Owned(fut) /\ \A t \in Slots : Sane(fut.slots[t])
  BY Facts
<1> SUFFICES ASSUME NEW p \in Slots, NEW t \in Slots,
                    fut.slots[p].driver_active, fut.slots[t].driver_active,
                    fut.slots[p].key = fut.slots[t].key, fut.slots[p].key # NoKey,
                    fut.native[fut.slots[p].seq] = "captured",
                    fut.native[fut.slots[t].seq] = "captured",
                    v.native[fut.slots[t].seq] = "running"
             PROVE  fut.slots[t].seq <= fut.slots[p].seq
  BY DEF Fifo
<1>2. fut.slots[t].seq \in Ids /\ fut.slots[s].seq \in Ids /\ fut.slots[p].seq \in Ids
  BY <1>1, DriverNames
<1>3. fut.slots[t].seq = fut.slots[s].seq
  BY <1>1, <1>2, WorldFields
<1>4. t = s
  BY <1>1, <1>3, DriverNames DEF Owned, Unique
<1>5. CASE p = s
  <2>1. \A n \in Ids : n <= n
    BY FutureAssumption DEF Ids
  <2>2. QED
    BY <1>2, <1>4, <1>5, <2>1
<1>6. CASE p # s
  <2>1. ~fut.slots[p].driver_started
    BY <1>1 DEF Owned, Driven
  <2>2. fut.slots[p].state = "queued"
    BY <1>1, <2>1 DEF Sane
  <2>3. QED
    BY <1>4, <1>6, <2>2
<1>7. QED
  BY <1>5, <1>6

\* A lane without waiters admits a submission only while no other waits.
LEMMA AdmitsFirst ==
    ASSUME IInv, AInv, BInv, ~shutting_down, submissions # <<>>, NEW s \in Slots,
           s = ResolveToken(fut, Head(submissions)), LaneAdmission(fut, s) = "start",
           NEW p \in Slots, p # s, fut.slots[p].driver_active, fut.slots[p].state = "queued",
           fut.slots[p].key = fut.slots[s].key, fut.slots[s].key # NoKey
    PROVE  fut.slots[s].seq <= fut.slots[p].seq
<1> DEFINE W == {x \in LanePeers(fut, s) : fut.slots[x].lane_waiting}
<1>1. fut.slots[p].allocated
  BY Facts DEF NamedSlot
<1>2. p \in LanePeers(fut, s)
  BY <1>1 DEF LanePeers
<1>3. LaneWaiters(fut, s) = 0
  BY DEF LaneAdmission
<1>4. Cardinality(W) = 0
  BY <1>3 DEF LaneWaiters
<1>5. W \subseteq Slots
  BY DEF LanePeers
<1> HIDE DEF W
<1>6. W = {}
  <2>1. IsFiniteSet(W)
    BY <1>5, SlotsFinite, FS_Subset
  <2>2. QED
    BY <1>4, <2>1, FS_EmptySet
<1>7. ~fut.slots[p].lane_waiting
  BY <1>2, <1>6 DEF W
<1>8. fut.slots[s].seq < fut.slots[p].seq
  BY <1>1, <1>7, HeadFirst
<1>9. fut.slots[s].seq \in Nat /\ fut.slots[p].seq \in Nat
  BY Facts, SeqIs
<1>10. QED
  BY <1>8, <1>9

\* What a dispatch leaves to be shown of a driver.
Takeable(v, tt) ==
    /\ Tends(fut, v) /\ Respects(fut, v) /\ Engaged(v, tt) /\ Elder(v)
    /\ Orderly(fut, v)

\* Ordinary steps may also take the token.
LEMMA MindTakes ==
    ASSUME IInv, AInv, BInv, ~shutting_down, NEW v, NEW tt, Rests(stack, tt), Minds(v, tt)
    PROVE  Takeable(v, tt)
<1>1. /\ fut \in World /\ Owned(fut) /\ v \in World /\ AllGo(fut, v) /\ Respects(fut, v)
      /\ \A s \in Slots : Served(fut.slots[s])
  BY Facts DEF Minds, Tends, Heeds, Owned
<1>2. Engaged(v, tt)
  BY <1>1, Facts, HeedsEngaged DEF Minds
<1>3. Elder(v)
  BY <1>1, ElderStay DEF Minds, BInv
<1>4. Orderly(fut, v)
  BY <1>1, DulyOrderly DEF Minds
<1>5. QED
  BY <1>1, <1>2, <1>3, <1>4 DEF Takeable, Minds

\* A driver starts, or its start is refused.
LEMMA RunningTakes ==
    ASSUME IInv, AInv, BInv, ~shutting_down, NEW s \in Slots, fut.slots[s].driver_active,
           fut.slots[s].state = "queued", ~LaneInUse(fut, s),
           \A p \in Slots : /\ p # s /\ fut.slots[p].driver_active
                            /\ fut.slots[p].state = "queued"
                            /\ fut.slots[p].key = fut.slots[s].key /\ fut.slots[s].key # NoKey
                            => fut.slots[s].seq <= fut.slots[p].seq,
           NEW tt, Rests(stack, tt), NEW ok \in BOOLEAN
    PROVE  LET v == StartDriver(fut, s, ok) IN
           Takeable(v, tt) /\ Tends(fut, v) /\ Heeds(fut, v) /\ Spares(fut, v, tt)
<1> DEFINE v == StartDriver(fut, s, ok)
           a == fut.slots[s]
           b == Running(a)
<1>1. fut \in World /\ a \in SlotType /\ NamedSlot(a) /\ Tracked(fut) /\ Owned(fut)
      /\ Engaged(fut, stack)
  BY Facts
<1>2. CASE ok = FALSE
  <2>1. Minds(v, tt)
    BY <1>2, RefusedMinds
  <2> HIDE DEF v
  <2>2. Takeable(v, tt)
    BY <2>1, MindTakes
  <2>3. QED
    BY <2>1, <2>2 DEF Minds, v
<1>3. CASE ok = TRUE
  <2> DEFINE u == Put(fut, s, b)
  <2>1. b \in SlotType /\ v = [u EXCEPT !.native[a.seq] = "running"]
    BY <1>1, <1>3, RunningIs DEF StartDriver, Running
  <2>2. u \in World /\ u.slots[s] = b /\ u.handles = fut.handles /\ u.native = fut.native
        /\ Others(fut, u, s)
    BY <1>1, <2>1, PutIs DEF Others
  <2>3. a.seq \in Ids /\ "running" \in NativeStates
    BY <1>1, DriverNames DEF NativeStates
  <2> HIDE DEF u
  <2> DEFINE x == [u EXCEPT !.native[a.seq] = "running"]
  <2>4. x \in World /\ x.slots = u.slots /\ x.handles = u.handles
        /\ x.native = [u.native EXCEPT ![a.seq] = "running"]
    BY <2>2, <2>3, NativeIs
  <2>5. v = x
    BY <2>1
  <2> HIDE DEF v, x, b
  <2>6. /\ v \in World /\ Others(fut, v, s) /\ v.handles = fut.handles
        /\ v.slots[s] = b /\ v.native = [fut.native EXCEPT ![a.seq] = "running"]
    BY <2>2, <2>4, <2>5 DEF Others
  <2>7. Heeds(fut, v) /\ Rightly(fut, v) /\ Spares(fut, v, tt)
    BY <2>6, RunningMinds DEF b
  <2>8. Fifo(fut, v)
    BY <2>6, StartFifo
  <2>9. Tends(fut, v)
    <3>1. Starts(fut, v, s)
      BY <2>6 DEF Starts, b
    <3>2. QED
      BY <1>1, <3>1, StartTends
  <2>10. Engaged(v, tt)
    BY <1>1, <2>6, <2>7, HeedsEngaged DEF Heeds, Owned
  <2>11. Elder(v)
    BY <2>7, <2>9, ElderStay DEF Tends, BInv
  <2>12. QED
    BY <2>7, <2>8, <2>9, <2>10, <2>11 DEF Takeable, Heeds, Orderly, v
<1>4. QED
  BY <1>2, <1>3

\* A driver that has to wait for its lane.
Parked(a) == [a EXCEPT !.lane_waiting = TRUE]

\* It is older than everything that is still in the queue.
LEMMA ParkTakes ==
    ASSUME IInv, AInv, BInv, ~shutting_down, submissions # <<>>, NEW s \in Slots,
           s = ResolveToken(fut, Head(submissions)),
           fut.slots[s].allocated, fut.slots[s].state = "queued", NEW tt, Rests(stack, tt)
    PROVE  Takeable(Put(fut, s, Parked(fut.slots[s])), tt)
<1> DEFINE a == fut.slots[s]
           b == Parked(a)
           v == Put(fut, s, b)
<1>1. fut \in World /\ a \in SlotType /\ Sane(a) /\ NamedSlot(a) /\ Engaged(fut, stack)
      /\ Tracked(fut) /\ Minded(fut, next) /\ Owned(fut)
  BY Facts
<1>2. /\ b \in SlotType /\ b.allocated = a.allocated /\ b.generation = a.generation
      /\ b.seq = a.seq /\ b.kind = a.kind /\ b.result = a.result /\ b.inputs = a.inputs
      /\ b.driver_active = a.driver_active /\ b.deadline = a.deadline
      /\ b.lane_waiting = TRUE /\ b.cancel_requested = a.cancel_requested
      /\ b.driver_started = a.driver_started /\ b.state = a.state /\ b.handle = a.handle
      /\ b.running = a.running /\ b.called = a.called
  <2>1. b \in SlotType
    BY <1>1, Zenon DEF SlotType, Parked
  <2>2. QED
    BY <1>1, <2>1, ZenonT(30) DEF SlotType, Parked
<1> HIDE DEF b
<1>3. v \in World /\ v.native = fut.native /\ v.handles = fut.handles /\ v.slots[s] = b
      /\ Others(fut, v, s)
  BY <1>1, <1>2, PutIs DEF Others
<1> HIDE DEF v
<1>4. Goes(a, b)
  BY <1>2 DEF Goes, Begun
<1>5. Tends(fut, v)
  BY <1>1, <1>2, <1>3, <1>4, BookTends
<1>6. \A t \in Slots : Alters(fut.slots[t], v.slots[t])
  <2>1. \A t \in Slots : Alters(fut.slots[t], fut.slots[t])
    BY <1>1 DEF Alters, Minded
  <2>2. Alters(a, b)
    BY <1>1, <1>2 DEF Alters, Sane
  <2>3. QED
    BY <1>3, <2>1, <2>2 DEF Others
<1>7. Respects(fut, v)
  BY <1>1, <1>3, <1>6 DEF Respects, Remains, Minded
<1>8. Spares(fut, v, tt)
  <2>1. Clear(s, tt)
    BY <1>1, NotOccupied
  <2>2. QED
    BY <1>1, <1>3, <2>1, OthersSpared
<1>9. Engaged(v, tt)
  BY <1>1, <1>3, <1>7, <1>8, HeedsEngaged DEF Owned
<1>10. Elder(v)
  <2> SUFFICES ASSUME NEW x \in Slots, NEW y \in Slots,
                      v.slots[x].allocated, v.slots[x].lane_waiting,
                      v.slots[y].allocated, v.slots[y].state = "queued",
                      ~v.slots[y].lane_waiting
               PROVE  v.slots[x].seq < v.slots[y].seq
    BY DEF Elder
  <2>1. y # s /\ v.slots[y] = fut.slots[y] /\ v.slots[x].seq = fut.slots[x].seq
    BY <1>2, <1>3 DEF Others
  <2>2. CASE x = s
    BY <2>1, <2>2, HeadFirst
  <2>3. CASE x # s
    BY <1>3, <2>1, <2>3 DEF Others, BInv, Elder
  <2>4. QED
    BY <2>2, <2>3
<1>11. Orderly(fut, v)
  <2>1. Duly(fut, v)
    BY <1>1, <1>3, SameRightly DEF Duly, Unstarted
  <2>2. QED
    BY <1>1, <2>1, DulyOrderly
<1>12. QED
  BY <1>5, <1>7, <1>9, <1>10, <1>11 DEF Takeable, v, b

\* A JavaScript function is called.
LEMMA CallTakes ==
    ASSUME IInv, AInv, BInv, ~shutting_down, NEW s \in Slots, fut.slots[s].allocated,
           fut.slots[s].state = "queued", fut.slots[s].kind = "call", dispatch_call(s)
    PROVE  Takeable(fut', stack')
<1> DEFINE a == fut.slots[s]
           b == [a EXCEPT !.kind = "js_call", !.state = "pending"]
           c == [Top EXCEPT !.phase = "call", !.n = At("dispatch") + 1,
                            !.run = fut.slots[s].seq, !.runSlot = s]
<1>1. fut \in World /\ a \in SlotType /\ Sane(a) /\ NamedSlot(a) /\ Engaged(fut, stack)
      /\ Tracked(fut) /\ Minded(fut, next) /\ Owned(fut) /\ StackOK(stack)
  BY Facts
<1>2. fut' = Put(fut, s, b) /\ SetTop(c)
  BY DEF dispatch_call
<1>3. b \in PendingForms(a) /\ b.kind = "js_call" /\ ~a.driver_active
  BY <1>1 DEF PendingForms, SlotType, Sane
<1>4. Rests(stack, stack)
  BY RestsSame
<1>5. Minds(fut', stack)
  BY <1>2, <1>3, <1>4, PendingMinds
<1>6. Takeable(fut', stack)
  BY <1>4, <1>5, MindTakes
<1>7. fut'.slots[s] = b /\ Others(fut, fut', s) /\ fut' \in World
  BY <1>1, <1>2, <1>3, PendingTends
<1>8. Same(a, b) /\ b.state = "pending"
  BY <1>1, <1>3, PendingSame
<1>9. Top \in FrameType
  BY <1>1, TopIs
<1>10. c.run = a.seq /\ c.runSlot = s /\ c.sync = Top.sync /\ c.wait = Top.wait
  BY <1>9 DEF FrameType
<1> HIDE DEF b, c
<1>11. Occupied(fut', c)
  BY <1>1, <1>3, <1>7, <1>8, <1>10 DEF Occupied, Same, NamedSlot
<1>12. Clear(s, stack)
  BY <1>1, <1>4, NotOccupied
<1>13. Engaged(fut', stack')
  BY <1>1, <1>2, <1>6, <1>7, <1>10, <1>11, <1>12, CallEngaged DEF Takeable, Owned
<1>14. QED
  BY <1>6, <1>13 DEF Takeable

\* A sleep becomes pending, or is over.
LEMMA SleepTakes ==
    ASSUME IInv, AInv, BInv, NEW s \in Slots, fut.slots[s].allocated,
           fut.slots[s].state = "queued", fut.slots[s].kind = "sleep", start_sleep(s),
           NEW tt, Rests(stack, tt)
    PROVE  Minds(fut', tt)
<1> DEFINE a == fut.slots[s]
           b == [a EXCEPT !.state = "pending"]
           c == [b EXCEPT !.timer = "armed"]
<1>1. a \in SlotType /\ Sane(a)
  BY Facts
<1>2. ~a.driver_active /\ ~a.cancel_requested
  BY <1>1 DEF Sane
<1>3. c \in PendingForms(a) /\ c.kind = a.kind
  BY <1>1 DEF PendingForms, SlotType
<1>4. \/ a.seq \in due /\ fut' = Settle(Put(fut, s, b), s, "fulfilled", b.seq)
      \/ fut' = Put(fut, s, c)
      \/ fut' = Settle(Put(fut, s, b), s, "rejected", b.seq)
  BY <1>1 DEF start_sleep, SlotType
<1>5. b.seq = a.seq
  BY <1>1 DEF SlotType
<1>6. {"fulfilled", "rejected"} \subseteq Terminal /\ Apt(a, "rejected")
      /\ (a.seq \in due => Apt(a, "fulfilled"))
  BY <1>2 DEF Terminal, Apt
<1>7. QED
  BY <1>2, <1>3, <1>4, <1>5, <1>6, PendingMinds, PendingSettleMinds

\* What a dispatch does with the slot of its token.
LEMMA SubmissionTakes ==
    ASSUME IInv, AInv, BInv, ~shutting_down, submissions # <<>>, NEW s \in Slots,
           s = ResolveToken(fut, Head(submissions)),
           fut.slots[s].allocated, fut.slots[s].state = "queued", dispatch_submission(s),
           NEW tt, Rests(stack, tt)
    PROVE  Takeable(fut', tt)
<1> DEFINE a == fut.slots[s]
<1>1. a \in SlotType /\ Sane(a) /\ Owned(fut)
  BY Facts
<1>2. CASE a.kind = "driver" /\ DispatchDriver(s)
  <2>1. a.driver_active
    BY <1>1, <1>2 DEF Owned, Fresh
  <2>2. CASE fut' = RejectAndDestroy(fut, s)
    BY <2>1, <2>2, RejectMinds, MindTakes
  <2>3. CASE fut' = Put(fut, s, [a EXCEPT !.lane_waiting = TRUE])
    BY <2>3, ParkTakes DEF Parked
  <2>4. CASE LaneAdmission(fut, s) = "start" /\ \E ok \in BOOLEAN : fut' = StartDriver(fut, s, ok)
    <3>1. PICK ok \in BOOLEAN : fut' = StartDriver(fut, s, ok)
      BY <2>4
    <3>2. ~LaneInUse(fut, s)
      BY <2>4 DEF LaneAdmission
    <3>3. \A p \in Slots : /\ p # s /\ fut.slots[p].driver_active
                           /\ fut.slots[p].state = "queued"
                           /\ fut.slots[p].key = fut.slots[s].key /\ fut.slots[s].key # NoKey
                           => fut.slots[s].seq <= fut.slots[p].seq
      BY <2>4, AdmitsFirst
    <3>4. QED
      BY <2>1, <3>1, <3>2, <3>3, RunningTakes
  <2>5. QED
    BY <1>2, <2>2, <2>3, <2>4 DEF DispatchDriver
<1>3. CASE a.kind = "sleep" /\ start_sleep(s)
  BY <1>3, SleepTakes, MindTakes
<1>4. CASE a.kind = "call" /\ fut' = Settle(fut, s, "rejected", a.seq)
  <2>1. ~a.driver_active /\ "rejected" \in Terminal /\ Apt(a, "rejected")
    BY <1>1, <1>4 DEF Sane, Terminal, Apt
  <2>2. Clear(s, tt)
    BY Facts, NotOccupied
  <2>3. Minds(fut', tt)
    BY <1>4, <2>1, <2>2, SettleMinds
  <2>4. QED
    BY <2>3, MindTakes
<1>5. CASE /\ a.kind \in {"all", "race", "timeout", "map", "flatMap"}
           /\ fut' = Put(fut, s, [a EXCEPT !.state = "pending"])
  <2> DEFINE b == [a EXCEPT !.state = "pending"]
  <2>1. ~a.driver_active /\ b \in PendingForms(a) /\ b.kind = a.kind
    BY <1>1, <1>5 DEF Sane, PendingForms, SlotType
  <2>2. Minds(fut', tt)
    BY <1>5, <2>1, PendingMinds
  <2>3. QED
    BY <2>2, MindTakes
<1>6. QED
  BY <1>2, <1>3, <1>4, <1>5 DEF dispatch_submission

\* Dispatches.
LEMMA DispatchKeeps ==
    ASSUME IInv, AInv, BInv, DispatchStep
    PROVE  BInv' /\ Orderly(fut, fut')
<1> DEFINE s == ResolveToken(fut, Head(submissions))
           live == s # NoSlot /\ fut.slots[s].state = "queued"
           calls == live /\ fut.slots[s].kind = "call" /\ fut.slots[s].call_refs
<1>1. /\ submissions' = Tail(submissions) /\ ~shutting_down /\ (SameCore => firing = NoSlot)
      /\ UNCHANGED <<next, ready, due, waking, firing, shutting_down>>
  BY DEF DispatchStep, Reaches, Polls, RuntimeRuns
<1>2. submissions # <<>>
  BY DEF DispatchStep, Reaches, HasWork
<1>3. s # NoSlot => s \in Slots /\ fut.slots[s].allocated
  <2>1. Head(submissions) \in TokenType
    BY <1>2 DEF IInv, QueuesOK
  <2>2. QED
    BY <2>1, Facts, TokenSlot
<1>4. \/ calls /\ dispatch_call(s)
      \/ live /\ dispatch_submission(s) /\ Move("dispatch", At("dispatch") + 1)
      \/ Move("dispatch", At("dispatch") + 1) /\ fut' = fut
  BY DEF DispatchStep
<1>5. Takeable(fut', stack')
  <2>1. CASE calls /\ dispatch_call(s)
    BY <1>1, <1>3, <2>1, CallTakes
  <2>2. CASE live /\ dispatch_submission(s) /\ Move("dispatch", At("dispatch") + 1)
    <3> HIDE DEF s
    <3>1. Rests(stack, stack')
      BY <2>2, Moving
    <3>2. QED
      BY <1>1, <1>2, <1>3, <2>2, <3>1, SubmissionTakes DEF s
  <2>3. CASE Move("dispatch", At("dispatch") + 1) /\ fut' = fut
    <3>1. Rests(stack, stack')
      BY <2>3, Moving
    <3>2. QED
      BY <1>1, <2>3, <3>1, SameMinds, MindTakes
  <2>4. QED
    BY <1>4, <2>1, <2>2, <2>3
<1>6. BInv'
  BY <1>1, <1>2, <1>5, TakeBinds DEF Takeable
<1>7. QED
  BY <1>5, <1>6 DEF Takeable

\* The waiter that is started is the oldest one of its lane, and what is not yet
\* in the lane is younger still.
LEMMA WaiterFirst ==
    ASSUME IInv, AInv, BInv, ~shutting_down, NEW s \in Slots, s = NextWaiting(fut),
           fut.slots[s].state = "queued",
           NEW p \in Slots, p # s, fut.slots[p].driver_active, fut.slots[p].state = "queued",
           fut.slots[p].key = fut.slots[s].key, fut.slots[s].key # NoKey
    PROVE  fut.slots[s].seq <= fut.slots[p].seq
<1>1. fut \in World /\ Owned(fut) /\ fut.slots[p].allocated /\ Elder(fut)
  BY Facts DEF NamedSlot, BInv
<1>2. fut.slots[s].seq \in Nat /\ fut.slots[p].seq \in Nat
  BY <1>1, SeqIs
<1>3. s \in Waiting(fut)
  BY <1>1, NextWaitingIn, NumbersAre
<1>4. fut.slots[s].allocated /\ fut.slots[s].lane_waiting /\ ~LaneInUse(fut, s)
  BY <1>3 DEF Waiting
<1>5. CASE ~fut.slots[p].lane_waiting
  <2>1. fut.slots[s].seq < fut.slots[p].seq
    BY <1>1, <1>4, <1>5 DEF Elder
  <2>2. QED
    BY <1>2, <2>1
<1>6. CASE fut.slots[p].lane_waiting
  <2>1. ~LaneInUse(fut, p)
    <3> SUFFICES ASSUME NEW x \in LanePeers(fut, p), fut.slots[x].driver_started PROVE FALSE
      BY DEF LaneInUse
    <3>1. x \in Slots /\ fut.slots[x].allocated /\ fut.slots[x].driver_active
          /\ fut.slots[x].key = fut.slots[s].key
      BY DEF LanePeers
    <3>2. CASE x = s
      BY <1>1, <3>2 DEF LanePeers, Owned, Driven
    <3>3. CASE x # s
      BY <1>4, <3>1, <3>3 DEF LaneInUse, LanePeers
    <3>4. QED
      BY <3>2, <3>3
  <2>2. p \in Waiting(fut)
    BY <1>1, <1>6, <2>1 DEF Waiting
  <2>3. \E x \in Waiting(fut) : \A y \in Waiting(fut) : fut.slots[x].seq <= fut.slots[y].seq
    <3> DEFINE S == {fut.slots[x].seq : x \in Waiting(fut)}
    <3>1. S \subseteq Nat /\ S # {}
      BY <1>1, <1>3, SeqIs DEF Waiting
    <3>2. Least(S) \in S /\ \A y \in S : Least(S) <= y
      BY <3>1, LeastIn
    <3>3. QED
      BY <3>2
  <2>4. \A y \in Waiting(fut) : fut.slots[s].seq <= fut.slots[y].seq
    BY <1>3, <2>3 DEF NextWaiting
  <2>5. QED
    BY <2>2, <2>4
<1>7. QED
  BY <1>5, <1>6

\* The step of the waiting lanes.
LEMMA LaneKeeps ==
    ASSUME IInv, AInv, BInv, dispatch_waiting_lanes
    PROVE  BInv' /\ Orderly(fut, fut')
<1> DEFINE s == NextWaiting(fut)
           a == fut.slots[s]
           b == [a EXCEPT !.lane_waiting = FALSE]
<1>1. /\ s # NoSlot /\ ~shutting_down /\ (SameCore => firing = NoSlot)
      /\ UNCHANGED <<next, submissions, ready, due, waking, firing, shutting_down>>
  BY DEF dispatch_waiting_lanes, Reaches, Polls, RuntimeRuns, HasWork
<1>2. s \in Slots /\ a.allocated /\ a.driver_active /\ a.lane_waiting /\ ~LaneInUse(fut, s)
  BY <1>1, Facts, NextWaitingIn DEF Waiting
<1>3. PICK n : Move("lanes", n)
  BY Zenon DEF dispatch_waiting_lanes
<1>4. IF a.state = "queued" THEN \E ok \in BOOLEAN : fut' = StartDriver(fut, s, ok)
      ELSE fut' = Put(fut, s, b)
  BY DEF dispatch_waiting_lanes
<1>5. Rests(stack, stack')
  BY <1>3, Moving
<1>6. Woken(fut, ready', due) /\ ready' \in Seq(TokenType)
  BY <1>1, Facts
<1>7. CASE a.state = "queued"
  <2>1. PICK ok \in BOOLEAN : fut' = StartDriver(fut, s, ok)
    BY <1>4, <1>7
  <2>2. \A p \in Slots : /\ p # s /\ fut.slots[p].driver_active
                         /\ fut.slots[p].state = "queued"
                         /\ fut.slots[p].key = fut.slots[s].key /\ fut.slots[s].key # NoKey
                         => fut.slots[s].seq <= fut.slots[p].seq
    BY <1>1, <1>2, <1>7, WaiterFirst
  <2> HIDE DEF s
  <2>3. Takeable(fut', stack') /\ Tends(fut, fut') /\ Heeds(fut, fut')
        /\ Spares(fut, fut', stack')
    BY <1>1, <1>2, <1>5, <1>7, <2>1, <2>2, RunningTakes
  <2>4. BInv'
    BY <1>1, <1>5, <1>6, <2>3, HeedFits
  <2>5. QED
    BY <2>3, <2>4 DEF Takeable
<1>8. CASE a.state # "queued"
  <2>1. fut' = Put(fut, s, b)
    BY <1>4, <1>8
  <2> HIDE DEF s
  <2>2. fut \in World /\ a \in SlotType /\ Sane(a) /\ NamedSlot(a) /\ Engaged(fut, stack)
        /\ Tracked(fut) /\ Minded(fut, next) /\ Owned(fut)
    BY <1>2, Facts
  <2>3. /\ b \in SlotType /\ b.allocated = a.allocated /\ b.generation = a.generation
        /\ b.seq = a.seq /\ b.kind = a.kind /\ b.result = a.result /\ b.inputs = a.inputs
        /\ b.driver_active = a.driver_active /\ b.deadline = a.deadline
        /\ b.lane_waiting = FALSE /\ b.cancel_requested = a.cancel_requested
        /\ b.driver_started = a.driver_started /\ b.state = a.state /\ b.handle = a.handle
        /\ b.running = a.running /\ b.called = a.called
    BY <2>2 DEF SlotType
  <2> HIDE DEF b
  <2>4. fut' \in World /\ fut'.native = fut.native /\ fut'.handles = fut.handles
        /\ fut'.slots[s] = b /\ Others(fut, fut', s)
    BY <1>2, <2>1, <2>2, <2>3, PutIs DEF Others
  <2>5. Goes(a, b) /\ Changes(a, b)
    BY <1>2, <1>8, <2>2, <2>3 DEF Goes, Begun, Changes, Alters, Sane
  <2>6. Tends(fut, fut')
    BY <1>2, <2>2, <2>3, <2>4, <2>5, BookTends
  <2>7. Heeds(fut, fut') /\ Duly(fut, fut')
    BY <1>2, <2>2, <2>4, <2>5, OneHeeds
  <2>8. Clear(s, stack')
    <3>1. a.kind = "driver"
      BY <1>2, <2>2 DEF Sane
    <3>2. QED
      BY <1>5, <2>2, <3>1, NotOccupied
  <2>9. Spares(fut, fut', stack')
    BY <1>5, <2>2, <2>4, <2>8, OthersSpared
  <2>10. BInv'
    BY <1>1, <1>5, <1>6, <2>6, <2>7, <2>9, HeedFits
  <2>11. QED
    BY <2>2, <2>7, <2>10, DulyOrderly
<1>9. QED
  BY <1>7, <1>8

\* A slot that differs in what does not matter here.
Near(a, x) ==
    /\ x.allocated = a.allocated /\ x.generation = a.generation /\ x.seq = a.seq
    /\ x.handle = a.handle /\ x.driver_active = a.driver_active
    /\ x.driver_started = a.driver_started /\ x.key = a.key /\ x.lane_waiting = a.lane_waiting
    /\ x.state = "pending" /\ a.state = "pending" /\ x.kind = a.kind
    /\ x.inputs # <<>> \/ x.inputs = a.inputs

\* A Future that is settled once its callable has returned.
LEMMA NearSettleMinds ==
    ASSUME IInv, AInv, BInv, NEW s \in Slots, fut.slots[s].allocated, ~fut.slots[s].driver_active,
           NEW x \in SlotType, Near(fut.slots[s], x),
           NEW st \in Terminal, st # "cancelled", Apt(fut.slots[s], st), NEW tt, Rests(stack, tt),
           Clear(s, tt)
    PROVE  Minds(Settle(Put(fut, s, x), s, st, fut.slots[s].seq), tt)
<1> DEFINE a == fut.slots[s]
           u == Put(fut, s, x)
           v == Settle(u, s, st, a.seq)
<1>1. fut \in World /\ Tracked(fut) /\ a \in SlotType /\ Sane(a) /\ NamedSlot(a)
      /\ Engaged(fut, stack) /\ Owned(fut)
  BY Facts
<1>2. u.slots[s] = x /\ Others(fut, u, s) /\ u.handles = fut.handles /\ u \in World
  BY <1>1, PutIs DEF Others
<1>3. Served(a) => Served(x)
  BY DEF Near, Served, Terminal
<1>4. Ends(fut, u, s, FALSE)
  BY <1>1, <1>3, PutStays DEF Near, Ends
<1>5. NamedSlot(x) /\ x.allocated /\ x.state \notin Terminal /\ Alike(a, x) /\ x.seq = a.seq
  BY <1>1 DEF Near, NamedSlot, Terminal, Alike
<1>6. a.seq \in Ids \union {0}
  BY <1>1 DEF SlotType
<1> HIDE DEF u
<1>7. Over(u, v, s, st, a.seq)
  BY <1>2, <1>5, <1>6, SettleOver
<1>8. Ends(fut, v, s, FALSE)
  BY <1>1, <1>4, <1>6, SettleEnds
<1> HIDE DEF v
<1>9. Over(fut, v, s, st, a.seq)
  BY <1>2, <1>5, <1>7, OverFrom
<1>10. Minds(v, tt)
  BY <1>1, <1>8, <1>9, OverMinds
<1>11. QED
  BY <1>10 DEF v, u

\* What returns to its activation: the slot it was called for is its own.
LEMMA TopOccupies ==
    ASSUME IInv, AInv, BInv, Calls(Top), NEW a, SetTop(a), ~Calls(a), a.sync = Top.sync,
           a.wait = Top.wait
    PROVE  /\ Occupied(fut, Top) /\ Rests(stack, stack') /\ Clear(Top.runSlot, stack')
<1>1. StackOK(stack) /\ Engaged(fut, stack) /\ Len(stack) \in 1 .. Len(stack)
      /\ stack \in Seq(FrameType)
  BY Facts, TopIs DEF StackOK
<1>2. Occupied(fut, Top)
  BY <1>1 DEF Engaged, Top
<1>3. Rests(stack, stack')
  BY <1>1, RestsTop
<1>4. stack'[Len(stack)] = a /\ Len(stack') = Len(stack)
  BY <1>1 DEF SetTop
<1>5. ASSUME NEW i \in 1 .. Len(stack'), Calls(stack'[i]), stack'[i].runSlot = Top.runSlot
      PROVE  FALSE
  <2>1. i # Len(stack)
    BY <1>4, <1>5
  <2>2. i \in 1 .. Len(stack) /\ Calls(stack[i]) /\ stack[i].runSlot = Top.runSlot
    BY <1>3, <1>5 DEF Rests
  <2>3. Occupied(fut, stack[i])
    BY <1>1, <2>2 DEF Engaged
  <2>4. stack[i].run = Top.run /\ stack[i].run # 0
    BY <1>2, <2>2, <2>3 DEF Occupied
  <2>5. i = Len(stack)
    BY <1>1, <2>2, <2>4 DEF AInv, Fit, Runs, Top
  <2>6. QED
    BY <2>1, <2>5
<1>6. QED
  BY <1>2, <1>3, <1>5 DEF Clear

\* A callable returns.
LEMMA CallReturnKeeps ==
    ASSUME IInv, AInv, BInv, CallReturns
    PROVE  BInv' /\ Duly(fut, fut')
<1> DEFINE s == Top.runSlot
           a == fut.slots[s]
           x == [a EXCEPT !.call_refs = FALSE]
           w == Put(fut, s, x)
           c == [Top EXCEPT !.phase = "dispatch", !.run = 0, !.runSlot = NoSlot]
<1>1. /\ Top.phase = "call" /\ SetTop(c) /\ (SameCore => firing = NoSlot)
      /\ UNCHANGED <<next, submissions, ready, due, waking, firing, shutting_down>>
  BY DEF CallReturns, JsRuns, RuntimeRuns
<1>2. Top \in FrameType
  BY Facts, TopIs
<1>3. Calls(Top) /\ ~Calls(c) /\ c.sync = Top.sync /\ c.wait = Top.wait
  BY <1>1, <1>2 DEF Calls, FrameType
<1> HIDE DEF c
<1>4. Occupied(fut, Top) /\ Rests(stack, stack') /\ Clear(s, stack')
  BY <1>1, <1>3, TopOccupies
<1>5. s \in Slots /\ a.allocated /\ a.seq = Top.run /\ a.state = "pending"
      /\ a.kind \in {"js_call", "map", "flatMap"}
  BY <1>4 DEF Occupied
<1>6. fut \in World /\ a \in SlotType /\ Sane(a)
  BY <1>5, Facts
<1>7. x \in SlotType /\ Near(a, x) /\ x.state = "pending"
  BY <1>5, <1>6 DEF SlotType, Near
<1>8. ~a.driver_active /\ ~a.cancel_requested /\ "pending" \notin Terminal
      /\ {"fulfilled", "rejected"} \subseteq Terminal
  <2>1. ~a.driver_active /\ ~a.cancel_requested
    BY <1>5, <1>6 DEF Sane
  <2>2. "pending" \notin Terminal /\ {"fulfilled", "rejected"} \subseteq Terminal
    BY DEF Terminal
  <2>3. QED
    BY <2>1, <2>2
<1>9. w.slots[s].state \notin Terminal
  <2> HIDE DEF s, a, x
  <2>1. w.slots[s] = x
    BY <1>5, <1>6, <1>7, PutIs
  <2>2. x.state \notin Terminal
    BY <1>7, <1>8
  <2>3. QED
    BY <2>1, <2>2
<1>10. fut' \in IF w.slots[s].state \in Terminal
                THEN {ReleaseIfTerminal(PublishTerminal(w, s), s)}
                ELSE {Settle(w, s, state, Top.run) : state \in {"fulfilled", "rejected"}}
  BY DEF CallReturns
<1>11. PICK st \in {"fulfilled", "rejected"} : fut' = Settle(w, s, st, a.seq)
  BY <1>5, <1>9, <1>10
<1>12. Apt(a, st) /\ st \in Terminal /\ st # "cancelled"
  BY <1>5, <1>8 DEF Apt
<1> HIDE DEF s, x
<1>13. Minds(fut', stack')
  BY <1>4, <1>5, <1>7, <1>8, <1>11, <1>12, NearSettleMinds
<1>14. QED
  BY <1>1, <1>4, <1>13, Facts, MindFits

\* The slot of a flatMap goes on with another input.
Rechained(a, b, f) ==
    /\ b \in SlotType
    /\ b.allocated = a.allocated /\ b.generation = a.generation /\ b.seq = a.seq
    /\ b.kind = a.kind /\ b.result = a.result /\ b.driver_active = a.driver_active
    /\ b.deadline = a.deadline /\ b.cancel_requested = a.cancel_requested
    /\ b.lane_waiting = a.lane_waiting /\ b.state = a.state /\ b.handle = a.handle
    /\ b.driver_started = a.driver_started
    /\ \A i \in 1 .. Len(b.inputs) : b.inputs[i] = f \/ \E j \in 1 .. Len(a.inputs) : b.inputs[i] = a.inputs[j]

\* The continuation of a flatMap returned a Future, which is the input now.
LEMMA ChainedIs ==
    ASSUME NEW a \in SlotType, NEW f \in Ids
    PROVE  LET x == [a EXCEPT !.running = FALSE, !.called = TRUE]
               b == [x EXCEPT !.inputs[1] = f]
           IN /\ Rechained(a, x, f) /\ x.called = TRUE /\ Len(x.inputs) \in Nat
              /\ Len(x.inputs) # 0 => Rechained(a, b, f) /\ b.called = TRUE
<1> DEFINE x == [a EXCEPT !.running = FALSE, !.called = TRUE]
           in == [a.inputs EXCEPT ![1] = f]
           b == [x EXCEPT !.inputs = in]
<1>1. x \in SlotType
  BY Zenon DEF SlotType
<1>2. a.inputs \in Seq(Ids) /\ Len(a.inputs) \in Nat
  BY DEF SlotType
<1>3. /\ x.allocated = a.allocated /\ x.generation = a.generation /\ x.seq = a.seq
      /\ x.kind = a.kind /\ x.result = a.result /\ x.driver_active = a.driver_active
      /\ x.deadline = a.deadline /\ x.cancel_requested = a.cancel_requested
      /\ x.lane_waiting = a.lane_waiting /\ x.state = a.state /\ x.handle = a.handle
      /\ x.driver_started = a.driver_started /\ x.inputs = a.inputs /\ x.called = TRUE
  BY DEF SlotType
<1>4. b = [x EXCEPT !.inputs[1] = f]
  BY <1>3
<1> HIDE DEF x
<1>5. Rechained(a, x, f)
  BY <1>1, <1>3 DEF Rechained
<1>6. ASSUME Len(a.inputs) # 0 PROVE Rechained(a, b, f) /\ b.called = TRUE
  <2>1. in \in Seq(Ids) /\ Len(in) = Len(a.inputs)
        /\ \A i \in 1 .. Len(a.inputs) : in[i] = IF i = 1 THEN f ELSE a.inputs[i]
    BY <1>2, <1>6
  <2> HIDE DEF in
  <2>2. b \in SlotType
    BY <1>1, <2>1, Zenon DEF SlotType
  <2>3. /\ b.allocated = x.allocated /\ b.generation = x.generation /\ b.seq = x.seq
        /\ b.kind = x.kind /\ b.result = x.result /\ b.driver_active = x.driver_active
        /\ b.deadline = x.deadline /\ b.cancel_requested = x.cancel_requested
        /\ b.lane_waiting = x.lane_waiting /\ b.state = x.state /\ b.handle = x.handle
        /\ b.driver_started = x.driver_started /\ b.inputs = in /\ b.called = x.called
    BY <1>1 DEF SlotType
  <2> HIDE DEF b
  <2>4. QED
    BY <1>3, <2>1, <2>2, <2>3 DEF Rechained
<1>7. QED
  BY <1>2, <1>3, <1>4, <1>5, <1>6 DEF x

\* The new input is an object that JavaScript can see.
LEMMA ChainKeeps ==
    ASSUME IInv, AInv, BInv, Tends(fut, fut'), NEW s \in Slots, fut.slots[s].allocated,
           fut.slots[s].kind # "timeout", Others(fut, fut', s), NEW f \in Ids,
           Visible(f), Rechained(fut.slots[s], fut'.slots[s], f),
           fut'.handles = fut.handles, fut'.native = fut.native, SameCore => firing = NoSlot,
           Rests(stack, stack'), Clear(s, stack'),
           UNCHANGED <<next, submissions, ready, due, waking, firing, shutting_down>>
    PROVE  BInv' /\ Duly(fut, fut')
<1> DEFINE a == fut.slots[s]
           b == fut'.slots[s]
<1>1. fut \in World /\ Tracked(fut) /\ Minded(fut, next) /\ Engaged(fut, stack)
      /\ AllGo(fut, fut') /\ submissions \in Seq(TokenType) /\ Sane(a) /\ ready \in Seq(TokenType)
  BY Facts DEF Tends, IInv, QueuesOK
<1>2. \A t \in Slots : t # s => fut'.slots[t] = fut.slots[t]
  BY DEF Others
<1>3. ASSUME NEW g, Awaited(fut', g) PROVE g = f \/ Awaited(fut, g)
  <2>1. PICK t \in Slots : \E i \in 1 .. Len(fut'.slots[t].inputs) : fut'.slots[t].inputs[i] = g
    BY <1>3 DEF Awaited
  <2>2. CASE t # s
    BY <1>2, <2>1, <2>2 DEF Awaited
  <2>3. CASE t = s
    BY <2>1, <2>3 DEF Awaited, Rechained
  <2>4. QED
    BY <2>2, <2>3
<1>4. \A t \in Slots : /\ fut'.slots[t].allocated = fut.slots[t].allocated
                       /\ fut'.slots[t].generation = fut.slots[t].generation
                       /\ fut'.slots[t].seq = fut.slots[t].seq
                       /\ fut'.slots[t].kind = fut.slots[t].kind
                       /\ fut'.slots[t].state = fut.slots[t].state
                       /\ fut'.slots[t].lane_waiting = fut.slots[t].lane_waiting
  BY <1>2 DEF Rechained
<1>5. Minded(fut', next')
  <2>1. Sane(b)
    BY <1>1 DEF Sane, Rechained
  <2>2. \A t \in Slots : Sane(fut'.slots[t])
    BY <1>1, <1>2, <2>1 DEF Minded
  <2>3. fut.handles[f].alive
    BY DEF Visible
  <2>4. /\ \A g \in Ids : fut'.handles[g].alive => g <= next'
        /\ \A g \in Ids : Awaited(fut', g) => fut'.handles[g].alive
    BY <1>1, <1>3, <2>3 DEF Minded
  <2>5. ASSUME NEW t \in Slots, fut'.slots[t].allocated, fut'.slots[t].kind = "timeout",
               fut'.slots[t].inputs # <<>>
        PROVE  Harmless(fut', fut'.slots[t].inputs[1])
    <3>1. t # s
      BY <1>4, <2>5
    <3>2. Harmless(fut, fut'.slots[t].inputs[1])
      BY <1>1, <1>2, <2>5, <3>1 DEF Minded
    <3> DEFINE g == fut'.slots[t].inputs[1]
               u == fut.handles[g].slot
    <3>3. u \in Slots => /\ fut'.slots[u].allocated = fut.slots[u].allocated
                         /\ fut'.slots[u].generation = fut.slots[u].generation
                         /\ fut'.slots[u].kind = fut.slots[u].kind
      BY <1>4
    <3> HIDE DEF g
    <3>4. Harmless(fut', g)
      BY <3>2, <3>3 DEF Harmless, g
    <3>5. QED
      BY <3>4 DEF g
  <2>6. QED
    BY <1>1, <1>4, <2>2, <2>4, <2>5 DEF Minded
<1>6. Engaged(fut', stack')
  <2>1. ASSUME NEW i \in 1 .. Len(stack'), Calls(stack'[i]) PROVE Occupied(fut', stack'[i])
    <3>1. i \in 1 .. Len(stack) /\ Calls(stack[i]) /\ stack[i].run = stack'[i].run
          /\ stack[i].runSlot = stack'[i].runSlot /\ stack'[i].runSlot # s
      BY <2>1 DEF Rests, Clear
    <3>2. Occupied(fut, stack[i])
      BY <1>1, <3>1 DEF Engaged
    <3>3. QED
      BY <1>2, <3>1, <3>2 DEF Occupied, Tied
  <2>2. ASSUME NEW i \in 1 .. Len(stack'), stack'[i].sync PROVE ~Awaited(fut', stack'[i].wait)
    <3>1. i \in 1 .. Len(stack) /\ stack[i].sync /\ stack'[i].wait = stack[i].wait
      BY <2>2 DEF Rests
    <3>2. ~Awaited(fut, stack[i].wait) /\ stack[i].wait # f
      BY <1>1, <3>1 DEF Engaged, Visible
    <3>3. QED
      BY <1>3, <3>1, <3>2
  <2>3. QED
    BY <2>1, <2>2 DEF Engaged
<1>7. Woken(fut', ready', due')
  <2>1. \A i \in 1 .. Len(ready) : ready[i].slot \in Slots
    <3>1. \A i \in 1 .. Len(ready) : ready[i] \in TokenType
      BY <1>1
    <3>2. QED
      BY <3>1 DEF TokenType
  <2>2. QED
    BY <1>4, <2>1 DEF BInv, Woken
<1>8. Fired(fut', firing', due') /\ Waked(fut', waking')
  BY DEF Fired, BInv, Waked
<1>9. Ordered(fut', submissions')
  BY <1>1, OrderedStay DEF BInv
<1>10. shutting_down' \/ Elder(fut')
  BY <1>4 DEF BInv, Elder
<1>11. BInv'
  BY <1>5, <1>6, <1>7, <1>8, <1>9, <1>10, Binds
<1>12. QED
  BY <1>1, <1>11, SameRightly DEF Duly, Unstarted

\* A continuation returns.
LEMMA ContinuationReturnKeeps ==
    ASSUME IInv, AInv, BInv, ContinuationReturns
    PROVE  BInv' /\ Duly(fut, fut')
<1> DEFINE s == Top.runSlot
           a == fut.slots[s]
           x == [a EXCEPT !.running = FALSE, !.called = TRUE]
           w == Put(fut, s, x)
           c == [Top EXCEPT !.phase = "combine", !.run = 0, !.runSlot = NoSlot]
           Chained(f) == IF Len(x.inputs) = 0 THEN w
                         ELSE Put(fut, s, [x EXCEPT !.inputs[1] = f])
<1>1. /\ Top.phase = "cont" /\ SetTop(c) /\ (SameCore => firing = NoSlot)
      /\ UNCHANGED <<next, submissions, ready, due, waking, firing, shutting_down>>
  BY DEF ContinuationReturns, JsRuns, RuntimeRuns
<1>2. Top \in FrameType
  BY Facts, TopIs
<1>3. Calls(Top) /\ ~Calls(c) /\ c.sync = Top.sync /\ c.wait = Top.wait
  BY <1>1, <1>2 DEF Calls, FrameType
<1> HIDE DEF c
<1>4. Occupied(fut, Top) /\ Rests(stack, stack') /\ Clear(s, stack')
  BY <1>1, <1>3, TopOccupies
<1>5. s \in Slots /\ a.allocated /\ a.seq = Top.run /\ a.state = "pending"
      /\ a.kind \in {"js_call", "map", "flatMap"}
  BY <1>4 DEF Occupied
<1>6. fut \in World /\ a \in SlotType /\ Sane(a) /\ Owned(fut) /\ Tracked(fut)
  BY <1>5, Facts
<1>7. x \in SlotType /\ Near(a, x) /\ x.kind = a.kind
  BY <1>5, <1>6 DEF SlotType, Near
<1>8. ~a.driver_active /\ ~a.cancel_requested /\ "pending" \notin Terminal
      /\ {"fulfilled", "rejected"} \subseteq Terminal
  BY <1>5, <1>6 DEF Sane, Terminal
<1>9. fut' \in {Settle(w, s, "rejected", Top.run)} \union
               IF x.kind = "map" THEN {Settle(w, s, "fulfilled", Top.run)}
               ELSE {Chained(f) : f \in {g \in Ids : Visible(g)}}
  BY Zenon DEF ContinuationReturns
<1>10. ASSUME NEW st \in {"fulfilled", "rejected"}, fut' = Settle(w, s, st, a.seq)
       PROVE  BInv' /\ Duly(fut, fut')
  <2>1. Apt(a, st) /\ st \in Terminal /\ st # "cancelled"
    BY <1>5, <1>8 DEF Apt
  <2> HIDE DEF s, x
  <2>2. Minds(fut', stack')
    BY <1>4, <1>5, <1>7, <1>8, <1>10, <2>1, NearSettleMinds
  <2>3. QED
    BY <1>1, <1>4, <2>2, Facts, MindFits
<1>11. ASSUME NEW f \in Ids, Visible(f), fut' = Chained(f), a.kind # "map"
       PROVE  BInv' /\ Duly(fut, fut')
  <2> DEFINE b == IF Len(x.inputs) = 0 THEN x ELSE [x EXCEPT !.inputs[1] = f]
  <2>1. Rechained(a, b, f) /\ b.called = TRUE
    BY <1>6, <1>11, ChainedIs
  <2>2. fut' = Put(fut, s, b)
    BY <1>11
  <2> HIDE DEF b, s
  <2>3. Begun(fut.slots[s]) => Begun(b)
    BY <1>5, <2>1 DEF Begun, Rechained
  <2>4. Tends(fut, fut') /\ fut'.slots[s] = b /\ Others(fut, fut', s)
        /\ fut'.handles = fut.handles /\ fut'.native = fut.native
    BY <1>5, <1>6, <2>1, <2>2, <2>3, SameTends DEF Rechained
  <2>5. a.kind # "timeout"
    BY <1>5
  <2>6. QED
    BY <1>1, <1>4, <1>5, <1>11, <2>1, <2>4, <2>5, ChainKeeps
<1>12. QED
  BY <1>5, <1>7, <1>9, <1>10, <1>11

\* An object that is held is found by its slot.
LEMMA HeldSlot ==
    ASSUME NEW w, NEW f, Held(w, f), ~w.handles[f].terminal
    PROVE  HandleSlot(w, f) = w.handles[f].slot
<1> DEFINE s == w.handles[f].slot
           t == [slot |-> s, generation |-> w.handles[f].generation]
<1>1. /\ s \in Slots /\ s # NoSlot /\ w.slots[s].allocated
      /\ w.slots[s].generation = w.handles[f].generation
  BY NumbersAre DEF Held
<1>2. t.slot = s /\ t.generation = w.handles[f].generation
  OBVIOUS
<1>3. HandleSlot(w, f) = ResolveToken(w, t)
  BY <1>1 DEF HandleSlot
<1> HIDE DEF t
<1>4. QED
  BY <1>1, <1>2, <1>3 DEF ResolveToken

\* An input that is seen fulfilled is there to stay.
LEMMA FulfilledTied ==
    ASSUME IInv, AInv, BInv, ~shutting_down, NEW f \in Ids, Awaited(fut, f),
           HandleState(fut, f) = "fulfilled"
    PROVE  Tied(fut, f)
<1>1. CASE fut.handles[f].terminal
  BY <1>1 DEF HandleState, Tied
<1>2. CASE ~fut.handles[f].terminal
  <2>1. fut.handles[f].alive
    BY DEF BInv, Minded
  <2>2. Held(fut, f)
    BY <1>2, <2>1 DEF AInv, Waited, Wanted
  <2> DEFINE s == fut.handles[f].slot
  <2>3. HandleSlot(fut, f) = s /\ s \in Slots /\ s # NoSlot /\ fut.slots[s].handle
    BY <1>2, <2>2, HeldSlot, NumbersAre DEF Held
  <2>4. fut.slots[s].state = "fulfilled"
    BY <1>2, <2>3 DEF HandleState
  <2>5. QED
    BY <2>3, <2>4, Facts DEF Sane
<1>3. QED
  BY <1>1, <1>2

\* A combinator whose continuation is running has nothing to do.
LEMMA CombinatorClear ==
    ASSUME IInv, AInv, BInv, NEW s \in Combinators, ~RunsContinuation(s), NEW tt,
           Rests(stack, tt)
    PROVE  Clear(s, tt)
<1> SUFFICES ASSUME NEW i \in 1 .. Len(tt), Calls(tt[i]), tt[i].runSlot = s PROVE FALSE
  BY DEF Clear
<1> DEFINE a == fut.slots[s]
<1>1. i \in 1 .. Len(stack) /\ Calls(stack[i]) /\ stack[i].runSlot = s
  BY DEF Rests
<1>2. Occupied(fut, stack[i])
  BY <1>1, Facts DEF Engaged
<1>3. a.kind \in {"all", "race", "timeout", "map", "flatMap"} /\ Advance(s, "rejected") # fut
  BY DEF Combinators
<1>4. a.kind \in {"map", "flatMap"} /\ a.running /\ Tied(fut, a.inputs[1])
  BY <1>1, <1>2, <1>3 DEF Occupied
<1>5. InputState(s, 1) = "fulfilled"
  BY <1>4 DEF Tied, InputState, HandleState
<1>6. Advance(s, "rejected") = advance_continuation(s)
  BY <1>4 DEF Advance
<1>7. advance_continuation(s) = fut
  BY <1>4, <1>5 DEF advance_continuation
<1>8. QED
  BY <1>3, <1>6, <1>7

\* A combinator ends like its input.
LEMMA CopyMinds ==
    ASSUME IInv, AInv, BInv, NEW s \in Slots, fut.slots[s].allocated,
           fut.slots[s].kind \notin {"sleep", "driver"}, NEW tt, Rests(stack, tt), Clear(s, tt),
           NEW f
    PROVE  Minds(CopyTerminal(fut, s, f), tt)
<1> DEFINE a == fut.slots[s]
           st == HandleState(fut, f)
<1>1. Sane(a)
  BY Facts
<1>2. ~a.driver_active /\ Apt(a, st)
  BY <1>1 DEF Sane, Apt
<1>3. CASE st \in Terminal
  <2>1. CopyTerminal(fut, s, f) = Settle(fut, s, st, a.seq)
    BY <1>3 DEF CopyTerminal
  <2> HIDE DEF st
  <2>2. QED
    BY <1>2, <1>3, <2>1, SettleMinds
<1>4. CASE st \notin Terminal
  BY <1>4, SameMinds DEF CopyTerminal
<1>5. QED
  BY <1>3, <1>4

\* A cancellation writes one slot.
LEMMA CancelOthers ==
    ASSUME NEW w \in World, NEW v, NEW s \in Slots, Cancels(w, v, s)
    PROVE  Others(w, v, s)
<1>1. w.slots[s] \in SlotType
  BY DEF World
<1> DEFINE x == Asked(w.slots[s])
<1>2. x \in SlotType
  BY <1>1, AskedIs
<1> HIDE DEF x
<1>3. Others(w, Put(w, s, x), s)
  BY <1>2, PutIs DEF Others
<1>4. QED
  BY <1>3 DEF Cancels, Over, Others, x

\* A timeout that expires cancels its input, which nothing runs for, and ends.
LEMMA TimeoutMinds ==
    ASSUME IInv, AInv, BInv, NEW s \in Slots, fut.slots[s].allocated,
           fut.slots[s].kind = "timeout", fut.slots[s].state = "pending", NEW tt, Rests(stack, tt),
           NEW in, in = HandleSlot(fut, fut.slots[s].inputs[1]), in # NoSlot, NEW answer
    PROVE  Minds(Settle(CancelSlot(fut, in, answer), s, "rejected", fut.slots[s].seq), tt)
<1> DEFINE a == fut.slots[s]
           f == a.inputs[1]
           u == CancelSlot(fut, in, answer)
           v == Settle(u, s, "rejected", a.seq)
           p == fut.slots[in]
<1>1. /\ fut \in World /\ Tracked(fut) /\ Owned(fut) /\ Minded(fut, next) /\ Engaged(fut, stack)
      /\ \A t \in Slots : NamedSlot(fut.slots[t]) /\ fut.slots[t] \in SlotType
  BY Facts
<1>2. a.inputs # <<>> /\ f \in Ids
  BY <1>1, InputIs DEF Owned, Served, Terminal
<1>3. /\ in \in Slots /\ p.allocated /\ ~fut.handles[f].terminal
      /\ in = fut.handles[f].slot /\ p.generation = fut.handles[f].generation
  BY <1>1, <1>2, HandleLeads DEF HandleSlot, ResolveToken
<1>4. p.kind \in Tame
  BY <1>1, <1>2, <1>3 DEF Minded, Harmless
<1>5. in # s /\ Clear(in, tt) /\ Clear(s, tt)
  BY <1>1, <1>4, NotOccupied DEF Tame
<1>6. Minds(u, tt)
  BY <1>3, <1>5, CancelMinds
<1>7. Cancels(fut, u, in) /\ Sound(fut, u)
  BY <1>1, <1>3, CancelGives, CancelSound
<1> HIDE DEF u
<1>8. u.slots[s] = a /\ Owned(u)
  <2>1. Others(fut, u, in)
    BY <1>1, <1>3, <1>7, CancelOthers
  <2>2. QED
    BY <1>5, <1>7, <2>1 DEF Others, Sound
<1>9. /\ u \in World /\ AllGo(fut, u) /\ Tracked(u) /\ Heeds(fut, u) /\ Duly(fut, u)
      /\ Spares(fut, u, tt) /\ Tends(fut, u) /\ Respects(fut, u)
  BY <1>6 DEF Minds, Tends, Heeds
<1>10. Minded(u, next)
  BY <1>1, <1>9, HeedsMinded
<1>11. Engaged(u, tt)
  BY <1>1, <1>9, HeedsEngaged DEF Owned
<1>12. NamedSlot(a) /\ a.state \notin Terminal /\ "rejected" \in Terminal /\ a.seq \in Ids \union {0}
  BY <1>1 DEF Terminal, SlotType
<1>13. Over(u, v, s, "rejected", a.seq)
  BY <1>8, <1>9, <1>12, SettleOver
<1>14. Ends(u, v, s, FALSE)
  BY <1>8, <1>9, <1>12, SettleIs DEF Ends
<1>15. Sane(a)
  BY Facts
<1>16. ~a.driver_active /\ ~a.cancel_requested
  BY <1>15 DEF Sane
<1>17. Apt(a, "rejected")
  BY <1>16 DEF Apt
<1> HIDE DEF v
<1>18. Tends(u, v)
  BY <1>8, <1>9, <1>12, <1>13, OverTends
<1>19. Heeds(u, v) /\ Duly(u, v)
  BY <1>8, <1>9, <1>10, <1>12, <1>13, <1>14, <1>16, <1>17, OverHeeds
<1>20. Spares(u, v, tt)
  BY <1>5, <1>11, <1>13, OthersSpared, RestsSame DEF Over
<1>21. Tends(fut, v) /\ Heeds(fut, v) /\ Spares(fut, v, tt)
  BY <1>9, <1>18, <1>19, <1>20, TendsChain, HeedsChain, SparesChain DEF Tends
<1>22. Unstarted(fut, v)
  BY <1>9, <1>19 DEF Duly, Unstarted
<1>23. Rightly(fut, v)
  <2> SUFFICES ASSUME NEW t \in Slots, fut.slots[t].allocated, fut.slots[t].handle,
                      v.handles[fut.slots[t].seq].terminal
               PROVE  Apt(fut.slots[t], v.handles[fut.slots[t].seq].state)
    BY DEF Rightly
  <2>1. CASE t = s
    BY <1>16, <2>1 DEF Apt
  <2>2. CASE t # s
    <3>1. fut.slots[t].seq # a.seq /\ fut.slots[t].seq \in Ids
      BY <1>1, <2>2 DEF Owned, Unique, Tracked, Linked
    <3>2. ToldOK(u, v.handles, s, "rejected", a.seq)
      <4>1. "rejected" \in States
        BY DEF States, Terminal
      <4>2. QED
        BY <1>8, <1>9, <1>12, <1>13, <4>1, ToldIs DEF Over
    <3>3. v.handles[fut.slots[t].seq] = u.handles[fut.slots[t].seq]
      BY <1>8, <3>1, <3>2 DEF ToldOK
    <3>4. QED
      BY <1>9, <3>3 DEF Duly, Rightly
  <2>3. QED
    BY <2>1, <2>2
<1>24. Minds(v, tt)
  BY <1>21, <1>22, <1>23 DEF Minds, Duly
<1>25. QED
  BY <1>24 DEF v, u

\* Whatever a combinator does that calls nothing.
LEMMA AdvanceMinds ==
    ASSUME IInv, AInv, BInv, NEW s \in Combinators, ~RunsContinuation(s), NEW answer,
           NEW tt, Rests(stack, tt)
    PROVE  Minds(Advance(s, answer), tt)
<1> DEFINE a == fut.slots[s]
<1>1. /\ s \in Slots /\ a.allocated /\ a.state = "pending"
      /\ a.kind \in {"all", "race", "timeout", "map", "flatMap"}
  BY DEF Combinators
<1>2. Clear(s, tt)
  BY CombinatorClear
<1>3. a.kind \notin {"sleep", "driver"}
  BY <1>1
<1>4. ~a.driver_active /\ \A st : Apt(a, st)
  BY <1>1, Facts DEF Sane, Apt
<1>5. {"fulfilled", "rejected"} \subseteq Terminal
  BY DEF Terminal
<1>6. Minds(fut, tt)
  BY SameMinds
<1>7. \A f : Minds(CopyTerminal(fut, s, f), tt)
  BY <1>1, <1>2, <1>3, CopyMinds
<1>8. \A st \in Terminal : Minds(Settle(fut, s, st, a.seq), tt)
  BY <1>1, <1>2, <1>4, SettleMinds
<1>9. CASE a.kind = "all"
  BY <1>5, <1>7, <1>8, <1>9, Zenon DEF Advance, advance_all
<1>10. CASE a.kind = "race"
  BY <1>6, <1>7, <1>10 DEF Advance, advance_race
<1>11. CASE a.kind = "timeout"
  <2> DEFINE in == HandleSlot(fut, a.inputs[1])
             w == IF in # NoSlot THEN CancelSlot(fut, in, answer) ELSE fut
  <2>1. Minds(Settle(w, s, "rejected", a.seq), tt)
    <3>1. CASE in # NoSlot
      BY <1>1, <1>11, <3>1, TimeoutMinds
    <3>2. CASE in = NoSlot
      BY <1>5, <1>8, <3>2
    <3>3. QED
      BY <3>1, <3>2
  <2>2. Advance(s, answer) = advance_timeout(s, answer)
    BY <1>11 DEF Advance
  <2>3. advance_timeout(s, answer) =
          IF Settled(s, 1) THEN CopyTerminal(fut, s, a.inputs[1])
          ELSE IF a.seq \in Now THEN Settle(w, s, "rejected", a.seq) ELSE fut
    BY Zenon DEF advance_timeout
  <2> HIDE DEF w, in
  <2>4. QED
    BY <1>6, <1>7, <2>1, <2>2, <2>3
<1>12. CASE a.kind \in {"map", "flatMap"}
  <2>1. Advance(s, answer) = advance_continuation(s)
    BY <1>12 DEF Advance
  <2>2. QED
    BY <1>6, <1>7, <2>1 DEF advance_continuation
<1>13. QED
  BY <1>1, <1>9, <1>10, <1>11, <1>12

\* Combinators advance, or call their continuation.
LEMMA CombineKeeps ==
    ASSUME IInv, AInv, BInv, advance_combinators
    PROVE  BInv' /\ Duly(fut, fut')
<1> DEFINE s == Least(From("combine", Combinators))
           a == fut.slots[s]
           b == [a EXCEPT !.running = TRUE]
           c == [Top EXCEPT !.phase = "cont", !.n = s + 1, !.now = Now,
                            !.run = fut.slots[s].seq, !.runSlot = s]
           d == [Top EXCEPT !.phase = "combine", !.n = s + 1, !.now = Now]
<1>1. s \in Combinators
  BY ReachesLeast DEF advance_combinators
<1>2. /\ ~shutting_down /\ (SameCore => firing = NoSlot)
      /\ UNCHANGED <<next, submissions, ready, due, waking, firing, shutting_down>>
  BY DEF advance_combinators, Reaches, Polls, RuntimeRuns
<1>3. Top \in FrameType
  BY Facts, TopIs
<1>4. \/ RunsContinuation(s) /\ fut' = Put(fut, s, b) /\ SetTop(c)
      \/ /\ ~RunsContinuation(s) /\ SetTop(d)
         /\ \E answer \in CancelResults : fut' = Advance(s, answer)
  BY DEF advance_combinators
<1>5. c.run = a.seq /\ c.runSlot = s /\ c.sync = Top.sync /\ c.wait = Top.wait
      /\ d.phase = "combine" /\ d.sync = Top.sync /\ d.wait = Top.wait
  BY <1>3 DEF FrameType
<1> HIDE DEF s, c, d
<1>6. CASE ~RunsContinuation(s) /\ SetTop(d)
  <2>1. PICK answer \in CancelResults : fut' = Advance(s, answer)
    BY <1>4, <1>6
  <2>2. Rests(stack, stack')
    BY <1>5, <1>6, Facts, RestsTop DEF Calls
  <2>3. Minds(fut', stack')
    BY <1>1, <1>6, <2>1, <2>2, AdvanceMinds
  <2>4. QED
    BY <1>2, <2>2, <2>3, Facts, MindFits
<1>7. CASE RunsContinuation(s) /\ fut' = Put(fut, s, b) /\ SetTop(c)
  <2>1. /\ s \in Slots /\ a.allocated /\ a.state = "pending"
        /\ a.kind \in {"map", "flatMap"} /\ InputState(s, 1) = "fulfilled" /\ ~a.running
    BY <1>1, <1>7 DEF Combinators, RunsContinuation
  <2>2. /\ fut \in World /\ a \in SlotType /\ Sane(a) /\ Tracked(fut) /\ Owned(fut)
        /\ Minded(fut, next) /\ Engaged(fut, stack) /\ StackOK(stack) /\ NamedSlot(a)
    BY <2>1, Facts
  <2>3. /\ b \in SlotType /\ b.allocated = a.allocated /\ b.generation = a.generation
        /\ b.seq = a.seq /\ b.kind = a.kind /\ b.result = a.result /\ b.inputs = a.inputs
        /\ b.driver_active = a.driver_active /\ b.deadline = a.deadline
        /\ b.lane_waiting = a.lane_waiting /\ b.cancel_requested = a.cancel_requested
        /\ b.driver_started = a.driver_started /\ b.state = a.state /\ b.handle = a.handle
        /\ b.running = TRUE /\ b.called = a.called
    <3>1. b \in SlotType
      BY <2>2, Zenon DEF SlotType
    <3>2. QED
      BY <2>2, <3>1 DEF SlotType
  <2> HIDE DEF b
  <2>4. fut' \in World /\ fut'.native = fut.native /\ fut'.handles = fut.handles
        /\ fut'.slots[s] = b /\ Others(fut, fut', s)
    BY <1>7, <2>1, <2>2, <2>3, PutIs DEF Others
  <2>5. Goes(a, b) /\ Changes(a, b)
    BY <2>1, <2>2, <2>3 DEF Goes, Begun, Changes, Alters, Sane
  <2>6. Tends(fut, fut')
    BY <2>1, <2>2, <2>3, <2>4, <2>5, BookTends
  <2>7. Heeds(fut, fut') /\ Duly(fut, fut')
    BY <2>1, <2>2, <2>4, <2>5, OneHeeds
  <2>8. a.inputs # <<>>
    BY <2>1, <2>2 DEF Owned, Served, Terminal
  <2>9. a.inputs[1] \in Ids /\ Awaited(fut, a.inputs[1])
    BY <2>1, <2>2, <2>8, FirstAwaited
  <2>10. Tied(fut, a.inputs[1])
    BY <1>2, <2>1, <2>9, FulfilledTied DEF InputState
  <2>11. Occupied(fut', c)
    BY <1>5, <2>1, <2>2, <2>3, <2>4, <2>10, ZenonT(40) DEF Occupied, Tied, NamedSlot
  <2>12. Clear(s, stack)
    BY <2>1, <2>2, RestsSame, NotOccupied
  <2>13. Engaged(fut', stack')
    BY <1>5, <1>7, <2>2, <2>4, <2>7, <2>11, <2>12, CallEngaged DEF Heeds, Owned
  <2>14. BInv'
    <3>1. AllGo(fut, fut') /\ Respects(fut, fut') /\ ready \in Seq(TokenType)
          /\ submissions \in Seq(TokenType) /\ waking \subseteq Ids
      <4>1. waking \subseteq Ids
        BY FutureAssumption DEF IInv, RestOK, Ids
      <4>2. QED
        BY <2>6, <2>7, <4>1 DEF Tends, Heeds, IInv, QueuesOK
    <3>2. Minded(fut', next')
      BY <1>2, <2>2, <2>4, <3>1, Facts, HeedsMinded
    <3>3. Woken(fut', ready', due')
      BY <1>2, <2>2, <3>1, WokenStay DEF BInv
    <3>4. Fired(fut', firing', due') /\ Waked(fut', waking')
      BY <1>2, <3>1, WakedStay DEF Fired, BInv
    <3>5. Ordered(fut', submissions')
      BY <1>2, <3>1, OrderedStay DEF BInv
    <3>6. shutting_down' \/ Elder(fut')
      BY <1>2, <2>7, <3>1, ElderStay DEF BInv
    <3>7. QED
      BY <2>13, <3>2, <3>3, <3>4, <3>5, <3>6, Binds
  <2>15. QED
    BY <2>7, <2>14
<1>8. QED
  BY <1>4, <1>6, <1>7
-------------------------------------------------------------------------------
(* Steps that create a Future: what the new one may refer to. *)

\* What the creation of Future f may be asked for.
Askable(w, kind, deadline, inputs) ==
    /\ deadline => kind \in {"driver", "sleep", "timeout"}
    /\ \A i \in 1 .. Len(inputs) : w.handles[inputs[i]].alive
    /\ kind = "timeout" => inputs # <<>> /\ Harmless(w, inputs[1])

\* What the world has become by the new Future.
Grown(w, v, s, f, kind, key, deadline, inputs) ==
    /\ v \in World /\ Others(w, v, s) /\ Sane(v.slots[s])
    /\ TakenFields(w.slots[s], v.slots[s], f, kind, key, deadline, inputs)
    /\ ~v.slots[s].lane_waiting /\ ~v.slots[s].driver_started
    /\ v.handles[f].by = 0 /\ v.handles[f].alive
    /\ \A g \in Ids : g # f => v.handles[g] = w.handles[g] /\ v.native[g] = w.native[g]
    /\ v.native[f] = IF kind = "driver" THEN "captured" ELSE "none"
    /\ \A t \in Slots : w.slots[t].seq # f

\* The slot of a new Future is sane, and everything else is as it was.
LEMMA TakesWorld ==
    ASSUME NEW w \in World, Tracked(w), NEW n \in Nat, Minded(w, n), Below(w, n),
           NEW s \in Slots, ~w.slots[s].allocated, NEW f \in Ids, f = n + 1,
           NEW kind \in AllKinds, NEW key \in Keys \union {NoKey}, NEW deadline \in BOOLEAN,
           NEW inputs \in Seq(Ids), Askable(w, kind, deadline, inputs),
           NEW v, Takes(w, v, s, f, kind, key, deadline, inputs)
    PROVE  Grown(w, v, s, f, kind, key, deadline, inputs)
<1> DEFINE a == w.slots[s]
           b == v.slots[s]
           h == Object(s, a.generation + 1)
<1>1. v \in World /\ Others(w, v, s) /\ v.handles = [w.handles EXCEPT ![f] = h]
      /\ v.native = [w.native EXCEPT ![f] = IF kind = "driver" THEN "captured" ELSE "none"]
  BY DEF Takes
<1>2. TakenFields(a, b, f, kind, key, deadline, inputs) /\ v.handles[f].alive
  BY TakesTracked, SMTT(30)
<1>3. a \in SlotType /\ a.generation \in Nat /\ a.generation + 1 \in Nat
  BY WorldFields DEF SlotType
<1>4. h.by = 0
  BY <1>3, ObjectIs
<1> HIDE DEF h
<1>5. v.handles[f] = h /\ \A g \in Ids : g # f => v.handles[g] = w.handles[g]
                                                 /\ v.native[g] = w.native[g]
  BY <1>1, WorldFields
<1>6. v.native[f] = IF kind = "driver" THEN "captured" ELSE "none"
  BY <1>1, WorldFields
<1>7. a = EmptySlot(a.generation)
  BY DEF Minded, Sane
<1>8. /\ ~a.lane_waiting /\ ~a.driver_started /\ a.result = 0 /\ ~a.cancel_requested
  BY <1>7 DEF EmptySlot
<1>9. Sane(b)
  BY <1>2, <1>8 DEF TakenFields, Sane, Askable
<1>10. \A t \in Slots : w.slots[t].seq # f
  BY SeqIs DEF Below
<1>11. QED
  BY <1>1, <1>2, <1>4, <1>5, <1>6, <1>8, <1>9, <1>10 DEF TakenFields, Grown

\* What is known with the new Future.
LEMMA TakesMinded ==
    ASSUME NEW w \in World, Tracked(w), NEW n \in Nat, Minded(w, n), Below(w, n),
           NEW s \in Slots, ~w.slots[s].allocated, NEW f \in Ids, f = n + 1,
           NEW kind \in AllKinds, NEW key \in Keys \union {NoKey}, NEW deadline \in BOOLEAN,
           NEW inputs \in Seq(Ids), Askable(w, kind, deadline, inputs),
           NEW v, Takes(w, v, s, f, kind, key, deadline, inputs)
    PROVE  Minded(v, f)
<1> DEFINE a == w.slots[s]
           b == v.slots[s]
<1>0. Grown(w, v, s, f, kind, key, deadline, inputs)
  BY TakesWorld
<1>1. /\ v \in World /\ Others(w, v, s) /\ Sane(b)
      /\ TakenFields(a, b, f, kind, key, deadline, inputs)
      /\ v.handles[f].by = 0 /\ v.handles[f].alive
      /\ \A g \in Ids : g # f => v.handles[g] = w.handles[g] /\ v.native[g] = w.native[g]
      /\ v.native[f] = IF kind = "driver" THEN "captured" ELSE "none"
      /\ \A t \in Slots : w.slots[t].seq # f
  BY <1>0 DEF Grown
<1>2. /\ b.generation = a.generation + 1 /\ b.seq = f /\ b.kind = kind /\ b.inputs = inputs
  BY <1>1 DEF TakenFields
<1>3. \A t \in Slots : t # s => v.slots[t] = w.slots[t]
  BY <1>1 DEF Others
<1>4. \A t \in Slots : Sane(v.slots[t])
  BY <1>1, <1>3 DEF Minded
<1>5. \A g \in Ids : v.handles[g].by \in {0, g}
  BY <1>1 DEF Minded
<1>6. \A g \in Ids : g \in Nat /\ (w.handles[g].alive => g <= n /\ g # f)
  BY FutureAssumption DEF Minded, Ids
<1>7. \A g \in Ids : v.handles[g].alive => g <= f
  BY <1>1, <1>6
<1>8. \A i \in 1 .. Len(inputs) : inputs[i] \in Ids /\ w.handles[inputs[i]].alive
  BY DEF Askable
<1>9. \A g \in Ids : Awaited(w, g) \/ (\E i \in 1 .. Len(inputs) : inputs[i] = g)
                     => w.handles[g].alive /\ g # f
  BY <1>6, <1>8 DEF Minded
<1>10. ASSUME NEW g \in Ids, Awaited(v, g) PROVE v.handles[g].alive
  <2>1. PICK t \in Slots : \E i \in 1 .. Len(v.slots[t].inputs) : v.slots[t].inputs[i] = g
    BY <1>10 DEF Awaited
  <2>2. Awaited(w, g) \/ \E i \in 1 .. Len(inputs) : inputs[i] = g
    BY <1>2, <1>3, <2>1 DEF Awaited
  <2>3. QED
    BY <1>1, <1>9, <2>2
<1>11. ASSUME NEW t \in Slots, v.slots[t].allocated, v.slots[t].kind # "driver"
       PROVE  v.native[v.slots[t].seq] = "none"
  <2>1. CASE t = s
    BY <1>1, <1>2, <1>11, <2>1
  <2>2. CASE t # s
    <3>1. w.slots[t].seq \in Ids
      BY <1>3, <1>11, <2>2 DEF Tracked, Linked
    <3>2. w.slots[t].seq # f /\ v.slots[t] = w.slots[t]
      BY <1>1, <1>3, <2>2
    <3>3. w.native[w.slots[t].seq] = "none"
      BY <1>11, <3>2 DEF Minded
    <3>4. QED
      BY <1>1, <3>1, <3>2, <3>3
  <2>3. QED
    BY <2>1, <2>2
<1>12. ASSUME NEW g \in Ids, Harmless(w, g), g # f PROVE Harmless(v, g)
  <2> SUFFICES ASSUME v.handles[g].slot \in Slots, ~v.handles[g].terminal,
                      v.slots[v.handles[g].slot].allocated,
                      v.slots[v.handles[g].slot].generation = v.handles[g].generation
               PROVE  v.slots[v.handles[g].slot].kind \in Tame
    BY DEF Harmless
  <2>1. v.handles[g] = w.handles[g]
    BY <1>1, <1>12
  <2>2. CASE w.handles[g].slot = s
    <3>1. w.handles[g].generation <= a.generation
      BY <2>1, <2>2 DEF Tracked, Leads
    <3>2. w.handles[g].generation \in Nat /\ a.generation \in Nat
      BY WorldFields DEF HandleType, SlotType
    <3>3. QED
      BY <1>2, <2>1, <2>2, <3>1, <3>2
  <2>3. CASE w.handles[g].slot # s
    BY <1>3, <1>12, <2>1, <2>3 DEF Harmless
  <2>4. QED
    BY <2>2, <2>3
<1>13. ASSUME NEW t \in Slots, v.slots[t].allocated, v.slots[t].kind = "timeout",
              v.slots[t].inputs # <<>>
       PROVE  Harmless(v, v.slots[t].inputs[1])
  <2>1. CASE t = s
    <3>1. inputs # <<>> /\ Harmless(w, inputs[1])
      BY <1>2, <1>13, <2>1 DEF Askable
    <3>2. inputs[1] \in Ids /\ inputs[1] # f
      <4>1. 1 \in 1 .. Len(inputs)
        BY <3>1
      <4>2. QED
        BY <1>8, <1>9, <4>1
    <3>3. QED
      BY <1>2, <1>12, <2>1, <3>1, <3>2
  <2>2. CASE t # s
    <3>1. Harmless(w, w.slots[t].inputs[1]) /\ w.slots[t].inputs # <<>>
      BY <1>3, <1>13, <2>2 DEF Minded
    <3>2. w.slots[t].inputs[1] \in Ids /\ Awaited(w, w.slots[t].inputs[1])
      BY <3>1, FirstAwaited
    <3>3. QED
      BY <1>3, <1>9, <1>12, <2>2, <3>1, <3>2
  <2>3. QED
    BY <2>1, <2>2
<1>14. QED
  BY <1>4, <1>5, <1>7, <1>10, <1>11, <1>13 DEF Minded

\* No synchronous method waits for one of the inputs.
Unshared(st, inputs) ==
    \A i \in 1 .. Len(st), j \in 1 .. Len(inputs) : st[i].sync => st[i].wait # inputs[j]

\* The new Future is waited for by nobody yet.
Joins(w, st, f) == Engaged(w, st) /\ ~Awaited(w, f)

\* What runs goes on, and nobody awaits what a synchronous method keeps inside.
LEMMA TakesEngaged ==
    ASSUME NEW w \in World, Tracked(w), NEW n \in Nat, Minded(w, n), Below(w, n),
           Owned(w), NEW s \in Slots, ~w.slots[s].allocated, NEW f \in Ids, f = n + 1,
           NEW kind \in AllKinds, NEW key \in Keys \union {NoKey}, NEW deadline \in BOOLEAN,
           NEW inputs \in Seq(Ids), Askable(w, kind, deadline, inputs),
           NEW v, Takes(w, v, s, f, kind, key, deadline, inputs),
           NEW st, Engaged(w, st), Unshared(st, inputs)
    PROVE  Joins(v, st, f)
<1>0. Grown(w, v, s, f, kind, key, deadline, inputs)
  BY TakesWorld
<1>1. /\ v \in World /\ Others(w, v, s)
      /\ TakenFields(w.slots[s], v.slots[s], f, kind, key, deadline, inputs)
      /\ \A g \in Ids : g # f => v.handles[g] = w.handles[g]
  BY <1>0 DEF Grown
<1>2. v.slots[s].inputs = inputs /\ \A t \in Slots : t # s => v.slots[t] = w.slots[t]
  BY <1>1 DEF TakenFields, Others
<1>3. \A g \in Ids : w.handles[g].alive => g # f
  BY FutureAssumption DEF Minded, Ids
<1>4. \A g : Awaited(v, g) => Awaited(w, g) \/ \E i \in 1 .. Len(inputs) : inputs[i] = g
  BY <1>2 DEF Awaited
<1>5. ~Awaited(v, f)
  BY <1>3, <1>4 DEF Minded, Askable
<1>6. ASSUME NEW i \in 1 .. Len(st), Calls(st[i]) PROVE Occupied(v, st[i])
  <2> DEFINE x == st[i]
             t == x.runSlot
             b == w.slots[t]
  <2>1. Occupied(w, x)
    BY <1>6 DEF Engaged
  <2>2. /\ x.run # 0 /\ t \in Slots /\ b.allocated /\ b.seq = x.run /\ b.state = "pending"
        /\ b.kind \in {"js_call", "map", "flatMap"}
        /\ b.kind # "js_call" => b.running /\ Tied(w, b.inputs[1])
    BY <2>1 DEF Occupied
  <2>3. v.slots[t] = b
    BY <1>2, <2>2
  <2>4. b.kind # "js_call" => Tied(v, b.inputs[1])
    <3> SUFFICES ASSUME b.kind # "js_call" PROVE Tied(v, b.inputs[1])
      OBVIOUS
    <3>1. b.inputs # <<>>
      BY <2>2 DEF Owned, Served, Terminal
    <3>2. b.inputs[1] \in Ids /\ Awaited(w, b.inputs[1])
      BY <2>2, <3>1, FirstAwaited
    <3>3. v.handles[b.inputs[1]] = w.handles[b.inputs[1]]
      BY <1>1, <1>3, <3>2 DEF Minded
    <3>4. QED
      BY <2>2, <3>3 DEF Tied
  <2> HIDE DEF x
  <2>5. Occupied(v, x)
    BY <2>2, <2>3, <2>4 DEF Occupied
  <2>6. QED
    BY <2>5 DEF x
<1>7. \A i \in 1 .. Len(st) : st[i].sync => ~Awaited(v, st[i].wait)
  BY <1>4 DEF Engaged, Unshared
<1>8. QED
  BY <1>5, <1>6, <1>7 DEF Engaged, Joins
-------------------------------------------------------------------------------
(* Steps that create a Future: the order of the queues. *)

\* Compaction keeps the order.
LEMMA CountGrows ==
    ASSUME NEW m \in Nat, NEW S, S \subseteq 1 .. m, NEW i \in S, NEW j \in S, i <= j
    PROVE  Count(S, i) <= Count(S, j)
<1>1. \A x, n : x \in Upto(S, n) <=> x \in S /\ x <= n
  BY DEF Upto
<1>2. \A x \in S : x \in Nat
  OBVIOUS
<1>3. \A x \in Upto(S, i) : x \in Upto(S, j)
  <2> TAKE x \in Upto(S, i)
  <2>1. x \in S /\ x <= i
    BY <1>1
  <2>2. x \in Nat /\ i \in Nat /\ j \in Nat
    BY <1>2, <2>1
  <2>3. x <= j
    BY <2>1, <2>2
  <2>4. QED
    BY <1>1, <2>1, <2>3
<1>4. IsFiniteSet(Upto(S, j))
  <2>1. IsFiniteSet(1 .. m)
    BY FS_Interval
  <2>2. Upto(S, j) \in SUBSET (1 .. m)
    BY <1>1
  <2>3. QED
    BY <2>1, <2>2, FS_Subset
<1>5. QED
  BY <1>3, <1>4, FS_Subset DEF Count

\* What is kept of a queue keeps its order.
LEMMA CompactOrdered ==
    ASSUME NEW q \in Seq(TokenType), NEW S, S \subseteq DOMAIN q, NEW w, Ordered(w, q)
    PROVE  Ordered(w, Compact(q, S))
<1> DEFINE n == Cardinality(S)
           c == Compact(q, S)
<1>1. DOMAIN q = 1 .. Len(q) /\ Len(q) \in Nat
  OBVIOUS
<1>2. n \in Nat
  BY <1>1, CountIs
<1>3. \A k \in 1 .. n : Position(S, k) \in S /\ Count(S, Position(S, k)) = k
  BY <1>1, PositionIs
<1>4. c = [k \in 1 .. n |-> q[Position(S, k)]]
  BY DEF Compact
<1> HIDE DEF n, c
<1>5. \A k \in 1 .. n : c[k] = q[Position(S, k)]
  BY <1>4
<1>6. Len(c) = n
  BY <1>2, <1>4
<1>7. ASSUME NEW j \in 1 .. n, NEW k \in 1 .. n, j < k PROVE Position(S, j) < Position(S, k)
  <2>1. /\ Position(S, j) \in S /\ Position(S, k) \in S
        /\ Count(S, Position(S, j)) = j /\ Count(S, Position(S, k)) = k
    BY <1>3
  <2>2. Position(S, k) <= Position(S, j) => k <= j
    BY <1>1, <2>1, CountGrows
  <2>3. Position(S, k) \in Nat /\ Position(S, j) \in Nat
    BY <1>1, <2>1
  <2>4. QED
    BY <1>2, <1>7, <2>2, <2>3
<1>8. \A k \in 1 .. n : Position(S, k) \in 1 .. Len(q)
  BY <1>1, <1>3
<1>9. Ordered(w, c)
  BY <1>5, <1>6, <1>7, <1>8 DEF Ordered
<1>10. QED
  BY <1>9 DEF c

\* So does what is left of the queue when a submission comes.
LEMMA KeptIs ==
    ASSUME NEW q \in Seq(TokenType), NEW w, NEW u, Ordered(w, q), Tokens(w, q)
    PROVE  Kept(u, q) \in Seq(TokenType) /\ Ordered(w, Kept(u, q)) /\ Tokens(w, Kept(u, q))
<1> DEFINE S == Alive(u, q)
           c == Compact(q, S)
<1>1. S \subseteq DOMAIN q
  BY DEF Alive
<1> HIDE DEF S
<1>2. c \in Seq(TokenType) /\ \A k \in 1 .. Len(c) : \E i \in S : c[k] = q[i]
  BY <1>1, CompactKeeps
<1>3. Ordered(w, c)
  BY <1>1, CompactOrdered
<1> HIDE DEF c
<1>4. DOMAIN q = 1 .. Len(q)
  OBVIOUS
<1>5. Tokens(w, c)
  BY <1>1, <1>2, <1>4 DEF Tokens
<1>6. Kept(u, q) = q \/ Kept(u, q) = c
  BY DEF Kept, S, c
<1>7. QED
  BY <1>2, <1>3, <1>5, <1>6

\* The token of the youngest Future comes last.
LEMMA YoungestLast ==
    ASSUME NEW w \in World, NEW v \in World, NEW s \in Slots, Others(w, v, s),
           v.slots[s].generation = w.slots[s].generation + 1,
           \A t \in Slots : w.slots[t].seq < v.slots[s].seq,
           NEW q \in Seq(TokenType), Ordered(w, q), Tokens(w, q)
    PROVE  Ordered(v, q) /\ Ordered(v, Append(q, Token(v, s)))
<1> DEFINE x == Token(v, s)
           p == Append(q, x)
<1>1. x \in TokenType /\ x.slot = s /\ x.generation = v.slots[s].generation
  BY TokenIs DEF Token
<1> HIDE DEF x
<1>2. Len(q) \in Nat /\ \A i \in 1 .. Len(q) : q[i] \in TokenType
  OBVIOUS
<1>3. \A i \in 1 .. Len(q) : q[i].slot \in Slots /\ q[i].generation \in Nat
  BY <1>2 DEF TokenType
<1>4. \A t \in Slots : w.slots[t].generation \in Nat
  BY WorldFields DEF SlotType
<1>5. \A i \in 1 .. Len(q) :
         q[i].generation = v.slots[q[i].slot].generation
         => q[i].slot # s /\ v.slots[q[i].slot] = w.slots[q[i].slot]
  <2> TAKE i \in 1 .. Len(q)
  <2>1. q[i].generation <= w.slots[q[i].slot].generation
    BY DEF Tokens
  <2>2. q[i].generation = v.slots[q[i].slot].generation => q[i].slot # s
    BY <1>3, <1>4, <2>1
  <2>3. QED
    BY <1>3, <2>2 DEF Others
<1>6. /\ Len(p) = Len(q) + 1 /\ p[Len(q) + 1] = x
      /\ \A i \in 1 .. Len(q) : p[i] = q[i]
  BY <1>1, <1>2
<1> HIDE DEF p
<1>7. ASSUME NEW i \in 1 .. Len(p), NEW j \in 1 .. Len(p), i < j,
             v.slots[p[i].slot].allocated, v.slots[p[i].slot].generation = p[i].generation,
             v.slots[p[j].slot].allocated, v.slots[p[j].slot].generation = p[j].generation
      PROVE  v.slots[p[i].slot].seq < v.slots[p[j].slot].seq
  <2>1. i \in 1 .. Len(q)
    BY <1>2, <1>6, <1>7
  <2>2. v.slots[p[i].slot] = w.slots[q[i].slot] /\ p[i] = q[i] /\ q[i].slot \in Slots
    BY <1>3, <1>5, <1>6, <1>7, <2>1
  <2>3. CASE j = Len(q) + 1
    BY <1>1, <1>6, <2>2, <2>3
  <2>4. CASE j # Len(q) + 1
    <3>1. j \in 1 .. Len(q)
      BY <1>2, <1>6, <2>4
    <3>2. v.slots[p[j].slot] = w.slots[q[j].slot] /\ p[j] = q[j]
      BY <1>3, <1>5, <1>6, <1>7, <3>1
    <3>3. QED
      BY <1>7, <2>1, <2>2, <3>1, <3>2 DEF Ordered
  <2>5. QED
    BY <2>3, <2>4
<1>8. Ordered(v, p)
  BY <1>7 DEF Ordered
<1>9. Ordered(v, q)
  <2>1. \A i \in 1 .. Len(q) : i \in 1 .. Len(p)
    BY <1>2, <1>6
  <2>2. QED
    BY <1>6, <1>8, <2>1 DEF Ordered
<1>10. QED
  BY <1>8, <1>9 DEF p, x

\* Tokens of Futures that are gone never name the new one.
LEMMA TakesWoken ==
    ASSUME NEW w \in World, NEW v, NEW s \in Slots, Others(w, v, s),
           v.slots[s].generation = w.slots[s].generation + 1,
           NEW q \in Seq(TokenType), NEW d, Woken(w, q, d)
    PROVE  Woken(v, q, d)
<1>1. \A i \in 1 .. Len(q) : q[i] \in TokenType
  OBVIOUS
<1>2. \A i \in 1 .. Len(q) : q[i].slot \in Slots /\ q[i].generation \in Nat
  BY <1>1 DEF TokenType
<1>3. w.slots[s].generation \in Nat
  BY WorldFields DEF SlotType
<1>4. ASSUME NEW i \in 1 .. Len(q)
      PROVE  /\ q[i].generation <= v.slots[q[i].slot].generation
             /\ LET a == v.slots[q[i].slot] IN
                SameCore /\ a.allocated /\ a.generation = q[i].generation /\ a.kind = "sleep"
                => a.seq \in d
  <2>1. CASE q[i].slot = s
    <3>1. q[i].generation <= w.slots[s].generation
      BY <2>1 DEF Woken
    <3>2. q[i].generation < v.slots[s].generation /\ q[i].generation # v.slots[s].generation
      BY <1>2, <1>3, <3>1
    <3>3. q[i].generation <= v.slots[s].generation
      BY <1>2, <1>3, <3>1
    <3>4. QED
      BY <2>1, <3>2, <3>3
  <2>2. CASE q[i].slot # s
    BY <1>2, <2>2 DEF Woken, Others
  <2>3. QED
    BY <2>1, <2>2
<1>5. QED
  BY <1>4 DEF Woken

\* A submission takes a free slot and its token is the last of the queue.
Submitted(s, f, kind, key, deadline, inputs) ==
    /\ s \in Slots /\ ~fut.slots[s].allocated /\ f \in Ids /\ f = next + 1 /\ next' = f
    /\ Takes(fut, fut', s, f, kind, key, deadline, inputs)
    /\ submissions' = Append(Kept(fut', submissions), Token(fut', s))

\* What a submission does.
LEMMA SubmitGives ==
    ASSUME IInv, AInv, NEW kind \in AllKinds, NEW key \in Keys \union {NoKey},
           NEW deadline \in BOOLEAN, NEW inputs \in Seq(Ids), NEW internal \in BOOLEAN,
           Submit(kind, key, deadline, inputs, internal)
    PROVE  \E s, f : Submitted(s, f, kind, key, deadline, inputs)
<1> DEFINE s == FindFree(internal)
           f == next + 1
           w == AllocateSlot(s, kind, key, deadline, inputs)
           x == Token(w, s)
           q == Enqueue(w, x)
           sent == \E i \in 1 .. Len(q) : q[i] = x
           u == ClearSlot([w EXCEPT !.handles[next + 1].alive = FALSE], s)
<1>1. next < MaxFutures /\ s # NoSlot
      /\ next' = f /\ submissions' = q /\ fut' = IF sent THEN w ELSE u
  BY Zenon DEF Submit
<1>2. s \in Slots /\ ~fut.slots[s].allocated
  BY <1>1, FreeIs
<1>3. next \in Nat /\ f \in Nat /\ f \in Ids /\ MaxFutures \in Nat
  BY <1>1, FutureAssumption DEF IInv, RestOK, Ids
<1>4. fut \in World /\ Below(fut, next) /\ QueuesOK /\ stack \in Seq(FrameType)
  BY DEF IInv, StackOK
<1>5. Tracked(fut) /\ Tokens(fut, submissions) /\ Distinct(submissions)
  BY DEF AInv, Fit
<1> HIDE DEF s, u
<1>6. Takes(fut, w, s, f, kind, key, deadline, inputs)
  BY <1>1, <1>2, <1>3, <1>4, AllocateGives
<1>0. f = next + 1
  OBVIOUS
<1> HIDE DEF w, f
<1>7. w \in World /\ Others(fut, w, s)
  BY <1>6 DEF Takes
<1>8. TakenFields(fut.slots[s], w.slots[s], f, kind, key, deadline, inputs)
  BY <1>0, <1>2, <1>3, <1>4, <1>5, <1>6, TakesTracked
<1>9. w.slots[s].generation = fut.slots[s].generation + 1
  BY <1>8 DEF TakenFields
<1>10. Enqueued(w, s, q)
  BY <1>2, <1>4, <1>5, <1>7, <1>9, EnqueueKeeps
<1> HIDE DEF q
<1>11. Sent(q, x) /\ q = Append(Kept(w, submissions), x)
  BY <1>10 DEF Enqueued
<1>12. fut' = w
  BY <1>1, <1>11 DEF Sent
<1>13. Submitted(s, f, kind, key, deadline, inputs)
  BY <1>0, <1>1, <1>2, <1>3, <1>6, <1>11, <1>12 DEF Submitted
<1>14. QED
  BY <1>13

\* The other Futures keep objects and operations.
Aside(w, v, f) ==
    \A g \in Ids : g # f => v.handles[g] = w.handles[g] /\ v.native[g] = w.native[g]

\* What a new Future leaves in order.
LEMMA TakesOrderly ==
    ASSUME NEW w \in World, Tracked(w), NEW n \in Nat, Minded(w, n), Below(w, n),
           NEW s \in Slots, ~w.slots[s].allocated, NEW f \in Ids, f = n + 1,
           Owned(w), NEW v, Aside(w, v, f)
    PROVE  Orderly(w, v)
<1>1. /\ \A t \in Slots : w.slots[t].seq # f
      /\ \A g \in Ids : g # f => v.handles[g] = w.handles[g] /\ v.native[g] = w.native[g]
  BY SeqIs DEF Aside, Below
<1>2. ASSUME NEW t \in Slots, w.slots[t].allocated
      PROVE  w.slots[t].seq \in Ids /\ v.native[w.slots[t].seq] = w.native[w.slots[t].seq]
             /\ v.handles[w.slots[t].seq] = w.handles[w.slots[t].seq]
  BY <1>1, <1>2 DEF Tracked, Linked
<1>3. Rightly(w, v)
  BY <1>2 DEF Rightly, Tracked, Linked
<1>4. \A t \in Slots : w.slots[t].driver_active => w.slots[t].allocated
  BY DEF Owned, NamedSlot
<1>5. Fifo(w, v)
  BY <1>2, <1>4 DEF Fifo
<1>6. QED
  BY <1>3, <1>5 DEF Orderly

\* A new Future is younger than those in the lanes.
LEMMA TakesElder ==
    ASSUME NEW w \in World, NEW n \in Nat, Below(w, n), NEW s \in Slots, NEW v,
           Others(w, v, s), v.slots[s].seq = n + 1, ~v.slots[s].lane_waiting, Elder(w)
    PROVE  Elder(v)
<1>1. \A t \in Slots : w.slots[t].seq \in Nat /\ w.slots[t].seq <= n
  BY SeqIs DEF Below
<1>2. \A t \in Slots : w.slots[t].seq < n + 1
  BY <1>1
<1>3. ASSUME NEW p \in Slots, NEW t \in Slots,
             v.slots[p].allocated, v.slots[p].lane_waiting,
             v.slots[t].allocated, v.slots[t].state = "queued", ~v.slots[t].lane_waiting
      PROVE  v.slots[p].seq < v.slots[t].seq
  <2>1. p # s /\ v.slots[p] = w.slots[p]
    BY <1>3 DEF Others
  <2>2. CASE t = s
    BY <1>2, <2>1, <2>2
  <2>3. CASE t # s
    BY <1>3, <2>1, <2>3 DEF Others, Elder
  <2>4. QED
    BY <2>2, <2>3
<1>4. QED
  BY <1>3 DEF Elder

\* The submission of a Future that may be asked for.
LEMMA SubmitKeeps ==
    ASSUME IInv, AInv, BInv, NEW kind \in AllKinds, NEW key \in Keys \union {NoKey},
           NEW deadline \in BOOLEAN, NEW inputs \in Seq(Ids), NEW internal \in BOOLEAN,
           Submit(kind, key, deadline, inputs, internal), Askable(fut, kind, deadline, inputs),
           Unshared(stack, inputs), SameCore => firing = NoSlot,
           UNCHANGED <<ready, due, waking, firing, shutting_down>>,
           stack' = stack \/ Push(Frame("js", next + 1, TRUE))
    PROVE  BInv' /\ Orderly(fut, fut')
<1>1. PICK s, f : Submitted(s, f, kind, key, deadline, inputs)
  BY SubmitGives
<1>2. /\ s \in Slots /\ ~fut.slots[s].allocated /\ f \in Ids /\ f = next + 1 /\ next' = f
      /\ Takes(fut, fut', s, f, kind, key, deadline, inputs)
      /\ submissions' = Append(Kept(fut', submissions), Token(fut', s))
  BY <1>1 DEF Submitted
<1>3. /\ fut \in World /\ Tracked(fut) /\ Minded(fut, next) /\ Engaged(fut, stack)
      /\ Owned(fut) /\ Woken(fut, ready, due) /\ ready \in Seq(TokenType)
  BY Facts
<1>4. /\ next \in Nat /\ Below(fut, next) /\ submissions \in Seq(TokenType)
      /\ Tokens(fut, submissions) /\ Ordered(fut, submissions) /\ Waked(fut, waking)
      /\ stack \in Seq(FrameType) /\ waking \subseteq 1 .. next /\ next < MaxFutures
      /\ shutting_down \/ Elder(fut)
  <2>1. next < MaxFutures
    BY Zenon DEF Submit
  <2>2. QED
    BY <2>1, FutureAssumption DEF IInv, QueuesOK, AInv, Fit, BInv, RestOK, StackOK
<1>5. Grown(fut, fut', s, f, kind, key, deadline, inputs)
  BY <1>2, <1>3, <1>4, TakesWorld
<1>6. /\ fut' \in World /\ Others(fut, fut', s) /\ ~fut'.slots[s].lane_waiting
      /\ TakenFields(fut.slots[s], fut'.slots[s], f, kind, key, deadline, inputs)
      /\ \A g \in Ids : g # f => /\ fut'.handles[g] = fut.handles[g]
                                 /\ fut'.native[g] = fut.native[g]
  BY <1>5 DEF Grown
<1>7. fut'.slots[s].generation = fut.slots[s].generation + 1 /\ fut'.slots[s].seq = next + 1
  BY <1>2, <1>6 DEF TakenFields
<1>8. Minded(fut', next')
  <2>1. Minded(fut', f)
    BY <1>2, <1>3, <1>4, TakesMinded
  <2>2. QED
    BY <1>2, <2>1
<1>9. Engaged(fut', stack) /\ ~Awaited(fut', f)
  <2>1. Joins(fut', stack, f)
    BY <1>2, <1>3, <1>4, TakesEngaged
  <2>2. QED
    BY <2>1 DEF Joins
<1>10. Engaged(fut', stack')
  <2>1. CASE stack' = stack
    BY <1>9, <2>1
  <2>2. CASE Push(Frame("js", next + 1, TRUE))
    <3> DEFINE x == Frame("js", next + 1, TRUE)
    <3>1. x.wait = f /\ ~Calls(x)
      BY <1>2 DEF Frame, Calls
    <3> HIDE DEF x
    <3>2. stack' = Append(stack, x)
      BY <2>2 DEF Push, x
    <3>3. /\ Len(stack') = Len(stack) + 1 /\ stack'[Len(stack) + 1] = x /\ Len(stack) \in Nat
          /\ \A i \in 1 .. Len(stack) : stack'[i] = stack[i]
      BY <1>4, <3>2
    <3>4. ASSUME NEW i \in 1 .. Len(stack')
          PROVE  /\ Calls(stack'[i]) => Occupied(fut', stack'[i])
                 /\ stack'[i].sync => ~Awaited(fut', stack'[i].wait)
      <4>1. CASE i = Len(stack) + 1
        BY <1>9, <3>1, <3>3, <4>1
      <4>2. CASE i # Len(stack) + 1
        <5>1. i \in 1 .. Len(stack)
          BY <3>3, <4>2
        <5>2. QED
          BY <1>9, <3>3, <5>1 DEF Engaged
      <4>3. QED
        BY <4>1, <4>2
    <3>5. QED
      BY <3>4 DEF Engaged
  <2>3. QED
    BY <2>1, <2>2
<1>11. Woken(fut', ready', due')
  BY <1>2, <1>3, <1>6, <1>7, TakesWoken
<1>12. Fired(fut', firing', due')
  BY DEF Fired
<1>13. Waked(fut', waking')
  <2>1. \A g \in waking : g \in Ids /\ g # f
    BY <1>2, <1>4, FutureAssumption DEF Ids
  <2>2. QED
    BY <1>4, <1>6, <2>1 DEF Waked
<1>14. Ordered(fut', submissions')
  <2> DEFINE q == Kept(fut', submissions)
  <2>1. q \in Seq(TokenType) /\ Ordered(fut, q) /\ Tokens(fut, q)
    BY <1>4, KeptIs
  <2> HIDE DEF q
  <2>2. \A t \in Slots : fut.slots[t].seq < fut'.slots[s].seq
    BY <1>3, <1>4, <1>7, SeqIs DEF Below
  <2>3. Ordered(fut', Append(q, Token(fut', s)))
    BY <1>2, <1>3, <1>6, <1>7, <2>1, <2>2, YoungestLast
  <2>4. QED
    BY <1>2, <2>3 DEF q
<1>15. shutting_down' \/ Elder(fut')
  BY <1>2, <1>3, <1>4, <1>6, <1>7, TakesElder
<1>16. BInv'
  BY <1>8, <1>10, <1>11, <1>12, <1>13, <1>14, <1>15, Binds
<1>17. Orderly(fut, fut')
  BY <1>2, <1>3, <1>4, <1>6, TakesOrderly DEF Aside
<1>18. QED
  BY <1>16, <1>17
-------------------------------------------------------------------------------
(* The operations of JavaScript that create a Future. *)

\* Calls of functions and of native methods, and sleeps.
LEMMA CallKeeps ==
    ASSUME IInv, AInv, BInv, ~CancelOnStack, js_future_call \/ CallDriver \/ js_future_sleep
    PROVE  BInv' /\ Orderly(fut, fut')
<1>1. /\ {"call", "driver", "sleep"} \subseteq AllKinds /\ NoKey \in Keys \union {NoKey}
      /\ TRUE \in BOOLEAN /\ FALSE \in BOOLEAN /\ ScopedDeadline = FALSE
      /\ <<>> \in Seq(Ids) /\ \A k \in Keys : k \in Keys \union {NoKey}
  BY FutureAssumption DEF AllKinds, ScopedDeadline
<1>2. /\ Unshared(stack, <<>>)
      /\ Askable(fut, "call", FALSE, <<>>) /\ Askable(fut, "driver", TRUE, <<>>)
      /\ Askable(fut, "sleep", TRUE, <<>>)
  BY DEF Unshared, Askable
<1>3. CASE js_future_call
  <2>1. Submit("call", NoKey, FALSE, <<>>, FALSE)
        /\ UNCHANGED <<ready, stack, due, waking, firing, shutting_down>>
        /\ (SameCore => firing = NoSlot)
    BY <1>1, <1>3 DEF js_future_call, JsRuns, RuntimeRuns
  <2>2. QED
    BY <1>1, <1>2, <2>1, SubmitKeeps
<1>4. CASE CallDriver
  <2>1. PICK k \in Keys : Submit("driver", k, TRUE, <<>>, FALSE)
    BY <1>4 DEF CallDriver
  <2>2. UNCHANGED <<ready, stack, due, waking, firing, shutting_down>>
        /\ (SameCore => firing = NoSlot)
    BY <1>4 DEF CallDriver, JsRuns, RuntimeRuns
  <2>3. QED
    BY <1>1, <1>2, <2>1, <2>2, SubmitKeeps
<1>5. CASE js_future_sleep
  <2>1. Submit("sleep", NoKey, TRUE, <<>>, FALSE)
        /\ UNCHANGED <<ready, stack, due, waking, firing, shutting_down>>
        /\ (SameCore => firing = NoSlot)
    BY <1>5 DEF js_future_sleep, JsRuns, RuntimeRuns
  <2>2. QED
    BY <1>1, <1>2, <2>1, SubmitKeeps
<1>6. QED
  BY <1>3, <1>4, <1>5

\* Synchronous native methods: nobody else sees the Future they wait for.
LEMMA CallAndWaitKeeps ==
    ASSUME IInv, AInv, BInv, future_call_and_wait
    PROVE  BInv' /\ Orderly(fut, fut')
<1>1. /\ "driver" \in AllKinds /\ TRUE \in BOOLEAN /\ FALSE \in BOOLEAN /\ <<>> \in Seq(Ids)
  BY DEF AllKinds
<1>2. PICK k \in Keys : Submit("driver", k, FALSE, <<>>, TRUE)
  BY DEF future_call_and_wait
<1>3. k \in Keys \union {NoKey}
  OBVIOUS
<1>4. /\ Push(Frame("js", next + 1, TRUE)) /\ UNCHANGED <<ready, due, waking, firing, shutting_down>>
      /\ SameCore => firing = NoSlot
  BY DEF future_call_and_wait, JsRuns, RuntimeRuns
<1>5. Unshared(stack, <<>>) /\ Askable(fut, "driver", FALSE, <<>>)
  BY DEF Unshared, Askable
<1>6. QED
  BY <1>1, <1>2, <1>3, <1>4, <1>5, SubmitKeeps

\* What JavaScript can see it can name as an input.
LEMMA VisibleIs ==
    ASSUME NEW in \in Seq(Ids), \A i \in 1 .. Len(in) : Visible(in[i])
    PROVE  Unshared(stack, in) /\ \A i \in 1 .. Len(in) : fut.handles[in[i]].alive
  BY DEF Unshared, Visible

\* One input.
LEMMA OneInput ==
    ASSUME NEW f \in Ids, Visible(f)
    PROVE  /\ <<f>> \in Seq(Ids) /\ Unshared(stack, <<f>>)
           /\ \A i \in 1 .. Len(<<f>>) : fut.handles[<<f>>[i]].alive
<1> DEFINE in == <<f>>
<1>1. in \in Seq(Ids) /\ Len(in) = 1 /\ in[1] = f
  OBVIOUS
<1> HIDE DEF in
<1>2. \A i \in 1 .. Len(in) : in[i] = f
  BY <1>1
<1>3. \A i \in 1 .. Len(in) : Visible(in[i])
  BY <1>2
<1>4. Unshared(stack, in) /\ \A i \in 1 .. Len(in) : fut.handles[in[i]].alive
  BY <1>1, <1>3, VisibleIs
<1>5. QED
  BY <1>1, <1>4 DEF in

\* Combinators, timeouts and continuations.
LEMMA InputKeeps ==
    ASSUME IInv, AInv, BInv, ~CancelOnStack,
           \/ \E kind \in {"all", "race"} : future_make_combinator(kind)
           \/ js_future_timeout
           \/ \E kind \in {"map", "flatMap"} : future_make_continuation(kind)
    PROVE  BInv' /\ Orderly(fut, fut')
<1>1. /\ {"all", "race", "timeout", "map", "flatMap"} \subseteq AllKinds
      /\ NoKey \in Keys \union {NoKey}
      /\ TRUE \in BOOLEAN /\ FALSE \in BOOLEAN /\ ScopedDeadline = FALSE
  BY FutureAssumption DEF AllKinds, ScopedDeadline
<1>2. ASSUME NEW kind \in {"all", "race"}, future_make_combinator(kind)
      PROVE  BInv' /\ Orderly(fut, fut')
  <2>1. PICK in \in InputLists : /\ \A i \in 1 .. Len(in) : Visible(in[i])
                                 /\ Submit(kind, NoKey, ScopedDeadline, in, FALSE)
    BY <1>2 DEF future_make_combinator
  <2>2. /\ UNCHANGED <<ready, stack, due, waking, firing, shutting_down>>
        /\ SameCore => firing = NoSlot
    BY <1>2 DEF future_make_combinator, JsRuns, RuntimeRuns
  <2>3. in \in Seq(Ids) /\ kind \in AllKinds /\ kind # "timeout"
    BY <1>1, InputListsAre
  <2>4. Unshared(stack, in) /\ \A i \in 1 .. Len(in) : fut.handles[in[i]].alive
    BY <2>1, <2>3, VisibleIs
  <2>5. Askable(fut, kind, FALSE, in)
    BY <2>3, <2>4 DEF Askable
  <2>6. QED
    BY <1>1, <2>1, <2>2, <2>3, <2>4, <2>5, SubmitKeeps
<1>3. CASE js_future_timeout
  <2>1. PICK f \in Ids :
           /\ Visible(f)
           /\ \/ CancelOnStack \/ fut.handles[f].terminal
              \/ /\ HandleSlot(fut, f) # NoSlot
                 /\ fut.slots[HandleSlot(fut, f)].kind \in {"sleep", "driver", "all", "race"}
           /\ Submit("timeout", NoKey, TRUE, <<f>>, FALSE)
    BY <1>3 DEF js_future_timeout
  <2>2. /\ UNCHANGED <<ready, stack, due, waking, firing, shutting_down>>
        /\ SameCore => firing = NoSlot
    BY <1>3 DEF js_future_timeout, JsRuns, RuntimeRuns
  <2>3. Harmless(fut, f)
    <3> SUFFICES ASSUME fut.handles[f].slot \in Slots, ~fut.handles[f].terminal,
                        fut.slots[fut.handles[f].slot].allocated,
                        fut.slots[fut.handles[f].slot].generation = fut.handles[f].generation
                 PROVE  fut.slots[fut.handles[f].slot].kind \in Tame
      BY DEF Harmless
    <3>1. fut.handles[f].slot # NoSlot
      BY NumbersAre
    <3>2. HandleSlot(fut, f) = fut.handles[f].slot
      BY <3>1 DEF HandleSlot, ResolveToken
    <3>3. QED
      BY <2>1, <3>2 DEF Tame
  <2>4. /\ <<f>> \in Seq(Ids) /\ Unshared(stack, <<f>>)
        /\ \A i \in 1 .. Len(<<f>>) : fut.handles[<<f>>[i]].alive
    BY <2>1, OneInput
  <2>5. Askable(fut, "timeout", TRUE, <<f>>)
    <3>1. <<f>>[1] = f /\ <<f>> # <<>>
      OBVIOUS
    <3>2. QED
      BY <2>3, <2>4, <3>1 DEF Askable
  <2>6. QED
    BY <1>1, <2>1, <2>2, <2>4, <2>5, SubmitKeeps
<1>4. ASSUME NEW kind \in {"map", "flatMap"}, future_make_continuation(kind)
      PROVE  BInv' /\ Orderly(fut, fut')
  <2>1. PICK f \in Ids : Visible(f) /\ Submit(kind, NoKey, ScopedDeadline, <<f>>, FALSE)
    BY <1>4 DEF future_make_continuation, Usable
  <2>2. /\ UNCHANGED <<ready, stack, due, waking, firing, shutting_down>>
        /\ SameCore => firing = NoSlot
    BY <1>4 DEF future_make_continuation, JsRuns, RuntimeRuns
  <2>3. kind \in AllKinds /\ kind # "timeout"
    BY <1>1
  <2>4. /\ <<f>> \in Seq(Ids) /\ Unshared(stack, <<f>>)
        /\ \A i \in 1 .. Len(<<f>>) : fut.handles[<<f>>[i]].alive
    BY <2>1, OneInput
  <2>5. Askable(fut, kind, FALSE, <<f>>)
    BY <2>3, <2>4 DEF Askable
  <2>6. QED
    BY <1>1, <2>1, <2>2, <2>3, <2>4, <2>5, SubmitKeeps
<1>5. QED
  BY <1>2, <1>3, <1>4

\* A capture that fails settles the new Future at once.
LEMMA CaptureFailsKeeps ==
    ASSUME IInv, AInv, BInv, capture_call_driver
    PROVE  BInv' /\ Orderly(fut, fut')
<1> DEFINE s == FindFree(FALSE)
           f == next + 1
           w == AllocateSlot(s, "call", NoKey, FALSE, <<>>)
           v == Settle(w, s, "rejected", f)
<1>1. /\ next < MaxFutures /\ s # NoSlot /\ next' = f /\ fut' = v
      /\ UNCHANGED <<submissions, ready, stack, due, waking, firing, shutting_down>>
      /\ SameCore => firing = NoSlot
  BY DEF capture_call_driver, JsRuns, RuntimeRuns
<1>2. s \in Slots /\ ~fut.slots[s].allocated
  BY <1>1, FreeIs
<1>3. next \in Nat /\ f \in Ids /\ f \in Nat /\ f \in Ids \union {0} /\ f = next + 1
  BY <1>1, FutureAssumption DEF IInv, RestOK, Ids
<1>4. /\ "call" \in AllKinds /\ NoKey \in Keys \union {NoKey} /\ FALSE \in BOOLEAN
      /\ <<>> \in Seq(Ids) /\ "rejected" \in Terminal /\ "call" \notin {"timeout", "map", "flatMap"}
      /\ Askable(fut, "call", FALSE, <<>>) /\ Unshared(stack, <<>>)
  BY DEF AllKinds, Terminal, Askable, Unshared
<1>5. /\ fut \in World /\ Tracked(fut) /\ Owned(fut) /\ Minded(fut, next) /\ Engaged(fut, stack)
      /\ Woken(fut, ready, due) /\ ready \in Seq(TokenType)
  BY Facts
<1>6. /\ Below(fut, next) /\ submissions \in Seq(TokenType)
      /\ Tokens(fut, submissions) /\ Ordered(fut, submissions) /\ Waked(fut, waking)
      /\ waking \subseteq 1 .. next /\ waking \subseteq Ids /\ (shutting_down \/ Elder(fut))
  BY FutureAssumption DEF IInv, QueuesOK, AInv, Fit, BInv, RestOK, Ids
<1> HIDE DEF s
<1>7. Takes(fut, w, s, f, "call", NoKey, FALSE, <<>>)
  BY <1>1, <1>2, <1>3, <1>4, <1>5, AllocateGives
<1>8. Owned(w)
  <2>1. Allocated(w, s, f)
    BY <1>1, <1>2, <1>3, <1>4, <1>5, <1>6, AllocateSound
  <2>2. QED
    BY <2>1 DEF Allocated
<1> HIDE DEF w, f
<1>9. Grown(fut, w, s, f, "call", NoKey, FALSE, <<>>)
  BY <1>2, <1>3, <1>4, <1>5, <1>6, <1>7, TakesWorld
<1>10. /\ w \in World /\ Others(fut, w, s) /\ ~w.slots[s].lane_waiting
       /\ TakenFields(fut.slots[s], w.slots[s], f, "call", NoKey, FALSE, <<>>)
       /\ \A g \in Ids : g # f => w.handles[g] = fut.handles[g] /\ w.native[g] = fut.native[g]
  BY <1>9 DEF Grown
<1>11. /\ w.slots[s].generation = fut.slots[s].generation + 1 /\ w.slots[s].seq = f
       /\ w.slots[s].state = "queued" /\ w.slots[s].allocated
       /\ w.slots[s].driver_active = FALSE
  BY <1>10 DEF TakenFields
<1>12. Minded(w, f) /\ Tracked(w)
  BY <1>2, <1>3, <1>4, <1>5, <1>6, <1>7, TakesMinded, TakesTracked
<1>13. Engaged(w, stack)
  <2>1. Joins(w, stack, f)
    BY <1>2, <1>3, <1>4, <1>5, <1>6, <1>7, TakesEngaged
  <2>2. QED
    BY <2>1 DEF Joins
<1>14. NamedSlot(w.slots[s]) /\ w.slots[s].state \notin Terminal
  BY <1>3, <1>11 DEF NamedSlot, Terminal, Ids
<1>15. Over(w, v, s, "rejected", f) /\ v.native = w.native
  BY <1>2, <1>3, <1>4, <1>10, <1>11, <1>14, SettleOver
<1>16. Ends(w, v, s, FALSE)
  BY <1>2, <1>3, <1>4, <1>10, <1>14, SettleIs DEF Ends
<1> HIDE DEF v
<1>17. Tends(w, v)
  BY <1>2, <1>3, <1>4, <1>10, <1>11, <1>12, <1>14, <1>15, OverTends
<1>18. Heeds(w, v)
  BY <1>2, <1>4, <1>8, <1>10, <1>11, <1>12, <1>15, <1>16, OverHeeds
<1>19. v \in World /\ AllGo(w, v) /\ Respects(w, v) /\ Others(w, v, s)
  BY <1>15, <1>17, <1>18 DEF Tends, Heeds, Over
<1>20. Minded(v, f)
  BY <1>8, <1>10, <1>12, <1>19, HeedsMinded DEF Owned
<1>21. Engaged(v, stack)
  <2>1. Clear(s, stack)
    BY <1>11, <1>13, RestsSame, NotOccupied
  <2>2. Spares(w, v, stack)
    BY <1>13, <1>19, <2>1, RestsSame, OthersSpared
  <2>3. QED
    BY <1>8, <1>10, <1>13, <1>19, <2>2, RestsSame, HeedsEngaged DEF Owned
<1>22. Woken(v, ready, due)
  <2>1. Woken(w, ready, due)
    BY <1>2, <1>5, <1>10, <1>11, TakesWoken
  <2>2. QED
    BY <1>5, <1>10, <1>19, <2>1, WokenStay
<1>23. Waked(v, waking)
  <2>1. \A g \in waking : g \in Ids /\ g # f
    BY <1>3, <1>6
  <2>2. Waked(w, waking)
    BY <1>6, <1>10, <2>1 DEF Waked
  <2>3. QED
    BY <1>6, <1>19, <2>2, WakedStay
<1>24. Ordered(v, submissions)
  <2>1. \A t \in Slots : fut.slots[t].seq < w.slots[s].seq
    BY <1>3, <1>5, <1>6, <1>11, SeqIs DEF Below
  <2>2. Ordered(w, submissions)
    BY <1>2, <1>5, <1>6, <1>10, <1>11, <2>1, YoungestLast
  <2>3. QED
    BY <1>6, <1>19, <2>2, OrderedStay
<1>25. shutting_down \/ Elder(v)
  <2> SUFFICES ASSUME ~shutting_down PROVE Elder(v)
    OBVIOUS
  <2>1. Elder(w)
    BY <1>2, <1>3, <1>5, <1>6, <1>10, <1>11, TakesElder
  <2>2. QED
    BY <1>18, <1>19, <2>1, ElderStay
<1>26. Fired(fut', firing', due')
  BY <1>1 DEF Fired
<1>27. BInv'
  BY <1>1, <1>20, <1>21, <1>22, <1>23, <1>24, <1>25, <1>26, Binds
<1>28. Orderly(fut, v)
  <2> DEFINE x == ToldIn(w, s, "rejected", f)
  <2>1. "rejected" \in States
    BY DEF States, Terminal
  <2>2. ToldOK(w, x, s, "rejected", f)
    BY <1>2, <1>3, <1>10, <1>11, <1>14, <2>1, ToldIs
  <2>3. v.handles = x
    BY <1>15 DEF Over
  <2> HIDE DEF x
  <2>4. Aside(fut, v, f)
    BY <1>10, <1>11, <1>15, <2>2, <2>3 DEF Aside, ToldOK
  <2>5. QED
    BY <1>2, <1>3, <1>5, <1>6, <2>4, TakesOrderly
<1>29. QED
  BY <1>1, <1>27, <1>28
-------------------------------------------------------------------------------
(* The steps of the environment. *)

\* A step beside the runtime task.
LEMMA HeedBinds ==
    ASSUME IInv, AInv, BInv, Tends(fut, fut'), Heeds(fut, fut'), Spares(fut, fut', stack),
           Woken(fut', ready', due'), Fired(fut', firing', due'), Waked(fut', waking'),
           UNCHANGED <<next, submissions, stack, shutting_down>>
    PROVE  BInv'
<1>1. /\ fut \in World /\ fut' \in World /\ AllGo(fut, fut') /\ Respects(fut, fut')
      /\ submissions \in Seq(TokenType)
  BY DEF IInv, QueuesOK, Tends, Heeds
<1>2. Minded(fut', next')
  BY <1>1, HeedsMinded DEF BInv, IInv, Owned
<1>3. Engaged(fut', stack')
  BY <1>1, RestsSame, HeedsEngaged DEF BInv, IInv, Owned
<1>4. Ordered(fut', submissions')
  BY <1>1, OrderedStay DEF BInv
<1>5. shutting_down' \/ Elder(fut')
  BY <1>1, ElderStay DEF BInv
<1>6. QED
  BY <1>2, <1>3, <1>4, <1>5, Binds

\* More deadlines have passed.
LEMMA FiredStay ==
    ASSUME NEW w, NEW v, NEW f, f \in Slots \/ f = NoSlot,
           \A s \in Slots : v.slots[s].allocated
                            => w.slots[s].allocated /\ v.slots[s].seq = w.slots[s].seq,
           NEW d, NEW e, d \subseteq e, Fired(w, f, d)
    PROVE  Fired(v, f, e)
  BY DEF Fired

\* Time passes.
LEMMA PassesKeeps ==
    ASSUME IInv, AInv, BInv, DeadlinePasses
    PROVE  BInv' /\ Orderly(fut, fut')
<1>1. /\ fut' = fut /\ due \subseteq due'
      /\ UNCHANGED <<next, submissions, ready, stack, waking, firing, shutting_down>>
  BY DEF DeadlinePasses
<1>2. /\ fut \in World /\ Tracked(fut) /\ Owned(fut) /\ Minded(fut, next)
      /\ Woken(fut, ready, due) /\ ready \in Seq(TokenType)
  BY Facts
<1>3. Tends(fut, fut) /\ Heeds(fut, fut) /\ Duly(fut, fut) /\ Spares(fut, fut, stack)
      /\ AllGo(fut, fut) /\ Respects(fut, fut)
  BY <1>2, TendsSame, DulySame, SameSpared DEF Tends, Heeds
<1>4. Woken(fut, ready, due')
  BY <1>1, <1>2, <1>3, WokenStay
<1>5. Fired(fut, firing, due')
  BY <1>1 DEF BInv, Fired
<1>6. Waked(fut, waking)
  BY DEF BInv
<1>7. BInv'
  BY <1>1, <1>3, <1>4, <1>5, <1>6, HeedBinds
<1>8. QED
  BY <1>1, <1>2, <1>3, <1>7, DulyOrderly

\* An operation completes.
LEMMA CompletesKeeps ==
    ASSUME IInv, AInv, BInv, NEW f \in Ids, NativeCompletes(f)
    PROVE  BInv' /\ Orderly(fut, fut')
<1>1. /\ fut.native[f] = "running" /\ fut' = [fut EXCEPT !.native[f] = "done"]
      /\ waking' = waking \union {f}
      /\ UNCHANGED <<next, submissions, ready, stack, due, firing, shutting_down>>
  BY DEF NativeCompletes
<1>2. /\ fut \in World /\ Tracked(fut) /\ Owned(fut) /\ Minded(fut, next)
      /\ Woken(fut, ready, due) /\ ready \in Seq(TokenType)
  BY Facts
<1>3. "done" \in NativeStates
  BY DEF NativeStates
<1>4. /\ fut' \in World /\ fut'.slots = fut.slots /\ fut'.handles = fut.handles
      /\ fut'.native[f] = "done" /\ \A g \in Ids : g # f => fut'.native[g] = fut.native[g]
  <2> DEFINE v == [fut EXCEPT !.native[f] = "done"]
  <2>1. /\ v \in World /\ v.slots = fut.slots /\ v.handles = fut.handles
        /\ v.native[f] = "done" /\ \A g \in Ids : g # f => v.native[g] = fut.native[g]
    <3>1. /\ v \in World /\ v.slots = fut.slots /\ v.handles = fut.handles
          /\ v.native = [fut.native EXCEPT ![f] = "done"]
      BY <1>2, <1>3, NativeIs
    <3> HIDE DEF v
    <3>2. QED
      BY <1>2, <3>1, WorldFields
  <2>2. QED
    BY <1>1, <2>1
<1>5. Tends(fut, fut')
  BY <1>2, <1>4, NativeTends
<1>6. Spares(fut, fut', stack)
  BY <1>4, SameSpared
<1>7. Heeds(fut, fut)
  BY <1>2, HeedsSame
<1>8. Heeds(fut, fut')
  <2>1. \A g \in Ids : fut'.native[g] = "none" <=> fut.native[g] = "none"
    BY <1>1, <1>4
  <2>2. \A g : Awaited(fut', g) <=> Awaited(fut, g)
    BY <1>4 DEF Awaited
  <2>3. QED
    BY <1>4, <1>7, <2>1, <2>2 DEF Heeds, Respects
<1>9. Unstarted(fut, fut') /\ Rightly(fut, fut')
  BY <1>2, <1>4, SameRightly DEF Unstarted
<1>10. Woken(fut', ready', due')
  BY <1>1, <1>2, <1>4 DEF Woken
<1>11. Fired(fut', firing', due')
  BY <1>1, <1>4 DEF BInv, Fired
<1>12. Waked(fut', waking')
  BY <1>1, <1>4 DEF BInv, Waked, RestOK
<1>13. BInv'
  BY <1>1, <1>5, <1>6, <1>8, <1>10, <1>11, <1>12, HeedBinds
<1>14. QED
  BY <1>2, <1>9, <1>13, DulyOrderly DEF Duly

\* A wake-up in the queue names a Future that may be polled.
LEMMA WokenOffer ==
    ASSUME NEW w, NEW d, ready \in Seq(TokenType), Woken(w, ready, d), NEW x \in TokenType,
           x.generation <= w.slots[x.slot].generation,
           /\ SameCore /\ w.slots[x.slot].allocated /\ w.slots[x.slot].generation = x.generation
           /\ w.slots[x.slot].kind = "sleep"
           => w.slots[x.slot].seq \in d
    PROVE  Woken(w, Offer(x), d)
<1> DEFINE q == Append(ready, x)
<1>1. /\ Len(ready) \in Nat /\ Len(q) = Len(ready) + 1 /\ q[Len(ready) + 1] = x
      /\ \A i \in 1 .. Len(ready) : q[i] = ready[i]
  OBVIOUS
<1> HIDE DEF q
<1>2. ASSUME NEW i \in 1 .. Len(q)
      PROVE  /\ q[i].generation <= w.slots[q[i].slot].generation
             /\ LET a == w.slots[q[i].slot] IN
                SameCore /\ a.allocated /\ a.generation = q[i].generation /\ a.kind = "sleep"
                => a.seq \in d
  <2>1. CASE i = Len(ready) + 1
    BY <1>1, <2>1
  <2>2. CASE i # Len(ready) + 1
    <3>1. i \in 1 .. Len(ready)
      BY <1>1, <2>2
    <3>2. QED
      BY <1>1, <3>1 DEF Woken
  <2>3. QED
    BY <2>1, <2>2
<1>3. Woken(w, q, d)
  BY <1>2 DEF Woken
<1>4. QED
  BY <1>3 DEF Offer, q

\* A completion wakes the Future of its operation.
LEMMA WakeKeeps ==
    ASSUME IInv, AInv, BInv, NEW f \in Ids, future_wake(f)
    PROVE  BInv' /\ Orderly(fut, fut')
<1> DEFINE h == fut.handles[f]
           x == [slot |-> h.slot, generation |-> h.generation]
           a == fut.slots[h.slot]
<1>1. /\ f \in waking /\ waking' = waking \ {f} /\ ready' \in {ready, Offer(x)} /\ fut' = fut
      /\ UNCHANGED <<next, submissions, stack, due, firing, shutting_down>>
  BY DEF future_wake
<1>2. /\ fut \in World /\ Tracked(fut) /\ Owned(fut) /\ Minded(fut, next)
      /\ Woken(fut, ready, due) /\ ready \in Seq(TokenType)
  BY Facts
<1>3. Tends(fut, fut) /\ Heeds(fut, fut) /\ Duly(fut, fut) /\ Spares(fut, fut, stack)
  BY <1>2, TendsSame, DulySame, SameSpared
<1>4. h.slot \in Slots /\ h.generation \in Nat
  <2>1. f <= next
    BY <1>1 DEF IInv, RestOK
  <2>2. QED
    BY <1>2, <2>1, WorldFields DEF IInv, Handed, HandleType
<1>5. x \in TokenType /\ x.slot = h.slot /\ x.generation = h.generation
  BY <1>4 DEF TokenType
<1>6. h.generation <= a.generation
  BY <1>2, <1>4 DEF Tracked, Leads
<1>7. ~ (a.allocated /\ a.generation = h.generation /\ a.kind = "sleep")
  <2> SUFFICES ASSUME a.allocated, a.generation = h.generation, a.kind = "sleep" PROVE FALSE
    OBVIOUS
  <2>1. a.seq = f
    BY <1>2, <1>4 DEF Tracked, Leads
  <2>2. fut.native[f] = "none"
    BY <1>2, <1>4, <2>1 DEF Minded
  <2>3. QED
    BY <1>1, <2>2 DEF BInv, Waked
<1> HIDE DEF x
<1>8. Woken(fut, Offer(x), due)
  BY <1>2, <1>5, <1>6, <1>7, WokenOffer
<1>9. Woken(fut', ready', due')
  BY <1>1, <1>2, <1>8
<1>10. Fired(fut', firing', due') /\ Waked(fut', waking')
  BY <1>1 DEF BInv, Fired, Waked
<1>11. BInv'
  BY <1>1, <1>3, <1>9, <1>10, HeedBinds
<1>12. QED
  BY <1>1, <1>2, <1>3, <1>11, DulyOrderly

\* A timer fires.
LEMMA FiresKeeps ==
    ASSUME IInv, AInv, BInv, TimerFires
    PROVE  BInv' /\ Orderly(fut, fut')
<1>1. PICK s \in Slots : /\ fut.slots[s].timer = "armed" /\ fut.slots[s].seq \in due
                         /\ firing' = s
                         /\ fut' = Put(fut, s, [fut.slots[s] EXCEPT !.timer = "fired"])
  BY DEF TimerFires
<1>2. UNCHANGED <<next, submissions, ready, stack, due, waking, shutting_down>>
  BY DEF TimerFires
<1>3. /\ fut \in World /\ Tracked(fut) /\ Owned(fut) /\ Minded(fut, next) /\ Sane(fut.slots[s])
      /\ Woken(fut, ready, due) /\ ready \in Seq(TokenType)
  BY Facts
<1> DEFINE a == fut.slots[s]
           b == [a EXCEPT !.timer = "fired"]
<1>4. a \in SlotType /\ "fired" \in {"none", "armed", "fired"}
  BY <1>3, WorldFields
<1>5. b \in SlotType
  BY <1>4, Zenon DEF SlotType
<1>6. /\ b.allocated = a.allocated /\ b.generation = a.generation /\ b.seq = a.seq
      /\ b.state = a.state /\ b.handle = a.handle /\ b.lane_waiting = a.lane_waiting
      /\ b.kind = a.kind /\ b.running = a.running /\ b.called = a.called
      /\ b.inputs = a.inputs /\ b.result = a.result /\ b.driver_active = a.driver_active
      /\ b.driver_started = a.driver_started /\ b.deadline = a.deadline
      /\ b.cancel_requested = a.cancel_requested
  BY <1>4 DEF SlotType
<1>7. fut' = Put(fut, s, b)
  BY <1>1
<1> HIDE DEF b
<1>8. a.allocated
  <2>1. EmptySlot(a.generation).timer = "none"
    BY DEF EmptySlot
  <2>2. QED
    BY <1>1, <1>3, <2>1 DEF Sane
<1>9. Begun(a) => Begun(b)
  BY <1>6 DEF Begun
<1>10. Tends(fut, fut')
  BY <1>3, <1>5, <1>6, <1>7, <1>9, SameTends
<1>11. /\ fut'.slots[s] = b /\ fut'.handles = fut.handles /\ fut'.native = fut.native
       /\ \A t \in Slots : t # s => fut'.slots[t] = fut.slots[t]
       /\ fut' \in World
  BY <1>3, <1>5, <1>7, PutIs
<1>12. Others(fut, fut', s)
  BY <1>11 DEF Others
<1>13. Changes(a, b)
  BY <1>3, <1>6, <1>8 DEF Changes, Alters, Sane
<1>14. Heeds(fut, fut') /\ Duly(fut, fut')
  BY <1>3, <1>11, <1>12, <1>13, OneHeeds
<1>15. Spares(fut, fut', stack)
  <2> SUFFICES ASSUME NEW i \in 1 .. Len(stack), Calls(stack[i])
               PROVE  Spare(fut.slots[stack[i].runSlot], fut'.slots[stack[i].runSlot])
    BY DEF Spares
  <2>1. stack[i].runSlot \in Slots
    BY Facts DEF Engaged, Occupied
  <2>2. CASE stack[i].runSlot = s
    BY <1>6, <1>11, <2>2 DEF Spare
  <2>3. CASE stack[i].runSlot # s
    BY <1>11, <2>1, <2>3 DEF Spare
  <2>4. QED
    BY <2>2, <2>3
<1>16. AllGo(fut, fut') /\ Respects(fut, fut') /\ waking \subseteq Ids
  BY <1>10, <1>14, FutureAssumption DEF Tends, Heeds, IInv, RestOK, Ids
<1>17. Woken(fut', ready', due')
  BY <1>2, <1>3, <1>16, WokenStay
<1>18. Fired(fut', firing', due')
  BY <1>1, <1>2, <1>6, <1>11 DEF Fired
<1>19. Waked(fut', waking')
  BY <1>2, <1>16, WakedStay DEF BInv
<1>20. BInv'
  BY <1>2, <1>10, <1>14, <1>15, <1>17, <1>18, <1>19, HeedBinds
<1>21. QED
  BY <1>3, <1>14, <1>20, DulyOrderly

\* The timer callback wakes its sleep.
LEMMA CallbackKeeps ==
    ASSUME IInv, AInv, BInv, sleep_timer_callback
    PROVE  BInv' /\ Orderly(fut, fut')
<1>1. /\ firing \in Slots /\ firing' = NoSlot /\ fut' = fut
      /\ ready' = IF fut.slots[firing].allocated THEN Offer(Token(fut, firing)) ELSE ready
      /\ UNCHANGED <<next, submissions, stack, due, waking, shutting_down>>
  BY DEF sleep_timer_callback, IInv, RestOK
<1>2. /\ fut \in World /\ Tracked(fut) /\ Owned(fut) /\ Minded(fut, next)
      /\ Woken(fut, ready, due) /\ ready \in Seq(TokenType)
  BY Facts
<1>3. Tends(fut, fut) /\ Heeds(fut, fut) /\ Duly(fut, fut) /\ Spares(fut, fut, stack)
  BY <1>2, TendsSame, DulySame, SameSpared
<1> DEFINE x == Token(fut, firing)
<1>4. /\ x \in TokenType /\ x.slot = firing /\ x.generation = fut.slots[firing].generation
      /\ x.generation <= fut.slots[firing].generation
  <2>1. fut.slots[firing].generation \in Nat
    BY <1>1, <1>2, WorldFields DEF SlotType
  <2>2. QED
    BY <1>1, <1>2, <2>1, TokenIs DEF Token
<1>5. firing # NoSlot
  BY <1>1, NumbersAre
<1>6. SameCore /\ fut.slots[firing].allocated => fut.slots[firing].seq \in due
  BY <1>5 DEF BInv, Fired
<1> HIDE DEF x
<1>7. Woken(fut, Offer(x), due)
  BY <1>2, <1>4, <1>6, WokenOffer
<1>8. Woken(fut', ready', due')
  BY <1>1, <1>2, <1>7 DEF x
<1>9. Fired(fut', firing', due') /\ Waked(fut', waking')
  BY <1>1 DEF BInv, Fired, Waked
<1>10. BInv'
  BY <1>1, <1>3, <1>8, <1>9, HeedBinds
<1>11. QED
  BY <1>1, <1>2, <1>3, <1>10, DulyOrderly

\* All of them.
LEMMA EnvironmentKeeps ==
    ASSUME IInv, AInv, BInv, Environment
    PROVE  BInv' /\ Orderly(fut, fut')
  BY PassesKeeps, CompletesKeeps, WakeKeeps, FiresKeeps, CallbackKeeps DEF Environment
-------------------------------------------------------------------------------
(* The teardown and the initial state. *)

\* What a pass of the teardown does with a slot it may not clear.
LEMMA MarkedAlters ==
    ASSUME NEW a \in SlotType, Sane(a), a.allocated, a.driver_active, a.state # "queued",
           a.state \notin Terminal, NEW answer
    PROVE  Alters(a, [a EXCEPT !.state = IF answer = "cancelled" THEN "cancelled" ELSE @,
                               !.cancel_requested = (answer = "requested")])
<1> DEFINE state == IF answer = "cancelled" THEN "cancelled" ELSE a.state
           asked == answer = "requested"
           b == [a EXCEPT !.state = state, !.cancel_requested = asked]
<1>1. state = a.state \/ state = "cancelled"
  OBVIOUS
<1>2. b = [a EXCEPT !.state = IF answer = "cancelled" THEN "cancelled" ELSE @,
                    !.cancel_requested = (answer = "requested")]
  BY Zenon
<1> HIDE DEF state, asked
<1>3. /\ b.allocated = a.allocated /\ b.kind = a.kind /\ b.state = state /\ b.seq = a.seq
      /\ b.result = a.result /\ b.driver_active = a.driver_active /\ b.inputs = a.inputs
      /\ b.driver_started = a.driver_started /\ b.deadline = a.deadline
  BY DEF SlotType
<1> HIDE DEF b
<1>4. state # "queued" /\ state # "fulfilled"
  BY <1>1 DEF Terminal
<1>5. a.driver_started
  BY DEF Sane
<1>6. Sane(b)
  BY <1>3, <1>4, <1>5 DEF Sane
<1>7. Alters(a, b)
  BY <1>3, <1>6 DEF Alters
<1>8. QED
  BY <1>2, <1>7

\* The teardown.
LEMMA TeardownKeeps ==
    ASSUME IInv, AInv, BInv, IInv', prepare_future_runtime_destroy
    PROVE  BInv' /\ Orderly(fut, fut')
<1> DEFINE gone == {s \in Slots : fut.slots[s].allocated /\ TornDown(fut.slots[s])}
           Pass(s, answer) ==
                LET slot == fut.slots[s] IN
                IF s \in gone THEN EmptySlot(slot.generation)
                ELSE IF slot.driver_active /\ slot.state \notin Terminal
                        /\ ~slot.cancel_requested
                THEN [slot EXCEPT
                        !.state = IF answer[s] = "cancelled" THEN "cancelled" ELSE @,
                        !.cancel_requested = (answer[s] = "requested")]
                ELSE slot
           native == [f \in Ids |->
                     IF \E s \in gone : fut.slots[s].driver_active /\ fut.slots[s].seq = f
                     THEN "destroyed" ELSE fut.native[f]]
<1>0. fut \in World /\ fut' \in World /\ submissions \in Seq(TokenType) /\ waking \subseteq Ids
  BY FutureAssumption DEF IInv, QueuesOK, RestOK, Ids
<1>00. /\ Tracked(fut) /\ Owned(fut) /\ Minded(fut, next) /\ Engaged(fut, stack)
       /\ StackOK(stack) /\ Woken(fut, ready, due) /\ ready \in Seq(TokenType)
       /\ \A s \in Slots : fut.slots[s] \in SlotType /\ Sane(fut.slots[s])
                           /\ NamedSlot(fut.slots[s])
  BY Facts
<1>1. PICK answer : fut' = [fut EXCEPT !.slots = [s \in Slots |-> Pass(s, answer)],
                                       !.native = native]
  BY Zenon DEF prepare_future_runtime_destroy
<1>2. /\ shutting_down' = TRUE /\ UNCHANGED <<next, submissions, ready, stack, due, waking, firing>>
      /\ Len(stack) = 1 /\ Top.phase = "js" /\ (SameCore => firing = NoSlot)
  BY DEF prepare_future_runtime_destroy, RuntimeRuns
<1> DEFINE slots == [s \in Slots |-> Pass(s, answer)]
<1>3. ASSUME NEW s \in Slots PROVE Alters(fut.slots[s], slots[s])
  <2> DEFINE a == fut.slots[s]
             c == answer[s]
             b == [a EXCEPT !.state = IF c = "cancelled" THEN "cancelled" ELSE @,
                            !.cancel_requested = (c = "requested")]
  <2>1. a \in SlotType /\ Sane(a) /\ NamedSlot(a)
    BY <1>00
  <2>2. \/ slots[s] = EmptySlot(a.generation)
        \/ slots[s] = a
        \/ slots[s] = b /\ a.state \notin Terminal /\ a.driver_active /\ s \notin gone
    BY Zenon
  <2>3. s \notin gone => ~a.allocated \/ ~TornDown(a)
    OBVIOUS
  <2> HIDE DEF slots, c, gone
  <2>4. Alters(a, EmptySlot(a.generation))
    BY <2>1, EmptySane DEF Changes
  <2>5. Alters(a, a)
    BY <2>1 DEF Alters
  <2>6. a.state \notin Terminal /\ a.driver_active /\ s \notin gone => Alters(a, b)
    <3> SUFFICES ASSUME a.state \notin Terminal, a.driver_active, s \notin gone
                 PROVE  Alters(a, b)
      OBVIOUS
    <3>1. a.allocated /\ a.state # "queued"
      BY <2>1, <2>3 DEF NamedSlot, TornDown
    <3>2. QED
      BY <2>1, <3>1, MarkedAlters
  <2> HIDE DEF b
  <2>7. QED
    BY <2>2, <2>4, <2>5, <2>6
<1>4. fut' = [fut EXCEPT !.slots = slots, !.native = native]
  BY <1>1
<1> DEFINE Cleared(f) == \E s \in gone : fut.slots[s].driver_active /\ fut.slots[s].seq = f
<1>a. \A f \in Ids : native[f] = IF Cleared(f) THEN "destroyed" ELSE fut.native[f]
  OBVIOUS
<1>b. ASSUME NEW f \in Ids, Cleared(f) PROVE fut.native[f] # "none"
  <2>1. PICK s \in Slots : fut.slots[s].driver_active /\ fut.slots[s].seq = f
    BY <1>b
  <2>2. QED
    BY <1>00, <2>1 DEF Owned, Driven
<1> HIDE DEF slots, native, gone, Cleared
<1>5. \A f \in Ids : \/ native[f] = fut.native[f]
                     \/ native[f] = "destroyed" /\ fut.native[f] # "none"
  BY <1>a, <1>b
<1>6. fut'.slots = slots /\ fut'.handles = fut.handles /\ fut'.native = native
  BY <1>0, <1>4 DEF World
<1>7. AllGo(fut, fut')
  <2>1. ASSUME NEW s \in Slots PROVE Goes(fut.slots[s], fut'.slots[s])
    <3>1. fut.slots[s] \in SlotType
      BY <1>00
    <3> DEFINE a == fut.slots[s]
               c == answer[s]
               b == [a EXCEPT !.state = IF c = "cancelled" THEN "cancelled" ELSE @,
                              !.cancel_requested = (c = "requested")]
    <3>2. \/ slots[s] = EmptySlot(a.generation)
          \/ slots[s] = a
          \/ slots[s] = b /\ a.state \notin Terminal
      BY Zenon DEF slots, gone
    <3> HIDE DEF c
    <3>3. Goes(a, EmptySlot(a.generation)) /\ Goes(a, a)
      BY <3>1, EmptyGoes DEF Goes
    <3>4. a.state \notin Terminal => Goes(a, b)
      BY <3>1, MarkedGoes, Zenon
    <3> HIDE DEF b
    <3>5. QED
      BY <1>6, <3>2, <3>3, <3>4
  <2>2. QED
    BY <2>1 DEF AllGo
<1>8. Respects(fut, fut')
  <2>1. \A s \in Slots : Alters(fut.slots[s], fut'.slots[s])
    BY <1>3, <1>6
  <2>2. \A f \in Ids : Remains(fut.handles[f], fut'.handles[f], f)
    BY <1>00, <1>6 DEF Remains, Minded
  <2>3. \A f \in Ids : fut'.native[f] = "none" <=> fut.native[f] = "none"
    BY <1>5, <1>6
  <2>4. QED
    BY <1>6, <2>1, <2>2, <2>3 DEF Respects
<1>9. Minded(fut', next')
  BY <1>0, <1>00, <1>2, <1>7, <1>8, HeedsMinded
<1>10. Engaged(fut', stack')
  <2>1. \A i \in 1 .. Len(stack) : ~Calls(stack[i])
    BY <1>2 DEF Top, Calls
  <2>2. QED
    BY <1>2, <1>8, <1>00, <2>1, AwaitedWas DEF Engaged
<1>11. Woken(fut', ready', due')
  BY <1>0, <1>00, <1>2, <1>7, <1>8, WokenStay
<1>12. Fired(fut', firing', due') /\ (shutting_down' \/ Elder(fut'))
  BY <1>2 DEF Fired
<1>13. Waked(fut', waking')
  BY <1>0, <1>2, <1>8, WakedStay DEF BInv
<1>14. Ordered(fut', submissions')
  BY <1>0, <1>2, <1>7, OrderedStay DEF BInv
<1>15. BInv'
  BY <1>9, <1>10, <1>11, <1>12, <1>13, <1>14, Binds
<1>16. Rightly(fut, fut')
  BY <1>00, <1>6, SameRightly
<1>17. Unstarted(fut, fut')
  BY <1>5, <1>6 DEF Unstarted
<1>18. QED
  BY <1>0, <1>00, <1>15, <1>16, <1>17, DulyOrderly DEF Duly

\* In the initial state nothing is waited for.
LEMMA StartKeeps == ASSUME Init PROVE BInv
<1>1. /\ fut = [slots |-> [s \in Slots |-> EmptySlot(0)],
                handles |-> [f \in Ids |-> NoHandle], native |-> [f \in Ids |-> "none"]]
      /\ submissions = <<>> /\ ready = <<>> /\ stack = <<Frame("js", 0, FALSE)>> /\ next = 0
      /\ waking = {} /\ firing = NoSlot
  BY DEF Init
<1>2. /\ fut.slots = [s \in Slots |-> EmptySlot(0)] /\ fut.handles = [f \in Ids |-> NoHandle]
  BY <1>1
<1>3. \A s \in Slots : fut.slots[s] = EmptySlot(0)
  BY <1>2
<1>4. LET e == EmptySlot(0) IN
      /\ e.result = 0 /\ e.seq = 0 /\ ~e.allocated /\ e.generation = 0 /\ ~e.driver_active
      /\ ~e.deadline /\ ~e.cancel_requested /\ e.state = "queued" /\ e.inputs = <<>>
  BY DEF EmptySlot
<1>5. Sane(EmptySlot(0))
  BY <1>4 DEF Sane
<1>6. \A f \in Ids : ~fut.handles[f].alive /\ fut.handles[f].by = 0
  BY <1>2 DEF NoHandle
<1>7. \A f \in Ids : ~Awaited(fut, f)
  BY <1>3, <1>4 DEF Awaited
<1>8. \A s \in Slots : ~fut.slots[s].allocated /\ Sane(fut.slots[s])
  BY <1>3, <1>4, <1>5
<1>9. Minded(fut, next)
  BY <1>6, <1>7, <1>8 DEF Minded
<1>10. Len(stack) = 1 /\ ~Calls(stack[1]) /\ ~stack[1].sync
  BY <1>1 DEF Frame, Calls
<1>11. Engaged(fut, stack)
  BY <1>10 DEF Engaged
<1>12. Woken(fut, ready, due) /\ Ordered(fut, submissions)
  BY <1>1 DEF Woken, Ordered
<1>13. Fired(fut, firing, due) /\ Waked(fut, waking) /\ Elder(fut)
  BY <1>1, <1>8 DEF Fired, Waked, Elder
<1>14. QED
  BY <1>9, <1>11, <1>12, <1>13 DEF BInv

\* Every step keeps the invariant, ends Futures rightly and lanes in order.
LEMMA StepKeeps ==
    ASSUME IInv, AInv, BInv, ~CancelOnStack, [Next]_vars
    PROVE  BInv' /\ Orderly(fut, fut')
<1>0. IInv'
  BY Steps DEF StepOK
<1>1. fut \in World /\ Owned(fut)
  BY DEF IInv
<1>2. CASE \/ js_future_call \/ CallDriver \/ js_future_sleep \/ capture_call_driver
           \/ future_call_and_wait \/ js_future_timeout
           \/ \E kind \in {"all", "race"} : future_make_combinator(kind)
           \/ \E kind \in {"map", "flatMap"} : future_make_continuation(kind)
  BY <1>2, CallKeeps, CaptureFailsKeeps, CallAndWaitKeeps, InputKeeps
<1>3. CASE js_future_cancel \/ js_future_finalizer \/ js_future_wait \/ WaitReturns
  BY <1>1, <1>3, CancelKeeps, ObjectKeeps, DulyOrderly
<1>4. CASE Poll
  <2>1. CASE DispatchStep \/ dispatch_waiting_lanes
    BY <2>1, DispatchKeeps, LaneKeeps
  <2>2. CASE \/ expire_deadlines \/ advance_sleep_deadlines \/ ReadyStep \/ poll_active_drivers
             \/ advance_combinators \/ CallReturns \/ ContinuationReturns \/ PollEnds
    <3>1. BInv' /\ Duly(fut, fut')
      BY <2>2, DeadlineKeeps, ReadyKeeps, ActiveKeeps, CombineKeeps, CallReturnKeeps,
         ContinuationReturnKeeps, PollEndKeeps
    <3>2. QED
      BY <1>1, <3>1, DulyOrderly
  <2>3. QED
    BY <1>4, <2>1, <2>2 DEF Poll
<1>5. CASE Environment
  BY <1>5, EnvironmentKeeps
<1>6. CASE prepare_future_runtime_destroy
  BY <1>0, <1>6, TeardownKeeps
<1>7. CASE UNCHANGED vars
  <2>1. UNCHANGED <<fut, next, submissions, ready, stack, due, waking, firing, shutting_down>>
    BY <1>7 DEF vars
  <2>2. BInv'
    <3>1. BInv
      OBVIOUS
    <3>2. /\ Minded(fut', next') /\ Engaged(fut', stack') /\ Woken(fut', ready', due')
          /\ Fired(fut', firing', due') /\ Waked(fut', waking') /\ Ordered(fut', submissions')
          /\ shutting_down' \/ Elder(fut')
      BY <2>1 DEF BInv
    <3>3. QED
      BY <3>2, Binds
  <2>3. Duly(fut, fut')
    BY <2>1, Facts, DulySame
  <2>4. QED
    BY <1>1, <2>2, <2>3, DulyOrderly
<1>8. QED
  BY <1>2, <1>3, <1>4, <1>5, <1>6, <1>7 DEF Next, Finished, JavaScript

\* A Future is settled by its own operation, called once and never lost.
THEOREM CallsAreSafe == ~CancelOnStack => (Spec => []CallsSafe)
<1> SUFFICES ASSUME ~CancelOnStack PROVE Spec => []CallsSafe
  OBVIOUS
<1>1. Init => IInv /\ AInv /\ BInv
  BY Start, StartFits, StartKeeps
<1>2. IInv /\ AInv /\ BInv /\ [Next]_vars => IInv' /\ AInv' /\ BInv'
  BY Steps, StepFits, StepKeeps DEF StepOK
<1>3. IInv /\ AInv /\ BInv => CallsSafe
  <2> SUFFICES ASSUME IInv, AInv, BInv PROVE CallsSafe
    OBVIOUS
  <2>1. NothingLost
    BY LosesNothing
  <2>2. CalledOnce
    BY DEF AInv, Fit, Runs, CalledOnce
  <2>3. SettledByOwn
    BY DEF BInv, Minded, SettledByOwn
  <2>4. QED
    BY <2>1, <2>2, <2>3 DEF CallsSafe
<1>4. QED
  BY <1>1, <1>2, <1>3, PTL DEF Spec

\* Lanes start in order and an accepted cancellation is honoured.
THEOREM DriversInOrder == ~CancelOnStack => (Spec => DriverSteps)
<1> SUFFICES ASSUME ~CancelOnStack PROVE Spec => DriverSteps
  OBVIOUS
<1>1. Init => IInv /\ AInv /\ BInv
  BY Start, StartFits, StartKeeps
<1>2. IInv /\ AInv /\ BInv /\ [Next]_vars => IInv' /\ AInv' /\ BInv'
  BY Steps, StepFits, StepKeeps DEF StepOK
<1>3. IInv /\ AInv /\ BInv /\ [Next]_vars
      => [\A s, t \in Slots :
            /\ fut.slots[s].driver_active /\ fut.slots[t].driver_active
            /\ fut.slots[s].key = fut.slots[t].key /\ fut.slots[s].key # NoKey
            /\ fut.native[fut.slots[s].seq] = "captured"
            /\ fut.native[fut.slots[t].seq] = "captured"
            /\ fut'.native[fut.slots[t].seq] = "running"
            => fut.slots[t].seq <= fut.slots[s].seq]_vars
  <2> SUFFICES ASSUME IInv, AInv, BInv, [Next]_vars
               PROVE  [\A s, t \in Slots :
                        /\ fut.slots[s].driver_active /\ fut.slots[t].driver_active
                        /\ fut.slots[s].key = fut.slots[t].key /\ fut.slots[s].key # NoKey
                        /\ fut.native[fut.slots[s].seq] = "captured"
                        /\ fut.native[fut.slots[t].seq] = "captured"
                        /\ fut'.native[fut.slots[t].seq] = "running"
                        => fut.slots[t].seq <= fut.slots[s].seq]_vars
    OBVIOUS
  <2>1. Orderly(fut, fut')
    BY StepKeeps
  <2>2. QED
    BY <2>1 DEF Orderly, Fifo
<1>4. IInv /\ AInv /\ BInv /\ [Next]_vars
      => [\A s \in Slots :
            LET f == fut.slots[s].seq IN
            /\ fut.slots[s].allocated /\ fut.slots[s].cancel_requested
            /\ fut.slots[s].state = "pending" /\ fut.slots[s].handle
            /\ fut'.handles[f].terminal
            => fut'.handles[f].state = "cancelled" \/ f \in due]_vars
  <2> SUFFICES ASSUME IInv, AInv, BInv, [Next]_vars
               PROVE  \A s \in Slots :
                        LET f == fut.slots[s].seq IN
                        /\ fut.slots[s].allocated /\ fut.slots[s].cancel_requested
                        /\ fut.slots[s].state = "pending" /\ fut.slots[s].handle
                        /\ fut'.handles[f].terminal
                        => fut'.handles[f].state = "cancelled" \/ f \in due
    OBVIOUS
  <2>1. Orderly(fut, fut')
    BY StepKeeps
  <2>2. QED
    BY <2>1 DEF Orderly, Rightly, Apt
<1>5. QED
  BY <1>1, <1>2, <1>3, <1>4, PTL DEF Spec, DriverSteps, LaneFifo, CancelHonoured

\* No submission is refused, and on one core no sleep is over before its time.
THEOREM CallsInTime == ~CancelOnStack /\ SameCore => (Spec => CallSteps)
<1> SUFFICES ASSUME ~CancelOnStack, SameCore PROVE Spec => CallSteps
  OBVIOUS
<1>1. Init => IInv /\ AInv /\ BInv
  BY Start, StartFits, StartKeeps
<1>2. IInv /\ AInv /\ BInv /\ [Next]_vars => IInv' /\ AInv' /\ BInv'
  BY Steps, StepFits, StepKeeps DEF StepOK
<1>3. IInv /\ AInv /\ [Next]_vars => [next' # next => fut'.handles[next'].alive]_vars
  BY StepFits
<1>4. IInv /\ AInv /\ BInv /\ [Next]_vars
      => [\A s \in Slots :
            LET f == fut.slots[s].seq IN
            /\ fut.slots[s].allocated /\ fut.slots[s].kind = "sleep"
            /\ fut.slots[s].handle /\ fut'.handles[f].terminal
            => fut'.handles[f].state # "fulfilled" \/ f \in due]_vars
  <2> SUFFICES ASSUME IInv, AInv, BInv, [Next]_vars
               PROVE  \A s \in Slots :
                        LET f == fut.slots[s].seq IN
                        /\ fut.slots[s].allocated /\ fut.slots[s].kind = "sleep"
                        /\ fut.slots[s].handle /\ fut'.handles[f].terminal
                        => fut'.handles[f].state # "fulfilled" \/ f \in due
    OBVIOUS
  <2>1. Orderly(fut, fut')
    BY StepKeeps
  <2>2. QED
    BY <2>1 DEF Orderly, Rightly, Apt
<1>5. QED
  BY <1>1, <1>2, <1>3, <1>4, PTL DEF Spec, CallSteps, SubmitAccepted, SleepNotEarly
===============================================================================
