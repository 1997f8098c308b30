--------------------------- MODULE FutureScheduler ---------------------------
(***************************************************************************)
(* The Future scheduler (future.c, future_scheduler.c): a fixed table of   *)
(* slots, a queue of submissions, a bounded queue of wake tokens, native   *)
(* drivers in FIFO lanes, combinators, JavaScript callables, deadlines and *)
(* the teardown of the runtime.                                            *)
(*                                                                         *)
(* A Future is named by its submission_sequence.  The runtime task is the  *)
(* only one that touches slots; it is a stack of future_poll activations,  *)
(* because a callable or a callback may wait() and so poll again.  Beside  *)
(* it run the native operations and the esp_timer task.                    *)
(***************************************************************************)
EXTENDS Naturals, Sequences, FiniteSets

CONSTANTS
    UserSlots,     \* CONFIG_ESP32_MQUICKJS_MAX_FUTURES
    Reserve,       \* CONFIG_ESP32_MQUICKJS_INTERNAL_FUTURE_RESERVE
    Keys,          \* the resource keys of the drivers
    NoKey,         \* NULL, the key of a driver without a lane
    LaneLimit,     \* CONFIG_ESP32_MQUICKJS_FUTURE_RESOURCE_LANE_QUEUE_LEN
    ReadyLen,      \* CONFIG_ESP32_MQUICKJS_FUTURE_READY_QUEUE_LEN
    DispatchBatch, ReadyBatch,
    Kinds,         \* the kinds of Future JavaScript creates in this instance
    MaxFutures,    \* bound: Futures created in a behaviour
    MaxDepth,      \* bound: nested activations of future_poll
    CancelOnStack, \* may a Future be settled while its callable is running?
    SameCore       \* does the esp_timer task share the runtime task's core?

ASSUME FutureAssumption ==
    /\ UserSlots \in Nat \ {0} /\ Reserve \in Nat
    /\ {LaneLimit, ReadyLen, MaxFutures} \subseteq Nat
    /\ {DispatchBatch, ReadyBatch, MaxDepth} \subseteq Nat \ {0}
    /\ CancelOnStack \in BOOLEAN /\ SameCore \in BOOLEAN

VARIABLES
    fut,          \* [slots, handles, native]: what the C functions update
    next,         \* next_submission_sequence
    submissions,  \* queue of tokens, as long as the table
    ready,        \* queue of wake tokens
    stack,        \* activations of future_poll, innermost last
    due,          \* Futures whose deadline_us has passed
    waking,       \* operations that completed and have yet to call future_wake
    firing,       \* slot whose sleep timer callback is executing, or NoSlot
    shutting_down,
    closed        \* teardown finished, the tables are freed

vars == <<fut, next, submissions, ready, stack, due, waking, firing,
          shutting_down, closed>>

Slots == 0 .. UserSlots + Reserve - 1
NoSlot == UserSlots + Reserve
Ids == 1 .. MaxFutures
Terminal == {"fulfilled", "rejected", "cancelled"}
States == {"queued", "pending"} \union Terminal
AllKinds == {"call", "driver", "js_call", "sleep", "all", "race", "timeout",
             "map", "flatMap"}
CancelResults == {"rejected", "requested", "cancelled"}
NativeStates == {"none", "captured", "running", "done", "destroyed"}

Least(S) == CHOOSE x \in S : \A y \in S : x <= y
-------------------------------------------------------------------------------
(* Slots and handles. *)

\* A cleared slot: memset, but slot_id and generation survive.
EmptySlot(g) ==
    [allocated |-> FALSE, generation |-> g, seq |-> 0, kind |-> "call",
     state |-> "queued", result |-> 0, call_refs |-> FALSE, inputs |-> <<>>,
     driver_active |-> FALSE, driver_started |-> FALSE,
     lane_waiting |-> FALSE, cancel_requested |-> FALSE, key |-> NoKey,
     timer |-> "none", deadline |-> FALSE, handle |-> FALSE,
     running |-> FALSE, called |-> FALSE]

\* The JavaScript object.  `by' is history: whose operation made the result.
NoHandle == [slot |-> NoSlot, generation |-> 0, alive |-> FALSE,
             terminal |-> FALSE, state |-> "queued", by |-> 0]

Token(w, s) == [slot |-> s, generation |-> w.slots[s].generation]

\* Mutation: a token is matched by its slot only.
ResolveToken_anygen(w, t) == IF w.slots[t.slot].allocated THEN t.slot ELSE NoSlot

ResolveToken(w, t) ==
    IF /\ w.slots[t.slot].allocated
       /\ w.slots[t.slot].generation = t.generation
    THEN t.slot ELSE NoSlot

HandleSlot(w, f) ==
    IF w.handles[f].terminal \/ w.handles[f].slot = NoSlot THEN NoSlot
    ELSE ResolveToken(w, [slot |-> w.handles[f].slot,
                          generation |-> w.handles[f].generation])

HandleState(w, f) ==
    IF w.handles[f].terminal THEN w.handles[f].state
    ELSE IF HandleSlot(w, f) # NoSlot THEN w.slots[HandleSlot(w, f)].state
    ELSE "cancelled"

\* The world with another slot s.
Put(w, s, slot) == [w EXCEPT !.slots[s] = slot]

DestroyDriver(w, s) ==
    IF ~w.slots[s].driver_active THEN w
    ELSE [Put(w, s, [w.slots[s] EXCEPT !.driver_active = FALSE, !.driver_started = FALSE,
                                       !.lane_waiting = FALSE, !.key = NoKey])
          EXCEPT !.native[w.slots[s].seq] = "destroyed"]

ClearSlot(w, s) == Put(DestroyDriver(w, s), s, EmptySlot(w.slots[s].generation))

ReleaseIfTerminal(w, s) ==
    IF /\ w.slots[s].allocated
       /\ w.slots[s].state \in Terminal
       /\ ~w.slots[s].driver_active
    THEN ClearSlot(w, s) ELSE w

PublishTerminal(w, s) ==
    LET slot == w.slots[s] IN
    IF slot.allocated /\ slot.state \in Terminal /\ slot.handle
    THEN [Put(w, s, [slot EXCEPT !.handle = FALSE]) EXCEPT
            !.handles[slot.seq] = [@ EXCEPT !.terminal = TRUE, !.state = slot.state,
                                            !.by = slot.result]]
    ELSE w

\* future_settle: store the result, move it to the handle, free the slot.
Settle(w, s, state, by) ==
    IF ~w.slots[s].allocated \/ w.slots[s].state \in Terminal THEN w
    ELSE LET stored == IF state = "cancelled" THEN w.slots[s].result ELSE by
             settled == Put(w, s, [w.slots[s] EXCEPT !.state = state, !.result = stored,
                                                     !.call_refs = FALSE, !.inputs = <<>>,
                                                     !.timer = "none"])
         IN ReleaseIfTerminal(PublishTerminal(settled, s), s)

\* Reject slot s, then drop its driver: the error paths of a dispatch.
RejectAndDestroy(w, s) ==
    ReleaseIfTerminal(DestroyDriver(Settle(w, s, "rejected", w.slots[s].seq), s), s)

\* `answer' is what the driver's cancel hook returns (rejected if it has none).
CancelSlot(w, s, answer) ==
    LET slot == w.slots[s] IN
    IF slot.state \in Terminal THEN w
    ELSE IF slot.state = "queued"
    THEN Settle(DestroyDriver(w, s), s, "cancelled", 0)
    ELSE IF slot.driver_active /\ (slot.cancel_requested \/ answer = "rejected")
    THEN w
    ELSE IF slot.driver_active /\ answer = "requested"
    THEN Put(w, s, [slot EXCEPT !.cancel_requested = TRUE])
    ELSE Settle(w, s, "cancelled", 0)

CopyTerminal(w, s, source) ==
    IF HandleState(w, source) \in Terminal
    THEN Settle(w, s, HandleState(w, source), w.slots[s].seq) ELSE w
-------------------------------------------------------------------------------
(* Lanes: at most one started driver per resource key, in FIFO order. *)

LanePeers(w, s) == {p \in Slots \ {s} : /\ w.slots[p].allocated
                                        /\ w.slots[p].driver_active
                                        /\ w.slots[p].key = w.slots[s].key}

LaneInUse(w, s) ==
    w.slots[s].key # NoKey /\ \E p \in LanePeers(w, s) : w.slots[p].driver_started

LaneWaiters(w, s) ==
    IF w.slots[s].key = NoKey THEN 0
    ELSE Cardinality({p \in LanePeers(w, s) : w.slots[p].lane_waiting})

\* Mutation: the started driver of a settled Future is not seen.
LaneAdmission_settled(w, s) ==
    IF /\ \A p \in LanePeers(w, s) : w.slots[p].state # "pending"
       /\ LaneWaiters(w, s) = 0
    THEN "start"
    ELSE IF LaneWaiters(w, s) >= LaneLimit THEN "reject" ELSE "wait"

LaneAdmission(w, s) ==
    IF ~LaneInUse(w, s) /\ LaneWaiters(w, s) = 0 THEN "start"
    ELSE IF LaneWaiters(w, s) >= LaneLimit THEN "reject" ELSE "wait"

Waiting(w) == {s \in Slots : /\ w.slots[s].allocated
                             /\ w.slots[s].driver_active
                             /\ w.slots[s].lane_waiting
                             /\ ~LaneInUse(w, s)}

NextWaiting(w) ==
    IF Waiting(w) = {} THEN NoSlot
    ELSE CHOOSE s \in Waiting(w) :
           \A p \in Waiting(w) : w.slots[s].seq <= w.slots[p].seq

\* driver->start may refuse; then nothing runs and the Future is rejected.
StartDriver(w, s, ok) ==
    LET started == Put(w, s, [w.slots[s] EXCEPT !.lane_waiting = FALSE,
                                                !.driver_started = TRUE,
                                                !.state = "pending"])
    IN IF ok THEN [started EXCEPT !.native[w.slots[s].seq] = "running"]
       ELSE RejectAndDestroy(started, s)
-------------------------------------------------------------------------------
(* The runtime task: who may act. *)

Frame(phase, wait, sync) ==
    [phase |-> phase, n |-> 0, now |-> {}, wait |-> wait, sync |-> sync,
     run |-> 0, runSlot |-> NoSlot]

Top == stack[Len(stack)]
SetTop(frame) == stack' = [stack EXCEPT ![Len(stack)] = frame]
Push(frame) == stack' = Append(stack, frame)

\* On one core the esp_timer task outranks the runtime task.
RuntimeRuns == ~closed /\ (SameCore => firing = NoSlot)
\* JavaScript runs in a callback, in a callable or in a continuation.
JsRuns == RuntimeRuns /\ ~shutting_down /\ Top.phase \in {"js", "call", "cont"}

OnStack(f) == \E i \in 1 .. Len(stack) : stack[i].run = f

\* JavaScript has the object; that of a synchronous method stays inside.
Visible(f) ==
    fut.handles[f].alive /\ \A i \in 1 .. Len(stack) : stack[i].sync => stack[i].wait # f

\* future_this_handle accepts the object.
Usable(f) ==
    Visible(f) /\ (fut.handles[f].terminal \/ HandleSlot(fut, f) # NoSlot)
-------------------------------------------------------------------------------
(* Submission. *)

Free(w, S) == {s \in S : ~w.slots[s].allocated}
UserTable == 0 .. UserSlots - 1

\* Internal callers try their reserve before the user's slots.
FindFree(internal) ==
    LET own == IF internal THEN Free(fut, Slots \ UserTable) ELSE {}
        all == IF own # {} THEN own ELSE Free(fut, UserTable)
    IN IF all = {} THEN NoSlot ELSE Least(all)

\* Allocation writes these fields and leaves the others as clearing left them.
AllocateSlot(s, kind, key, deadline, inputs) ==
    [Put(fut, s, [fut.slots[s] EXCEPT
            !.allocated = TRUE, !.generation = @ + 1, !.seq = next + 1, !.kind = kind,
            !.state = "queued", !.deadline = deadline, !.inputs = inputs, !.key = key,
            !.handle = TRUE, !.call_refs = (kind \in {"call", "map", "flatMap"}),
            !.driver_active = (kind = "driver")])
     EXCEPT
        !.handles[next + 1] = [slot |-> s, alive |-> TRUE, terminal |-> FALSE,
                               generation |-> fut.slots[s].generation + 1,
                               state |-> "queued", by |-> 0],
        !.native[next + 1] = IF kind = "driver" THEN "captured" ELSE "none"]

Capacity == Cardinality(Slots)

\* What is left of q at the positions S: the k-th of them is the one with k
\* positions up to it.
Position(S, k) == CHOOSE i \in S : Cardinality({j \in S : j <= i}) = k
Compact(q, S) == [k \in 1 .. Cardinality(S) |-> q[Position(S, k)]]

\* When the queue is full the tokens of Futures that are gone are dropped.
Enqueue(w, token) ==
    LET queued == {i \in DOMAIN submissions :
                      /\ ResolveToken(w, submissions[i]) # NoSlot
                      /\ w.slots[submissions[i].slot].state = "queued"}
        kept == IF Len(submissions) < Capacity THEN submissions
                ELSE Compact(submissions, queued)
    IN IF Len(kept) < Capacity THEN Append(kept, token) ELSE kept

\* Create a Future; a submission that does not fit is taken back.
Submit(kind, key, deadline, inputs, internal) ==
    LET s == FindFree(internal)
        w == AllocateSlot(s, kind, key, deadline, inputs)
        q == Enqueue(w, Token(w, s))
        sent == \E i \in 1 .. Len(q) : q[i] = Token(w, s)
    IN /\ next < MaxFutures
       /\ s # NoSlot
       /\ next' = next + 1
       /\ submissions' = q
       /\ fut' = IF sent THEN w
                 ELSE ClearSlot([w EXCEPT !.handles[next + 1].alive = FALSE], s)

\* A JavaScript call has a deadline if it was made under a scoped one.
ScopedDeadline == CancelOnStack

\* Future.call of a JavaScript function.
js_future_call ==
    /\ JsRuns /\ "call" \in Kinds
    /\ Submit("call", NoKey, ScopedDeadline, <<>>, FALSE)
    /\ UNCHANGED <<ready, stack, due, waking, firing, shutting_down, closed>>

\* Future.call of a native method: its driver captures the arguments.
CallDriver ==
    /\ JsRuns /\ "driver" \in Kinds
    /\ \E k \in Keys : Submit("driver", k, TRUE, <<>>, FALSE)
    /\ UNCHANGED <<ready, stack, due, waking, firing, shutting_down, closed>>

\* The capture fails: the Future is rejected before it is ever submitted.
capture_call_driver ==
    LET s == FindFree(FALSE) IN
    /\ JsRuns /\ "driver" \in Kinds
    /\ next < MaxFutures /\ s # NoSlot
    /\ next' = next + 1
    /\ fut' = Settle(AllocateSlot(s, "call", NoKey, FALSE, <<>>), s,
                     "rejected", next + 1)
    /\ UNCHANGED <<submissions, ready, stack, due, waking, firing,
                   shutting_down, closed>>

\* A synchronous native method: an internal Future, waited for at once.
future_call_and_wait ==
    /\ JsRuns /\ "driver" \in Kinds /\ Len(stack) < MaxDepth
    /\ \E k \in Keys : Submit("driver", k, FALSE, <<>>, TRUE)
    /\ Push(Frame("js", next + 1, TRUE))
    /\ UNCHANGED <<ready, due, waking, firing, shutting_down, closed>>

js_future_sleep ==
    /\ JsRuns /\ "sleep" \in Kinds
    /\ Submit("sleep", NoKey, TRUE, <<>>, FALSE)
    /\ UNCHANGED <<ready, stack, due, waking, firing, shutting_down, closed>>

InputLists == {<<>>} \union {<<f>> : f \in Ids}
              \union {p \in Ids \X Ids : p[1] # p[2]}

\* Future.all and Future.race.
future_make_combinator(kind) ==
    /\ JsRuns /\ kind \in Kinds \intersect {"all", "race"}
    /\ \E in \in InputLists :
         /\ kind = "race" => in # <<>>
         /\ \A i \in 1 .. Len(in) : Visible(in[i])
         /\ Submit(kind, NoKey, ScopedDeadline, in, FALSE)
    /\ UNCHANGED <<ready, stack, due, waking, firing, shutting_down, closed>>

\* Without CancelOnStack a timeout is put only on what cannot be running.
js_future_timeout ==
    /\ JsRuns /\ "timeout" \in Kinds
    /\ \E f \in Ids :
         /\ Visible(f)
         /\ \/ CancelOnStack \/ fut.handles[f].terminal
            \/ /\ HandleSlot(fut, f) # NoSlot
               /\ fut.slots[HandleSlot(fut, f)].kind \in {"sleep", "driver", "all", "race"}
         /\ Submit("timeout", NoKey, TRUE, <<f>>, FALSE)
    /\ UNCHANGED <<ready, stack, due, waking, firing, shutting_down, closed>>

\* future.map and future.flatMap.
future_make_continuation(kind) ==
    /\ JsRuns /\ kind \in Kinds \intersect {"map", "flatMap"}
    /\ \E f \in Ids : Usable(f) /\ Submit(kind, NoKey, ScopedDeadline, <<f>>, FALSE)
    /\ UNCHANGED <<ready, stack, due, waking, firing, shutting_down, closed>>

js_future_cancel ==
    /\ JsRuns
    /\ \E f \in Ids, answer \in CancelResults :
         /\ Usable(f) /\ HandleSlot(fut, f) # NoSlot
         /\ OnStack(f) => CancelOnStack
         /\ fut' = CancelSlot(fut, HandleSlot(fut, f), answer)
    /\ UNCHANGED <<next, submissions, ready, stack, due, waking, firing,
                   shutting_down, closed>>

\* Rooted handles: the inputs of a slot and what a wait holds.
Rooted(f) ==
    \/ \E s \in Slots : \E i \in 1 .. Len(fut.slots[s].inputs) : fut.slots[s].inputs[i] = f
    \/ \E i \in 1 .. Len(stack) : stack[i].wait = f

\* The handle is freed; slot and generation live on in tokens.
DropHandle(w, f) ==
    LET s == HandleSlot(w, f)
        dead == [w EXCEPT !.handles[f] = [@ EXCEPT !.alive = FALSE, !.terminal = FALSE,
                                            !.state = "queued", !.by = 0]]
    IN IF s # NoSlot /\ w.slots[s].handle
       THEN ReleaseIfTerminal(Put(dead, s, [w.slots[s] EXCEPT !.handle = FALSE]), s)
       ELSE dead

\* The garbage collector finalizes an object nobody refers to.
js_future_finalizer ==
    /\ JsRuns
    /\ \E f \in Ids : /\ fut.handles[f].alive /\ ~Rooted(f)
                      /\ fut' = DropHandle(fut, f)
    /\ UNCHANGED <<next, submissions, ready, stack, due, waking, firing,
                   shutting_down, closed>>

\* future.wait polls until its handle is terminal ...
js_future_wait ==
    /\ JsRuns /\ Len(stack) < MaxDepth
    /\ \E f \in Ids : /\ Usable(f) /\ ~fut.handles[f].terminal
                      /\ Push(Frame("js", f, FALSE))
    /\ UNCHANGED <<fut, next, submissions, ready, due, waking, firing,
                   shutting_down, closed>>

\* ... or its own timeout or a stop request ends the wait.  A synchronous
\* method then finalizes the handle itself.
WaitReturns ==
    /\ JsRuns /\ Top.phase = "js" /\ Len(stack) > 1
    /\ stack' = SubSeq(stack, 1, Len(stack) - 1)
    /\ fut' = IF Top.sync THEN DropHandle(fut, Top.wait) ELSE fut
    /\ UNCHANGED <<next, submissions, ready, due, waking, firing,
                   shutting_down, closed>>
-------------------------------------------------------------------------------
(* future_poll: phases in the order of the code, one step per slot or token. *)
(* A phase with nothing to do is passed without a step of its own.          *)

Phases == <<"js", "expire", "sleep", "dispatch", "ready", "active", "lanes", "combine">>
Rank(phase) == CHOOSE i \in 1 .. 8 : Phases[i] = phase

\* How far the loop of a phase got in this activation.
At(phase) == IF Top.phase = phase THEN Top.n ELSE 0
From(phase, S) == {s \in S : s >= At(phase)}

Expirable == {s \in Slots : /\ fut.slots[s].allocated
                            /\ fut.slots[s].state \notin Terminal
                            /\ fut.slots[s].kind \notin {"sleep", "timeout"}
                            /\ fut.slots[s].deadline /\ fut.slots[s].seq \in due}

\* Sleeps that are over.
Awake == {s \in Slots : /\ fut.slots[s].allocated
                        /\ fut.slots[s].state = "pending"
                        /\ fut.slots[s].kind = "sleep"
                        /\ fut.slots[s].seq \in due}

\* Started drivers whose poll says READY.
Completed == {s \in Slots : /\ fut.slots[s].allocated
                            /\ fut.slots[s].driver_active
                            /\ fut.slots[s].state # "queued"
                            /\ fut.native[fut.slots[s].seq] = "done"}

InputState(s, i) == HandleState(fut, fut.slots[s].inputs[i])
Inputs(s) == 1 .. Len(fut.slots[s].inputs)
Settled(s, i) == InputState(s, i) \in Terminal

\* now_us is read once, when the combinators' loop begins.
Now == IF Top.phase = "combine" THEN Top.now ELSE due

\* The first input that is not fulfilled decides; with none, all are.
advance_all(s) ==
    LET open == {i \in Inputs(s) : InputState(s, i) # "fulfilled"} IN
    IF open = {} THEN Settle(fut, s, "fulfilled", fut.slots[s].seq)
    ELSE CopyTerminal(fut, s, fut.slots[s].inputs[Least(open)])

advance_race(s) ==
    LET over == {i \in Inputs(s) : Settled(s, i)} IN
    IF over = {} THEN fut ELSE CopyTerminal(fut, s, fut.slots[s].inputs[Least(over)])

\* An expired timeout cancels its input and rejects itself.
advance_timeout(s, answer) ==
    LET input == fut.slots[s].inputs[1]
        in == HandleSlot(fut, input)
        w == IF in # NoSlot THEN CancelSlot(fut, in, answer) ELSE fut
    IN IF Settled(s, 1) THEN CopyTerminal(fut, s, input)
       ELSE IF fut.slots[s].seq \in Now
       THEN Settle(w, s, "rejected", fut.slots[s].seq) ELSE fut

\* Mutation: a callback that waits lets the continuation run twice.
RunsContinuation_twice(s) ==
    /\ fut.slots[s].kind \in {"map", "flatMap"}
    /\ InputState(s, 1) = "fulfilled"
    /\ ~fut.slots[s].called

RunsContinuation(s) ==
    /\ fut.slots[s].kind \in {"map", "flatMap"}
    /\ InputState(s, 1) = "fulfilled"
    /\ ~fut.slots[s].running /\ ~fut.slots[s].called

advance_continuation(s) ==
    IF InputState(s, 1) \in Terminal \ {"fulfilled"} \/ ~fut.slots[s].running
    THEN CopyTerminal(fut, s, fut.slots[s].inputs[1]) ELSE fut

Advance(s, answer) ==
    CASE fut.slots[s].kind = "all" -> advance_all(s)
      [] fut.slots[s].kind = "race" -> advance_race(s)
      [] fut.slots[s].kind = "timeout" -> advance_timeout(s, answer)
      [] OTHER -> advance_continuation(s)

\* Pending combinators that have something to do.
Combinators == {s \in Slots :
    /\ fut.slots[s].allocated /\ fut.slots[s].state = "pending"
    /\ fut.slots[s].kind \in {"all", "race", "timeout", "map", "flatMap"}
    /\ RunsContinuation(s) \/ Advance(s, "rejected") # fut}

HasWork(phase) ==
    CASE phase = "js" -> FALSE
      [] phase = "expire" -> From(phase, Expirable) # {}
      [] phase = "sleep" -> From(phase, Awake) # {}
      [] phase = "dispatch" -> At(phase) < DispatchBatch /\ submissions # <<>>
      [] phase = "ready" -> At(phase) < ReadyBatch /\ ready # <<>>
      [] phase = "active" -> From(phase, Completed) # {}
      [] phase = "lanes" -> At(phase) < DispatchBatch /\ NextWaiting(fut) # NoSlot
      [] phase = "combine" -> From(phase, Combinators) # {}

Polls == /\ RuntimeRuns /\ ~shutting_down
         /\ Top.phase \notin {"call", "cont"}
         /\ Top.phase = "js" /\ Top.wait # 0 => ~fut.handles[Top.wait].terminal

\* The activation on top of the stack has come to this phase.
Reaches(phase) ==
    /\ Polls /\ HasWork(phase)
    /\ \A i \in Rank(Top.phase) .. Rank(phase) - 1 : ~HasWork(Phases[i])

Move(phase, n) == SetTop([Top EXCEPT !.phase = phase, !.n = n])

\* Nothing is left to do: the loop around future_poll goes round.
PollEnds ==
    /\ Polls /\ Top.phase # "js"
    /\ \A i \in Rank(Top.phase) .. 8 : ~HasWork(Phases[i])
    /\ SetTop([Top EXCEPT !.phase = "js", !.n = 0, !.now = {}])
    /\ UNCHANGED <<fut, next, submissions, ready, due, waking, firing,
                   shutting_down, closed>>

\* A queued driver is dropped, a started one is asked to stop; the Future is
\* settled either way, by the driver's own timeout result if it has one.
Expire(w, s, answer, custom) ==
    LET slot == w.slots[s]
        asked == IF slot.driver_active /\ slot.state = "queued"
                 THEN DestroyDriver(w, s)
                 ELSE IF slot.driver_active /\ ~slot.cancel_requested
                         /\ answer = "requested"
                 THEN Put(w, s, [slot EXCEPT !.cancel_requested = TRUE])
                 ELSE w
    IN Settle(asked, s, IF slot.driver_active THEN custom ELSE "rejected", slot.seq)

expire_deadlines ==
    LET s == Least(From("expire", Expirable)) IN
    /\ Reaches("expire")
    /\ \E answer \in CancelResults, custom \in {"fulfilled", "rejected"} :
         fut' = Expire(fut, s, answer, custom)
    /\ Move("expire", s + 1)
    /\ UNCHANGED <<next, submissions, ready, due, waking, firing,
                   shutting_down, closed>>

advance_sleep_deadlines ==
    LET s == Least(From("sleep", Awake)) IN
    /\ Reaches("sleep")
    /\ fut' = Settle(fut, s, "fulfilled", fut.slots[s].seq)
    /\ Move("sleep", s + 1)
    /\ UNCHANGED <<next, submissions, ready, due, waking, firing,
                   shutting_down, closed>>

\* A native driver: start it, park it in its lane or reject it.
DispatchDriver(s) ==
    LET admission == LaneAdmission(fut, s) IN
    \/ admission = "reject" /\ fut' = RejectAndDestroy(fut, s)
    \/ admission = "wait" /\ fut' = Put(fut, s, [fut.slots[s] EXCEPT !.lane_waiting = TRUE])
    \/ admission = "start" /\ \E ok \in BOOLEAN : fut' = StartDriver(fut, s, ok)

\* A sleep arms its timer, unless it is already over or no timer is to be had.
start_sleep(s) ==
    LET slot == [fut.slots[s] EXCEPT !.state = "pending"]
        pending == Put(fut, s, slot)
    IN fut' \in IF slot.seq \in due THEN {Settle(pending, s, "fulfilled", slot.seq)}
                ELSE {Put(fut, s, [slot EXCEPT !.timer = "armed"]),
                      Settle(pending, s, "rejected", slot.seq)}

\* Everything but the call of a JavaScript function.
dispatch_submission(s) ==
    \/ fut.slots[s].kind = "driver" /\ DispatchDriver(s)
    \/ fut.slots[s].kind = "sleep" /\ start_sleep(s)
    \/ /\ fut.slots[s].kind = "call"
       /\ fut' = Settle(fut, s, "rejected", fut.slots[s].seq)
    \/ /\ fut.slots[s].kind \in {"all", "race", "timeout", "map", "flatMap"}
       /\ fut' = Put(fut, s, [fut.slots[s] EXCEPT !.state = "pending"])

\* A JavaScript callable runs at once, on top of this activation.
dispatch_call(s) ==
    /\ fut' = Put(fut, s, [fut.slots[s] EXCEPT !.kind = "js_call", !.state = "pending"])
    /\ SetTop([Top EXCEPT !.phase = "call", !.n = At("dispatch") + 1,
                          !.run = fut.slots[s].seq, !.runSlot = s])

DispatchStep ==
    LET s == ResolveToken(fut, Head(submissions))
        live == s # NoSlot /\ fut.slots[s].state = "queued"
        calls == live /\ fut.slots[s].kind = "call" /\ fut.slots[s].call_refs
    IN
    /\ Reaches("dispatch")
    /\ submissions' = Tail(submissions)
    /\ \/ calls /\ dispatch_call(s)
       \/ /\ live /\ ~calls
          /\ dispatch_submission(s)
          /\ Move("dispatch", At("dispatch") + 1)
       \/ /\ ~live
          /\ Move("dispatch", At("dispatch") + 1)
          /\ UNCHANGED fut
    /\ UNCHANGED <<next, ready, due, waking, firing, shutting_down, closed>>

\* After the callable, dispatch_call goes on with the slot pointer it had.
CallReturns ==
    LET s == Top.runSlot
        w == Put(fut, s, [fut.slots[s] EXCEPT !.call_refs = FALSE])
    IN
    /\ JsRuns /\ Top.phase = "call"
    /\ fut' \in IF w.slots[s].state \in Terminal
                THEN {ReleaseIfTerminal(PublishTerminal(w, s), s)}
                ELSE {Settle(w, s, state, Top.run) : state \in {"fulfilled", "rejected"}}
    /\ SetTop([Top EXCEPT !.phase = "dispatch", !.run = 0, !.runSlot = NoSlot])
    /\ UNCHANGED <<next, submissions, ready, due, waking, firing,
                   shutting_down, closed>>

\* Mutation: a driver that was asked to stop settles with its own result.
PollReady_ignorecancel(w, s) ==
    LET slot == w.slots[s] IN
    IF slot.kind = "sleep" THEN {Settle(w, s, "fulfilled", slot.seq)}
    ELSE IF ~slot.driver_active \/ w.native[slot.seq] # "done" THEN {w}
    ELSE IF slot.state \in Terminal
    THEN {ReleaseIfTerminal(PublishTerminal(DestroyDriver(w, s), s), s)}
    ELSE {Settle(DestroyDriver(w, s), s, state, slot.seq) :
            state \in {"fulfilled", "rejected"}}

\* future_poll_ready: the results a poll of slot s can have.
PollReady(w, s) ==
    LET slot == w.slots[s] IN
    IF slot.kind = "sleep" THEN {Settle(w, s, "fulfilled", slot.seq)}
    ELSE IF ~slot.driver_active \/ w.native[slot.seq] # "done" THEN {w}
    ELSE IF slot.state \in Terminal
    THEN {ReleaseIfTerminal(PublishTerminal(DestroyDriver(w, s), s), s)}
    ELSE IF slot.cancel_requested
    THEN {Settle(DestroyDriver(w, s), s, "cancelled", 0)}
    ELSE {Settle(DestroyDriver(w, s), s, state, slot.seq) :
            state \in {"fulfilled", "rejected"}}

ReadyStep ==
    /\ Reaches("ready")
    /\ ready' = Tail(ready)
    /\ LET s == ResolveToken(fut, Head(ready)) IN
       fut' \in IF s = NoSlot THEN {fut} ELSE PollReady(fut, s)
    /\ Move("ready", At("ready") + 1)
    /\ UNCHANGED <<next, submissions, due, waking, firing, shutting_down, closed>>

\* Mutation: the operation of a Future that is already settled is left alone.
poll_active_drivers_open ==
    LET s == Least(From("active", Completed)) IN
    /\ Reaches("active")
    /\ fut' \in IF fut.slots[s].state \in Terminal THEN {fut} ELSE PollReady(fut, s)
    /\ Move("active", s + 1)
    /\ UNCHANGED <<next, submissions, ready, due, waking, firing,
                   shutting_down, closed>>

\* Wake tokens may have been lost, so every started driver is polled.
poll_active_drivers ==
    LET s == Least(From("active", Completed)) IN
    /\ Reaches("active")
    /\ fut' \in PollReady(fut, s)
    /\ Move("active", s + 1)
    /\ UNCHANGED <<next, submissions, ready, due, waking, firing,
                   shutting_down, closed>>

\* Mutation: the head of a lane is forgotten when its turn comes.
dispatch_waiting_lanes_skip ==
    LET s == NextWaiting(fut) IN
    /\ Reaches("lanes")
    /\ Move("lanes", At("lanes") + 1) /\ UNCHANGED fut
    /\ UNCHANGED <<next, submissions, ready, due, waking, firing,
                   shutting_down, closed>>

\* The oldest waiter of a free lane starts; one that is settled leaves it.
dispatch_waiting_lanes ==
    LET s == NextWaiting(fut) IN
    /\ Reaches("lanes")
    /\ IF fut.slots[s].state = "queued"
       THEN /\ \E ok \in BOOLEAN : fut' = StartDriver(fut, s, ok)
            /\ Move("lanes", At("lanes") + 1)
       ELSE /\ fut' = Put(fut, s, [fut.slots[s] EXCEPT !.lane_waiting = FALSE])
            /\ Move("lanes", At("lanes"))
    /\ UNCHANGED <<next, submissions, ready, due, waking, firing,
                   shutting_down, closed>>

\* A continuation is called with this activation below it on the stack.
advance_combinators ==
    LET s == Least(From("combine", Combinators)) IN
    /\ Reaches("combine")
    /\ \/ /\ RunsContinuation(s)
          /\ fut' = Put(fut, s, [fut.slots[s] EXCEPT !.running = TRUE])
          /\ SetTop([Top EXCEPT !.phase = "cont", !.n = s + 1, !.now = Now,
                                !.run = fut.slots[s].seq, !.runSlot = s])
       \/ /\ ~RunsContinuation(s)
          /\ \E answer \in CancelResults : fut' = Advance(s, answer)
          /\ SetTop([Top EXCEPT !.phase = "combine", !.n = s + 1, !.now = Now])
    /\ UNCHANGED <<next, submissions, ready, due, waking, firing,
                   shutting_down, closed>>

\* After the callback, advance_continuation goes on with the slot pointer it
\* had: map settles with the value; flatMap continues with the Future it got,
\* and rejects any other value.
ContinuationReturns ==
    LET s == Top.runSlot
        slot == [fut.slots[s] EXCEPT !.running = FALSE, !.called = TRUE]
        w == Put(fut, s, slot)
        Chained(f) == IF Len(slot.inputs) = 0 THEN w
                      ELSE Put(fut, s, [slot EXCEPT !.inputs[1] = f])
    IN
    /\ JsRuns /\ Top.phase = "cont"
    /\ fut' \in {Settle(w, s, "rejected", Top.run)} \union
                IF slot.kind = "map" THEN {Settle(w, s, "fulfilled", Top.run)}
                ELSE {Chained(f) : f \in {g \in Ids : Visible(g)}}
    /\ SetTop([Top EXCEPT !.phase = "combine", !.run = 0, !.runSlot = NoSlot])
    /\ UNCHANGED <<next, submissions, ready, due, waking, firing,
                   shutting_down, closed>>
-------------------------------------------------------------------------------
(* The world around the runtime task. *)

\* A deadline_us of a Future that still holds a slot passes.
DeadlinePasses ==
    /\ \E s \in Slots : /\ fut.slots[s].allocated /\ fut.slots[s].deadline
                        /\ fut.slots[s].seq \notin due
                        /\ due' = due \union {fut.slots[s].seq}
    /\ UNCHANGED <<fut, next, submissions, ready, stack, waking, firing,
                   shutting_down, closed>>

\* A wake-up is lost when the ready queue is full.
Offer(token) == IF Len(ready) < ReadyLen THEN Append(ready, token) ELSE ready

\* A native operation completes: its driver's poll will say READY ...
NativeCompletes(f) ==
    /\ fut.native[f] = "running"
    /\ fut' = [fut EXCEPT !.native[f] = "done"]
    /\ waking' = waking \union {f}
    /\ UNCHANGED <<next, submissions, ready, stack, due, firing,
                   shutting_down, closed>>

\* ... and then wakes the Future it was started for.
future_wake(f) ==
    /\ f \in waking
    /\ waking' = waking \ {f}
    /\ ready' = IF closed THEN ready
                ELSE Offer([slot |-> fut.handles[f].slot,
                            generation |-> fut.handles[f].generation])
    /\ UNCHANGED <<fut, next, submissions, stack, due, firing,
                   shutting_down, closed>>

\* The esp_timer task enters the callback of a sleep ...
TimerFires ==
    /\ firing = NoSlot
    /\ \E s \in Slots : /\ fut.slots[s].timer = "armed" /\ fut.slots[s].seq \in due
                        /\ firing' = s
                        /\ fut' = Put(fut, s, [fut.slots[s] EXCEPT !.timer = "fired"])
    /\ UNCHANGED <<next, submissions, ready, stack, due, waking,
                   shutting_down, closed>>

\* ... which reads the slot it was given and wakes whatever is there.
sleep_timer_callback ==
    /\ firing # NoSlot
    /\ firing' = NoSlot
    /\ ready' = IF fut.slots[firing].allocated THEN Offer(Token(fut, firing)) ELSE ready
    /\ UNCHANGED <<fut, next, submissions, stack, due, waking,
                   shutting_down, closed>>

\* Mutation: teardown does not wait for the drivers' poll.
TornDown_now(slot) == TRUE

\* Mutation: teardown polls only the drivers whose cancellation is pending.
TornDown_cancelled(slot) ==
    \/ ~slot.driver_active \/ slot.state = "queued"
    \/ fut.native[slot.seq] = "done" /\ slot.cancel_requested

\* Teardown may clear the slot: no driver, one never started, or one done.
TornDown(slot) ==
    ~slot.driver_active \/ slot.state = "queued" \/ fut.native[slot.seq] = "done"

\* One pass of teardown over the table; the caller repeats it until it
\* succeeds.  Callbacks and waits are over by then.
prepare_future_runtime_destroy ==
    /\ RuntimeRuns /\ Len(stack) = 1 /\ Top.phase = "js"
    /\ shutting_down' = TRUE
    /\ \E answer \in [{s \in Slots : fut.slots[s].driver_active} -> CancelResults] :
         LET gone == {s \in Slots : fut.slots[s].allocated /\ TornDown(fut.slots[s])}
             Pass(s) ==
                LET slot == fut.slots[s] IN
                IF s \in gone THEN EmptySlot(slot.generation)
                ELSE IF slot.driver_active /\ slot.state \notin Terminal
                        /\ ~slot.cancel_requested
                THEN [slot EXCEPT
                        !.state = IF answer[s] = "cancelled" THEN "cancelled" ELSE @,
                        !.cancel_requested = (answer[s] = "requested")]
                ELSE slot
         IN /\ fut' = [fut EXCEPT
                  !.slots = [s \in Slots |-> Pass(s)],
                  !.native = [f \in Ids |->
                     IF \E s \in gone : fut.slots[s].driver_active /\ fut.slots[s].seq = f
                     THEN "destroyed" ELSE fut.native[f]]]
            /\ closed' = \A s \in Slots : ~fut'.slots[s].allocated
    /\ UNCHANGED <<next, submissions, ready, stack, due, waking, firing>>
-------------------------------------------------------------------------------
Init ==
    /\ fut = [slots |-> [s \in Slots |-> EmptySlot(0)],
              handles |-> [f \in Ids |-> NoHandle],
              native |-> [f \in Ids |-> "none"]]
    /\ next = 0
    /\ submissions = <<>> /\ ready = <<>>
    /\ stack = <<Frame("js", 0, FALSE)>>
    /\ due = {} /\ waking = {} /\ firing = NoSlot
    /\ shutting_down = FALSE /\ closed = FALSE

JavaScript ==
    \/ js_future_call \/ CallDriver \/ capture_call_driver
    \/ future_call_and_wait \/ js_future_sleep
    \/ \E kind \in {"all", "race"} : future_make_combinator(kind)
    \/ js_future_timeout
    \/ \E kind \in {"map", "flatMap"} : future_make_continuation(kind)
    \/ js_future_cancel \/ js_future_finalizer
    \/ js_future_wait \/ WaitReturns

Poll ==
    \/ expire_deadlines \/ advance_sleep_deadlines
    \/ DispatchStep \/ ReadyStep \/ poll_active_drivers
    \/ dispatch_waiting_lanes \/ advance_combinators
    \/ CallReturns \/ ContinuationReturns \/ PollEnds

Environment ==
    \/ DeadlinePasses
    \/ \E f \in Ids : NativeCompletes(f) \/ future_wake(f)
    \/ TimerFires \/ sleep_timer_callback

\* All Futures are created, the tables freed and the callbacks over.
Finished == closed /\ waking = {} /\ firing = NoSlot /\ UNCHANGED vars

Next == JavaScript \/ Poll \/ Environment \/ prepare_future_runtime_destroy \/ Finished

Spec == Init /\ [][Next]_vars
-------------------------------------------------------------------------------
(* Properties. *)

FrameType ==
    [phase : {"js", "expire", "sleep", "dispatch", "ready", "active", "lanes",
              "combine", "call", "cont"},
     n : Nat, now : SUBSET Ids, wait : Ids \union {0}, sync : BOOLEAN,
     run : Ids \union {0}, runSlot : Slots \union {NoSlot}]

SlotType ==
    [allocated : BOOLEAN, generation : Nat, seq : Ids \union {0},
     kind : AllKinds, state : States, result : Ids \union {0},
     call_refs : BOOLEAN, inputs : Seq(Ids), driver_active : BOOLEAN,
     driver_started : BOOLEAN, lane_waiting : BOOLEAN,
     cancel_requested : BOOLEAN, key : Keys \union {NoKey},
     timer : {"none", "armed", "fired"}, deadline : BOOLEAN,
     handle : BOOLEAN, running : BOOLEAN, called : BOOLEAN]

HandleType ==
    [slot : Slots \union {NoSlot}, generation : Nat, alive : BOOLEAN,
     terminal : BOOLEAN, state : States, by : Ids \union {0}]

TokenType == [slot : Slots, generation : Nat]

\* Every variable has the type the C declarations give it, no queue exceeds
\* its length and a slot in use names the Future it was allocated for.
TypeOK ==
    /\ fut \in [slots : [Slots -> SlotType], handles : [Ids -> HandleType],
                native : [Ids -> NativeStates]]
    /\ \A s \in Slots : fut.slots[s].allocated <=> fut.slots[s].seq # 0
    /\ next \in 0 .. MaxFutures
    /\ submissions \in Seq(TokenType) /\ Len(submissions) <= Capacity
    /\ ready \in Seq(TokenType) /\ Len(ready) <= ReadyLen
    /\ stack \in Seq(FrameType) /\ Len(stack) \in 1 .. MaxDepth
    /\ due \subseteq Ids /\ waking \subseteq Ids
    /\ firing \in Slots \union {NoSlot}
    /\ shutting_down \in BOOLEAN /\ closed \in BOOLEAN

\* A slot whose native operation was started and not yet destroyed.
Started(s) == /\ fut.slots[s].allocated /\ fut.slots[s].driver_active
              /\ fut.native[fut.slots[s].seq] \in {"running", "done"}

\* At most one native operation per resource key is started, and one that
\* outlived its cancelled or timed out Future still holds the key.
LaneExclusive ==
    \A s, t \in Slots :
       Started(s) /\ Started(t) /\ fut.slots[s].key = fut.slots[t].key
       => s = t \/ fut.slots[s].key = NoKey

\* A native operation that runs is never left without the slot that will
\* poll and destroy it.
NativeOwned ==
    \A f \in Ids : fut.native[f] \in {"captured", "running", "done"} =>
       \E s \in Slots : /\ fut.slots[s].allocated /\ fut.slots[s].seq = f
                       /\ fut.slots[s].driver_active

\* Whatever happened to its Future, a native operation keeps the slot that will
\* poll and destroy it, and its resource lane for itself.
OperationsOwned == LaneExclusive /\ NativeOwned

\* The state of a native operation is never destroyed while it runs: not by
\* a cancellation, a deadline, a lost handle or the teardown.
NativeOutlives ==
    [][\A f \in Ids : fut.native[f] = "running" => fut'.native[f] # "destroyed"]_vars

\* A lane starts its operations in submission order.
LaneFifo ==
    [][\A s, t \in Slots :
         /\ fut.slots[s].driver_active /\ fut.slots[t].driver_active
         /\ fut.slots[s].key = fut.slots[t].key /\ fut.slots[s].key # NoKey
         /\ fut.native[fut.slots[s].seq] = "captured"
         /\ fut.native[fut.slots[t].seq] = "captured"
         /\ fut'.native[fut.slots[t].seq] = "running"
         => fut.slots[t].seq <= fut.slots[s].seq]_vars

\* The result of a Future comes from its own operation, never from the
\* callable of another Future that used the same slot.
SettledByOwn == \A f \in Ids : fut.handles[f].by \in {0, f}

\* The callable or continuation of a Future is active at most once, even if
\* it waits and so re-enters the scheduler.
CalledOnce ==
    \A i, j \in 1 .. Len(stack) : stack[i].run = stack[j].run => i = j \/ stack[i].run = 0

\* Until the teardown an object refers to a Future that is settled or whose
\* slot will settle it: wait never finds its operation lost.
NoLostHandle ==
    shutting_down \/ \A f \in Ids : fut.handles[f].alive =>
       \/ fut.handles[f].terminal
       \/ /\ HandleSlot(fut, f) # NoSlot
          /\ fut.slots[HandleSlot(fut, f)].seq = f
          /\ fut.slots[HandleSlot(fut, f)].handle

\* Every queued Future that waits for no lane has its token queued, however
\* full of dead tokens the queue got.
NoLostSubmission ==
    shutting_down \/ \A s \in Slots :
       fut.slots[s].allocated /\ fut.slots[s].state = "queued" =>
          \/ fut.slots[s].lane_waiting
          \/ \E i \in 1 .. Len(submissions) : submissions[i] = Token(fut, s)

\* No Future is lost: not by its handle, and not while it waits to be started.
NothingLost == TypeOK /\ NoLostHandle /\ NoLostSubmission

\* A Future that got a slot is always accepted: dead tokens never fill the
\* submission queue for good.
SubmitAccepted == [][next' # next => fut'.handles[next'].alive]_vars

\* A Future whose cancellation was accepted ends cancelled, or timed out.
CancelHonoured ==
    [][\A s \in Slots :
         LET f == fut.slots[s].seq IN
         /\ fut.slots[s].allocated /\ fut.slots[s].cancel_requested
         /\ fut.slots[s].state = "pending" /\ fut.slots[s].handle
         /\ fut'.handles[f].terminal
         => fut'.handles[f].state = "cancelled" \/ f \in due]_vars

\* A sleep is fulfilled only when its deadline has passed.
SleepNotEarly ==
    [][\A s \in Slots :
         LET f == fut.slots[s].seq IN
         /\ fut.slots[s].allocated /\ fut.slots[s].kind = "sleep"
         /\ fut.slots[s].handle /\ fut'.handles[f].terminal
         => fut'.handles[f].state # "fulfilled" \/ f \in due]_vars

\* The runtime task keeps polling (or tearing down), a satisfied wait returns
\* and native operations come to an end.
Fairness ==
    /\ WF_vars(Poll)
    /\ WF_vars(WaitReturns /\ fut.handles[Top.wait].terminal)
    /\ WF_vars(shutting_down /\ prepare_future_runtime_destroy)
    /\ \A f \in Ids : WF_vars(NativeCompletes(f))

FairSpec == Spec /\ Fairness

\* A completed operation is collected although its wake-up may be lost.
CompletedIsCollected ==
    \A f \in Ids : fut.native[f] = "done" ~> fut.native[f] = "destroyed"

\* A captured operation is started, or given up: no lane starves it.
LaneProgress ==
    \A f \in Ids : fut.native[f] = "captured" ~> fut.native[f] # "captured"

\* A teardown ends, whatever the drivers answer to cancel.
TeardownEnds == shutting_down ~> closed

\* What no step does to native operations: start those of a lane out of order, or
\* fulfil one whose cancellation was accepted.
DriverSteps == LaneFifo /\ CancelHonoured

\* A Future is settled by its own callable or driver, a callable runs once, and
\* a Future that waits is in a queue somebody serves.
CallsSafe == SettledByOwn /\ CalledOnce /\ NothingLost

\* A submission is refused only when the table is full, and a sleep is not over
\* before its time.
CallSteps == SubmitAccepted /\ SleepNotEarly
===============================================================================
