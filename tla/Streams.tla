------------------------------ MODULE Streams ------------------------------
(***************************************************************************)
(* Streams (stream.c): a fixed table of slots for files, memory blocks and *)
(* byte sources.  JavaScript objects own a slot together; Futures reserve  *)
(* it while they are captured; the HTTP server takes one for a response.   *)
(* File operations run on the Future worker, so a slot and its FILE have   *)
(* to outlive every operation that was let in, whatever the garbage        *)
(* collector, close() and cancellation do meanwhile.                       *)
(***************************************************************************)
EXTENDS Naturals, FiniteSets

CONSTANTS
    Slots,        \* ESP32_MQUICKJS_MAX_STREAMS
    StreamKinds,  \* the kinds opened in this instance
    RespondBusy,  \* may a handler return a body that a Future still uses?
    MaxOpens, MaxOps, MaxObjects, MaxSpans, MaxFaults   \* bounds

VARIABLES
    slot,         \* s_streams
    objects,      \* objects[s][g]: live JavaScript objects of generation g
    op,           \* the Futures, in the order of capture
    unannounced,  \* history: bytes written that fs_notify_change never told
    n             \* bounds: opens, faults

vars == <<slot, objects, op, unannounced, n>>

Ids == 1 .. MaxOps
OpKinds == {"read", "write", "spans", "flush", "close", "seek"}
Gens == 0 .. MaxOpens

Blank(g) == [allocated |-> FALSE, generation |-> g, kind |-> "file",
             owners |-> 0, reservations |-> 0, external |-> FALSE,
             close_queued |-> FALSE, release_pending |-> FALSE,
             write_dirty |-> FALSE, handle |-> FALSE]

NoOp == [phase |-> "none", kind |-> "read", slot |-> CHOOSE s \in Slots : TRUE,
         generation |-> 0, file |-> FALSE, closed |-> FALSE, error |-> FALSE,
         worker |-> "idle", completed |-> FALSE, cancelled |-> FALSE, spans |-> 0]

Init ==
    /\ slot = [s \in Slots |-> Blank(0)]
    /\ objects = [s \in Slots |-> [g \in Gens |-> 0]]
    /\ op = [o \in Ids |-> NoOp]
    /\ unannounced = {}
    /\ n = [opens |-> 0, faults |-> 0]

\* One more failure of the file system or the allocator.
Fault == n.faults < MaxFaults /\ n' = [n EXCEPT !.faults = @ + 1]
-------------------------------------------------------------------------------
(* Slots. *)

\* stream_get_slot: a reference is good for one generation.
Get(s, g) == slot[s].allocated /\ slot[s].generation = g
Busy(s) == slot[s].external \/ slot[s].reservations > 0

\* stream_cleanup_slot: fclose or free, then clear everything but the number.
Cleaned(s) == Blank(slot[s].generation)

\* What cleaning slot s tells the watchers: fclose succeeded and it was dirty.
CleanupTells(s, fclosed) ==
    IF slot[s].handle /\ fclosed /\ ~slot[s].write_dirty THEN unannounced
    ELSE unannounced \ {s}

Cleanup(s, fclosed) ==
    /\ slot' = [slot EXCEPT ![s] = Cleaned(s)]
    /\ unannounced' = CleanupTells(s, fclosed)

\* fclose of a file slot may fail; other kinds are freed.
FcloseChoice(s) ==
    \E ok \in BOOLEAN :
        /\ Cleanup(s, ok)
        /\ IF ok THEN UNCHANGED n ELSE slot[s].kind = "file" /\ slot[s].handle /\ Fault

-------------------------------------------------------------------------------
(* Opening, cloning, the finalizer. *)

\* adopt_file, open_memory_owned, open_byte_source; the object was made.
stream_open(s, kind) ==
    /\ n.opens < MaxOpens
    /\ \A t \in Slots : t < s => slot[t].allocated
    /\ ~slot[s].allocated
    /\ LET g == slot[s].generation + 1 IN
       \E dirty \in IF kind = "file" THEN BOOLEAN ELSE {FALSE} :
          /\ slot' = [slot EXCEPT ![s] =
                        [Blank(g) EXCEPT !.allocated = TRUE, !.kind = kind,
                                         !.owners = 1, !.handle = TRUE,
                                         !.write_dirty = dirty]]
          /\ objects' = [objects EXCEPT ![s][g] = 1]
          /\ unannounced' = IF dirty THEN unannounced \union {s} ELSE unannounced
    /\ n' = [n EXCEPT !.opens = @ + 1]
    /\ UNCHANGED op

\* A step of opening failed: the slot is given back, its number is used up.
stream_open_fails(s) ==
    /\ n.opens < MaxOpens /\ n.faults < MaxFaults
    /\ \A t \in Slots : t < s => slot[t].allocated
    /\ ~slot[s].allocated
    /\ slot' = [slot EXCEPT ![s] = Blank(slot[s].generation + 1)]
    /\ n' = [opens |-> n.opens + 1, faults |-> n.faults + 1]
    /\ UNCHANGED <<objects, op, unannounced>>

\* Response.body of a cloned response: a second object for the same slot.
stream_clone(s, g) ==
    /\ objects[s][g] > 0 /\ objects[s][g] < MaxObjects
    /\ Get(s, g)
    /\ slot' = [slot EXCEPT ![s].owners = @ + 1]
    /\ objects' = [objects EXCEPT ![s][g] = @ + 1]
    /\ UNCHANGED <<op, unannounced, n>>

FinalizerDefers(s) == Busy(s)

\* js_stream_finalizer: the collector may run between any two operations.
stream_finalizer(s, g) ==
    /\ objects[s][g] > 0
    /\ objects' = [objects EXCEPT ![s][g] = @ - 1]
    /\ UNCHANGED op
    /\ IF ~Get(s, g) THEN UNCHANGED <<slot, unannounced, n>>
       ELSE IF slot[s].owners > 1
       THEN slot' = [slot EXCEPT ![s].owners = @ - 1] /\ UNCHANGED <<unannounced, n>>
       ELSE IF FinalizerDefers(s)
       THEN /\ slot' = [slot EXCEPT ![s].owners = 0, ![s].release_pending = TRUE]
            /\ UNCHANGED <<unannounced, n>>
       ELSE FcloseChoice(s)

\* esp32_mquickjs_stream_close_value: close now, unless someone uses it.
stream_close_value(s, g) ==
    /\ objects[s][g] > 0 /\ Get(s, g) /\ ~Busy(s)
    /\ FcloseChoice(s)
    /\ UNCHANGED <<objects, op>>

\* deinit_stream_runtime: after the Futures are gone every slot is cleaned.
deinit_stream_runtime ==
    /\ \A o \in Ids : op[o].phase \notin {"queued", "started"}
    /\ \E s \in Slots : slot[s].allocated
    /\ slot' = [s \in Slots |-> Cleaned(s)]
    /\ unannounced' = {}
    /\ UNCHANGED <<objects, op, n>>
-------------------------------------------------------------------------------
(* A response body (http_server.c). *)

\* fs_stream_acquire, then the server reads it on its own task.
stream_acquire(s, g) ==
    /\ objects[s][g] > 0 /\ Get(s, g) /\ ~Busy(s)
    /\ slot' = [slot EXCEPT ![s].external = TRUE]
    /\ UNCHANGED <<objects, op, unannounced, n>>

\* The response was sent or dropped: fs_stream_close looks at nothing else.
stream_external_close(s) ==
    /\ slot[s].allocated /\ slot[s].external
    /\ FcloseChoice(s)
    /\ UNCHANGED <<objects, op>>

\* capture_response fails after it noted the body: free_response closes the
\* stream, also when what failed is that the stream was in use.
response_refused(s, g) ==
    /\ objects[s][g] > 0 /\ Get(s, g) /\ ~slot[s].external
    /\ RespondBusy \/ ~Busy(s)
    /\ FcloseChoice(s)
    /\ UNCHANGED <<objects, op>>
-------------------------------------------------------------------------------
(* Operations: captured in order, one at a time in a lane. *)

\* stream_future_prepare_common: files of a mount share a lane, other kinds
\* have one each.  A capture that fails later releases what it reserved.
Refused(s) == slot[s].external \/ slot[s].close_queued
\* Mutation: a queued close() does not stop later captures.

prepare(s, g, kind) ==
    /\ objects[s][g] > 0 /\ Get(s, g) /\ ~Refused(s)
    /\ kind \in {"write", "spans", "flush"} => slot[s].kind = "file"
    /\ kind = "seek" => slot[s].kind # "source"
    /\ \E o \in Ids :
          /\ \A p \in Ids : op[p].phase = "none" <=> p >= o
          /\ op' = [op EXCEPT ![o] =
                      [NoOp EXCEPT !.phase = "queued", !.kind = kind, !.slot = s,
                                   !.generation = g, !.file = slot[s].kind = "file"]]
    /\ slot' = [slot EXCEPT ![s].reservations = @ + 1,
                            ![s].close_queued = @ \/ kind = "close"]
    /\ UNCHANGED <<objects, unannounced, n>>

SameLane(o, p) ==
    \/ op[o].file /\ op[p].file
    \/ ~op[o].file /\ ~op[p].file /\ op[o].slot = op[p].slot

First(o) == \A p \in Ids \ {o} :
    SameLane(o, p) => /\ op[p].phase # "started"
                      /\ p < o => op[p].phase # "queued"

Live(o) == Get(op[o].slot, op[o].generation)

\* stream_future_release: give the reservation back; the last one to leave
\* cleans a slot that was closed or lost its objects.
LeavesLast(o, r) ==
    r.reservations = 0 /\ ~r.external /\ (op[o].closed \/ r.release_pending)
\* Mutation: only the close itself cleans the slot.

Release(o) ==
    LET s == op[o].slot
        r == [slot[s] EXCEPT !.reservations = @ - 1,
                             !.close_queued = @ /\ ~(op[o].kind = "close" /\ ~op[o].closed)]
    IN IF ~Live(o) THEN UNCHANGED <<slot, unannounced, n>>
       ELSE IF LeavesLast(o, r) THEN FcloseChoice(s)
       ELSE slot' = [slot EXCEPT ![s] = r] /\ UNCHANGED <<unannounced, n>>

Gone(o) == op' = [op EXCEPT ![o] = [NoOp EXCEPT !.phase = "gone"]]

\* A Future cancelled in its lane, or refused by a full worker queue.
destroy_queued(o) ==
    /\ op[o].phase = "queued"
    /\ Gone(o) /\ Release(o)
    /\ UNCHANGED objects

\* stream_future_start for a file: hand the state to the worker.  A source
\* may be exhausted or fail before its first span.
start_file(o) ==
    /\ op[o].phase = "queued" /\ First(o) /\ op[o].file
    /\ IF ~Live(o) THEN Gone(o)
       ELSE \E empty \in IF op[o].kind = "spans" THEN BOOLEAN ELSE {FALSE} :
              op' = [op EXCEPT ![o].phase = "started", ![o].completed = empty,
                               ![o].worker = IF empty THEN "idle" ELSE "queued"]
    /\ UNCHANGED <<slot, objects, unannounced, n>>

\* stream_future_start for memory and sources: the operation itself.
start_inline(o) ==
    /\ op[o].phase = "queued" /\ First(o) /\ ~op[o].file
    /\ IF ~Live(o) THEN Gone(o) /\ UNCHANGED <<slot, unannounced, n>>
       ELSE /\ op' = [op EXCEPT ![o].phase = "started", ![o].completed = TRUE,
                                ![o].closed = op[o].kind = "close"]
            /\ IF op[o].kind = "close" THEN Cleanup(op[o].slot, TRUE)
               ELSE UNCHANGED <<slot, unannounced>>
            /\ UNCHANGED n
    /\ UNCHANGED objects

\* What a successful worker step does to its slot.
Written(r) == [r EXCEPT !.write_dirty = TRUE]
\* Mutation: a span write forgets that it changed the file.

\* stream_future_worker: fread, fwrite, fflush, fseek or fclose.
worker(o) ==
    /\ op[o].worker = "queued"
    /\ LET s == op[o].slot
           skip == op[o].kind = "spans" /\ op[o].cancelled
           done(err) == op' = [op EXCEPT ![o].worker = "returned", ![o].error = err,
                                         ![o].completed = op[o].kind # "spans",
                                         ![o].closed = op[o].kind = "close" /\ Live(o)]
       IN IF ~Live(o) \/ skip
          THEN done(~skip) /\ UNCHANGED <<slot, unannounced, n>>
          ELSE \/ /\ Fault /\ done(TRUE) /\ UNCHANGED unannounced
                  /\ slot' = [slot EXCEPT ![s].handle = @ /\ op[o].kind # "close"]
               \/ /\ done(FALSE) /\ UNCHANGED n
                  /\ CASE op[o].kind \in {"write", "spans"} ->
                            /\ slot' = [slot EXCEPT ![s] = Written(@)]
                            /\ unannounced' = unannounced \union {s}
                       [] op[o].kind = "flush" ->
                            /\ slot' = [slot EXCEPT ![s].write_dirty = FALSE]
                            /\ unannounced' = IF slot[s].write_dirty
                                              THEN unannounced \ {s} ELSE unannounced
                       [] op[o].kind = "close" ->
                            /\ slot' = [slot EXCEPT ![s].write_dirty = FALSE,
                                                    ![s].handle = FALSE]
                            /\ unannounced' = IF slot[s].write_dirty
                                              THEN unannounced \ {s} ELSE unannounced
                       [] OTHER -> UNCHANGED <<slot, unannounced>>
    /\ UNCHANGED objects

\* stream_future_poll for a span write: fetch the next span and go on, or end.
poll_span(o) ==
    /\ op[o].phase = "started" /\ op[o].kind = "spans"
    /\ op[o].worker = "returned" /\ ~op[o].completed
    /\ \/ op' = [op EXCEPT ![o].worker = "idle", ![o].completed = TRUE]
       \/ /\ ~op[o].error /\ ~op[o].cancelled /\ op[o].spans < MaxSpans
          /\ op' = [op EXCEPT ![o].worker = "queued", ![o].spans = @ + 1]
    /\ UNCHANGED <<slot, objects, unannounced, n>>

cancel(o) ==
    /\ op[o].phase = "started" /\ ~op[o].completed /\ ~op[o].cancelled
    /\ op' = [op EXCEPT ![o].cancelled = TRUE]
    /\ UNCHANGED <<slot, objects, unannounced, n>>

\* finish and destroy, once the operation has completed.
finish(o) ==
    /\ op[o].phase = "started" /\ op[o].completed
    /\ Gone(o) /\ Release(o)
    /\ UNCHANGED objects
-------------------------------------------------------------------------------
Operate(o) ==
    \/ start_file(o) \/ start_inline(o) \/ worker(o) \/ poll_span(o) \/ finish(o)

Next ==
    \/ \E s \in Slots, kind \in StreamKinds : stream_open(s, kind)
    \/ \E s \in Slots : stream_open_fails(s)
    \/ \E s \in Slots : stream_external_close(s)
    \/ \E s \in Slots, g \in Gens :
          \/ stream_clone(s, g) \/ stream_finalizer(s, g) \/ stream_close_value(s, g)
          \/ stream_acquire(s, g) \/ response_refused(s, g)
          \/ \E kind \in OpKinds : prepare(s, g, kind)
    \/ deinit_stream_runtime
    \/ \E o \in Ids : Operate(o) \/ cancel(o) \/ destroy_queued(o)

\* The scheduler starts the head of every lane and polls what it started, its
\* worker runs what it was given, and the server ends every response.
Weak(k) == \/ k \in Ids /\ Operate(k)
           \/ k = MaxOps + 1 /\ \E s \in Slots : stream_external_close(s)
Fairness == \A k \in 1 .. MaxOps + 1 : WF_vars(Weak(k))

Spec == Init /\ [][Next]_vars
FairSpec == Spec /\ Fairness
-------------------------------------------------------------------------------
TypeOK ==
    /\ \A s \in Slots :
          slot[s] \in [allocated : BOOLEAN, generation : Gens,
                       kind : {"file", "memory", "source"}, owners : 0 .. MaxObjects,
                       reservations : 0 .. MaxOps, external : BOOLEAN,
                       close_queued : BOOLEAN, release_pending : BOOLEAN,
                       write_dirty : BOOLEAN, handle : BOOLEAN]
    /\ \A o \in Ids : op[o].phase \in {"none", "queued", "started", "gone"}
    /\ unannounced \subseteq Slots

InUse(o) == op[o].phase \in {"queued", "started"}

\* The worker is never given a slot whose FILE is closed: an operation that was
\* let in finds its generation of the slot open until it completes, whatever is
\* finalized, closed or cancelled around it.
WorkerHoldsFile ==
    \A o \in Ids : op[o].worker = "queued" => Live(o) /\ slot[op[o].slot].handle

\* A slot is kept exactly as long as someone can use it: its counts are those
\* of its objects and of its Futures, and one of them, or the server, is left.
SlotsAccounted ==
    \A s \in Slots : slot[s].allocated =>
        LET g == slot[s].generation
            using == {o \in Ids : InUse(o) /\ op[o].slot = s /\ op[o].generation = g}
        IN /\ slot[s].owners = objects[s][g]
           /\ slot[s].reservations = Cardinality(using)
           /\ slot[s].close_queued => \E o \in using : op[o].kind = "close"
           /\ slot[s].owners = 0 =>
                 /\ slot[s].release_pending
                 /\ slot[s].external \/ using # {}

\* A change is told to the watchers before its stream is gone: by flush, by
\* close, or by the clean-up of a slot that nobody closed.
ChangesTold == \A s \in unannounced : slot[s].allocated /\ slot[s].write_dirty

StreamsSafe == TypeOK /\ WorkerHoldsFile /\ SlotsAccounted /\ ChangesTold

\* An orphaned stream is cleaned: once its last object is finalized, the
\* Futures and the response that still use it end and take it along.
Owed(s) == s \in Slots /\ slot[s].release_pending
Paid(s) == s \in Slots => ~slot[s].release_pending
OrphanFreed == \A s \in Slots : Owed(s) ~> Paid(s)
=============================================================================
