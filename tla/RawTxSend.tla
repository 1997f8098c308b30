------------------------------ MODULE RawTxSend ------------------------------
(***************************************************************************)
(* A single raw transmission, WiFi.rawTx.send (wifi_raw_tx.c), and the     *)
(* lane of the transmitter that it shares with the sessions                *)
(* (wifi_raw_tx_lane.c).  A send waits for the lane, a background worker   *)
(* takes the radio and hands the frame to the driver; when its Future ends *)
(* before the driver is done with the frame, what it holds moves to the    *)
(* one slot s_retired, which a clean-up worker empties.  Sends share a     *)
(* resource key, so the scheduler starts one after the other.              *)
(***************************************************************************)
EXTENDS Naturals, Sequences, FiniteSets

CONSTANTS
    Sends,               \* calls of send, numbers from 1 in the order of their capture
    Capacity,            \* requests the lane can hold
    MaxOthers, MaxFaults \* bounds: grants of the lane to sessions, faults

VARIABLES
    st,        \* the sends
    ret,       \* s_retired
    lane,      \* requests in the order of their identities; whether the first is active
    nat,       \* what the driver knows of a send's frame
    w,         \* the send worker: the send it serves and its program counter
    cw,        \* the clean-up worker and its copies
    others,    \* grants to sessions so far
    lost,      \* history: a lease, frame or lane that nobody holds any more
    faults

vars == <<st, ret, lane, nat, w, cw, others, lost, faults>>

Session == 0             \* the lane's requests that are not sends
NoSend == [phase |-> "none", lane |-> FALSE, acquired |-> FALSE, submitted |-> FALSE, done |-> FALSE, cancel |-> FALSE,
           error |-> FALSE, lease |-> FALSE, token |-> FALSE]
Gone == [NoSend EXCEPT !.phase = "gone"]
NoRetired == [of |-> 0, active |-> FALSE, busy |-> FALSE, later |-> FALSE, stop |-> FALSE, lease |-> FALSE, token |-> FALSE, lane |-> FALSE]

Init ==
    /\ st = [o \in Sends |-> NoSend] /\ ret = NoRetired /\ lane = [req |-> <<>>, active |-> FALSE]
    /\ nat = [o \in Sends |-> "none"] /\ w = [of |-> 0, at |-> "none"]
    /\ cw = [at |-> "none", r |-> NoRetired, error |-> FALSE]
    /\ others = 0 /\ lost = FALSE /\ faults = 0

Fault == faults < MaxFaults /\ faults' = faults + 1
Without(s, x) == SelectSeq(s, LAMBDA y : y # x)
-------------------------------------------------------------------------------
\* raw_tx_service: starts the clean-up worker when it is due; a full worker
\* queue puts it off.
Services(r) ==
    IF r.active /\ ~r.busy /\ ~r.later
    THEN {[ret |-> [r EXCEPT !.busy = TRUE], cw |-> [cw EXCEPT !.at = "copy"], fault |-> FALSE],
          [ret |-> [r EXCEPT !.later = TRUE], cw |-> cw, fault |-> TRUE]}
    ELSE {[ret |-> r, cw |-> cw, fault |-> FALSE]}
Serviced(r) == \E v \in Services(r) : ret' = v.ret /\ cw' = v.cw /\ IF v.fault THEN Fault ELSE faults' = faults

\* raw_tx_capture, and raw_tx_start when the sends before it are over.
send_capture(o) ==
    /\ st[o].phase = "none" /\ \A p \in Sends : p < o => st[p].phase # "none"
    /\ st' = [st EXCEPT ![o].phase = "queued"]
    /\ UNCHANGED <<ret, lane, nat, w, cw, others, lost, faults>>
send_start(o) ==
    /\ st[o].phase = "queued" /\ \A p \in Sends : p < o => st[p].phase = "gone"
    /\ st' = [st EXCEPT ![o].phase = "started"]
    /\ UNCHANGED <<ret, lane, nat, w, cw, others, lost, faults>>

\* raw_tx_schedule, from start and from every poll: nothing while a retired send
\* is not cleaned up; a request of the lane; the worker once the lane is granted.
Waits == ret.active
send_schedule(o) ==
    /\ st[o].phase = "started" /\ ~st[o].submitted /\ ~st[o].cancel
    /\ LET had == st[o].lane
           full == ~had /\ Len(lane.req) = Capacity
           req == IF had \/ full THEN lane.req ELSE Append(lane.req, o)
           got == st[o].acquired \/ (~full /\ ~lane.active /\ Head(req) = o)
       IN IF Waits THEN Serviced(ret) /\ UNCHANGED <<st, lane, w>>
          ELSE \/ /\ lane' = [req |-> req, active |-> lane.active \/ got]
                  /\ st' = [st EXCEPT ![o].lane = had \/ ~full, ![o].acquired = got, ![o].submitted = got]
                  /\ w' = IF got THEN [of |-> o, at |-> "begin"] ELSE w
                  /\ Serviced(ret)
               \/ /\ got /\ ~ret.active /\ Fault          \* no room for the worker
                  /\ lane' = [req |-> req, active |-> TRUE]
                  /\ st' = [st EXCEPT ![o].lane = TRUE, ![o].acquired = TRUE]
                  /\ UNCHANGED <<w, ret, cw>>
    /\ UNCHANGED <<nat, others, lost>>

\* raw_tx_send_worker: the radio, then the frame, unless cancelled before either.
worker_acquire ==
    /\ w.at = "begin"
    /\ \/ st[w.of].cancel /\ w' = [w EXCEPT !.at = "done"] /\ st' = st /\ faults' = faults
       \/ ~st[w.of].cancel /\ w' = [w EXCEPT !.at = "submit"] /\ st' = [st EXCEPT ![w.of].lease = TRUE] /\ faults' = faults
       \/ ~st[w.of].cancel /\ Fault /\ w' = [w EXCEPT !.at = "done"] /\ st' = [st EXCEPT ![w.of].error = TRUE]
    /\ UNCHANGED <<ret, lane, nat, cw, others, lost>>
worker_submit ==
    /\ w.at = "submit" /\ w' = [w EXCEPT !.at = "done"]
    /\ \/ st[w.of].cancel /\ UNCHANGED <<st, nat, faults>>
       \/ /\ ~st[w.of].cancel /\ st' = [st EXCEPT ![w.of].token = TRUE] /\ nat' = [nat EXCEPT ![w.of] = "pending"] /\ faults' = faults
       \/ /\ ~st[w.of].cancel /\ Fault /\ st' = [st EXCEPT ![w.of].error = TRUE] /\ nat' = nat       \* refused
       \/ /\ ~st[w.of].cancel /\ Fault                   \* refused with the record made: quarantined
          /\ st' = [st EXCEPT ![w.of].error = TRUE, ![w.of].token = TRUE] /\ nat' = [nat EXCEPT ![w.of] = "unsure"]
    /\ UNCHANGED <<ret, lane, cw, others, lost>>
worker_done ==
    /\ w.at = "done" /\ w' = [of |-> 0, at |-> "none"] /\ st' = [st EXCEPT ![w.of].done = TRUE]
    /\ UNCHANGED <<ret, lane, nat, cw, others, lost, faults>>

\* raw_tx_poll: when a started send is over.
Ready(s, o) ==
    /\ s.submitted => s.done
    /\ \/ s.cancel \/ s.error
       \/ s.submitted /\ nat[o] \in {"completed", "terminated", "fault"}

\* raw_tx_destroy: a request that was not granted is withdrawn, a lane without a
\* lease given back; a lease goes to s_retired with what belongs to it.
Hands(s) == s.lease
send_destroy(o) ==
    /\ st[o].phase \in {"started", "settled"} /\ Ready(st[o], o)
    /\ LET s == st[o] IN
       /\ lane' = IF s.lane /\ ~Hands(s) THEN [req |-> Without(lane.req, o), active |-> lane.active /\ ~s.acquired] ELSE lane
       /\ IF Hands(s)
          THEN /\ Serviced([NoRetired EXCEPT !.of = o, !.active = TRUE, !.busy = ret.busy, !.stop = TRUE, !.lease = TRUE,
                                               !.token = s.token, !.lane = TRUE])
               /\ lost' = (lost \/ ret.active)
          ELSE Serviced(ret) /\ lost' = lost
    /\ st' = [st EXCEPT ![o] = Gone]
    /\ UNCHANGED <<nat, w, others>>

\* raw_tx_cancel and raw_tx_on_timeout: a send that has not started ends at once.
send_cancel(o) ==
    /\ st[o].phase \in {"queued", "started"} /\ ~st[o].cancel
    /\ st' = [st EXCEPT ![o] = IF @.phase = "queued" THEN Gone ELSE [@ EXCEPT !.phase = "settled", !.cancel = TRUE]]
    /\ UNCHANGED <<ret, lane, nat, w, cw, others, lost, faults>>

runtime_service == Serviced(ret) /\ ret' # ret /\ UNCHANGED <<st, lane, nat, w, others, lost>>

\* raw_tx_cleanup_worker: the record retired, then the radio given back and
\* stopped if idle, then the lane; what failed is tried again later.
cleanup_copy ==
    /\ cw.at = "copy" /\ cw' = [at |-> "work", r |-> ret, error |-> FALSE]
    /\ UNCHANGED <<st, ret, lane, nat, w, others, lost, faults>>
Retirable(o) == nat[o] \in {"completed", "terminated"}
cleanup_work ==
    /\ cw.at = "work"
    /\ LET kept == cw.r.token /\ ~Retirable(cw.r.of)
           r == [cw.r EXCEPT !.token = kept]
       IN \/ /\ kept /\ cw' = [cw EXCEPT !.at = "publish", !.error = TRUE] /\ UNCHANGED <<lane, faults>>
          \/ /\ ~kept /\ faults' = faults
             /\ cw' = [cw EXCEPT !.at = "publish", !.r = [r EXCEPT !.lease = FALSE, !.stop = FALSE, !.lane = FALSE]]
             /\ lane' = IF r.lane THEN [req |-> Without(lane.req, r.of), active |-> FALSE] ELSE lane
          \/ /\ ~kept /\ (r.lease \/ r.stop) /\ Fault /\ lane' = lane
             /\ \E l \in {r.lease, FALSE} : cw' = [at |-> "publish", r |-> [r EXCEPT !.lease = l, !.stop = TRUE], error |-> TRUE]
    /\ UNCHANGED <<st, ret, nat, w, others, lost>>
cleanup_publish ==
    /\ cw.at = "publish"
    /\ LET on == cw.r.token \/ cw.r.lease \/ cw.r.lane \/ cw.error IN
       ret' = IF on THEN [cw.r EXCEPT !.active = TRUE, !.busy = FALSE, !.later = TRUE] ELSE NoRetired
    /\ cw' = [at |-> "none", r |-> NoRetired, error |-> FALSE]
    /\ UNCHANGED <<st, lane, nat, w, others, lost, faults>>
-------------------------------------------------------------------------------
(* The environment: time, the sessions' use of the lane, and the driver. *)

retry_due == /\ ret.later /\ ret' = [ret EXCEPT !.later = FALSE]
             /\ UNCHANGED <<st, lane, nat, w, cw, others, lost, faults>>
session_request ==
    /\ others < MaxOthers /\ Len(lane.req) < Capacity /\ \A i \in DOMAIN lane.req : lane.req[i] # Session
    /\ lane' = [lane EXCEPT !.req = Append(@, Session)] /\ others' = others + 1
    /\ UNCHANGED <<st, ret, nat, w, cw, lost, faults>>
session_acquire ==
    /\ lane.req # <<>> /\ Head(lane.req) = Session /\ ~lane.active
    /\ lane' = [lane EXCEPT !.active = TRUE]
    /\ UNCHANGED <<st, ret, nat, w, cw, others, lost, faults>>
session_release ==
    /\ lane.req # <<>> /\ Head(lane.req) = Session /\ lane.active
    /\ lane' = [req |-> Tail(lane.req), active |-> FALSE]
    /\ UNCHANGED <<st, ret, nat, w, cw, others, lost, faults>>

\* The broker's word on a frame: it completes, its callback cannot be matched, or
\* the radio is recovered.
driver_tells(o) ==
    /\ nat[o] \in {"pending", "unsure", "fault"}
    /\ \/ nat[o] = "pending" /\ nat' = [nat EXCEPT ![o] = "completed"] /\ faults' = faults
       \/ nat[o] = "pending" /\ Fault /\ nat' = [nat EXCEPT ![o] = "fault"]
       \/ nat[o] # "pending" /\ nat' = [nat EXCEPT ![o] = "terminated"] /\ faults' = faults
    /\ UNCHANGED <<st, ret, lane, w, cw, others, lost>>

Steps(o) == send_schedule(o) \/ send_destroy(o)
Worker == worker_acquire \/ worker_submit \/ worker_done
Cleanup == cleanup_copy \/ cleanup_work \/ cleanup_publish
Next ==
    \/ \E o \in Sends : send_capture(o) \/ send_start(o) \/ Steps(o) \/ send_cancel(o) \/ driver_tells(o)
    \/ Worker \/ Cleanup \/ runtime_service \/ retry_due \/ session_request \/ session_acquire \/ session_release

\* Workers run, the loop polls and services, sessions give the lane back, and the
\* driver tells of a frame in the end.
Weak(k) ==
    CASE k = 1 -> Worker \/ Cleanup
      [] k = 2 -> retry_due \/ runtime_service
      [] k = 3 -> \E o \in Sends : driver_tells(o)
      [] OTHER -> (\E o \in Sends : send_destroy(o)) \/ session_acquire \/ session_release
Spec == Init /\ [][Next]_vars
FairSpec == Spec /\ \A k \in 1 .. 4 : WF_vars(Weak(k))
-------------------------------------------------------------------------------
TypeOK ==
    /\ \A o \in Sends : st[o].phase \in {"none", "queued", "started", "settled", "gone"}
    /\ w.at \in {"none", "begin", "submit", "done"} /\ cw.at \in {"none", "copy", "work", "publish"}

\* The lane is exact: whoever has it is the first in it, every request has one
\* holder (a send, or the retired slot or its clean-up), and the radio is leased
\* only under the lane.
Holders(o) == {x \in {"send", "retired"} : \/ x = "send" /\ st[o].lane
                                           \/ x = "retired" /\ ret.of = o /\ ret.lane}
LaneExact ==
    /\ \A o \in Sends : st[o].acquired => lane.active /\ Head(lane.req) = o
    /\ \A o \in Sends : (\E i \in DOMAIN lane.req : lane.req[i] = o) =>
                            Cardinality(Holders(o)) = 1 \/ (cw.at = "publish" /\ cw.r.of = o)
    /\ \A o \in Sends : st[o].lease => st[o].acquired
    /\ ret.lease /\ cw.at # "publish" => lane.active /\ Head(lane.req) = ret.of

\* While the driver may still use a frame, the send or the retired slot keeps its
\* record, its lease and the lane, so no other frame can be handed over.
FrameHeld ==
    \A o \in Sends : nat[o] \in {"pending", "unsure", "fault"} =>
        \/ st[o].token /\ st[o].lease /\ st[o].acquired
        \/ ret.of = o /\ ret.token /\ ret.lease /\ ret.lane

\* The retired slot is never overwritten while it holds something.
NothingLost == ~lost

\* The worker's send exists until the worker has said that it is done.
WorkerHoldsSend == w.at # "none" => st[w.of].phase \in {"started", "settled"}

RawTxSendSafe == TypeOK /\ LaneExact /\ FrameHeld /\ NothingLost /\ WorkerHoldsSend

\* What a send left behind is cleaned up once the driver is done with the frame.
Owed(k) == k = 1 /\ ret.active
Paid(k) == ~ret.active
RetiredEnds == Owed(1) ~> Paid(1)
=============================================================================
