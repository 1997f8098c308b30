---------------------------- MODULE RawTxPeriodic ----------------------------
(***************************************************************************)
(* A periodic transmission of one frame: the ledger of what was due and    *)
(* what became of it (wifi_raw_tx_periodic.c), the job that a background   *)
(* worker serves for it (wifi_raw_tx_periodic_job.c), and the script's     *)
(* handle and Futures (wifi_raw_tx_public_periodic.c).  The worker is      *)
(* started by a timer's callback, which holds no reference of the job, and *)
(* by the runtime's loop; the job ends once its schedule is over, its last *)
(* packet settled and its timer deleted.  What becomes of a packet that    *)
(* the session admitted is RawTxSession's.                                 *)
(***************************************************************************)
EXTENDS Naturals, FiniteSets

CONSTANTS
    Interval, Count,     \* options: the period, and how often (0: without end)
    CountMax,            \* the largest count, UINT32_MAX in the code
    StopWhenBusy, StopOnError,
    MaxTime, MaxFaults   \* bounds

VARIABLES
    now,       \* the clock
    led,       \* the ledger
    job,       \* the job: its references, flags and what it holds
    w,         \* its worker
    cb,        \* the timer's callback
    svc,       \* the loop's service holds a reference of the job
    own,       \* who else holds one: the start's Future, the handle, a close's Future
    res,       \* the session's result record: kind, and whether the driver took it
    session,   \* the session is open
    later,     \* the next service is not due yet
    faults

vars == <<now, led, job, w, cb, svc, own, res, session, later, faults>>

Outcomes == {"success", "failed", "unknown", "rejected", "aborted", "dropped"}
Totals == [o \in Outcomes |-> 0]
NoResult == [kind |-> "none", submitted |-> FALSE]
Idle == [at |-> "none", start |-> FALSE, due |-> FALSE, copy |-> FALSE, retire |-> FALSE, failed |-> FALSE]
\* The ledger after esp32_mquickjs_wifi_raw_tx_periodic_init.
NewLedger == [next |-> now, last |-> now, running |-> TRUE, faulted |-> FALSE, exhausted |-> FALSE, uncertain |-> FALSE,
              scheduled |-> 0, late |-> 0, busy |-> 0, issued |-> 0, submitted |-> 0, active |-> 0, out |-> FALSE, by |-> Totals]
NoJob == [state |-> "none", refs |-> 0, busy |-> FALSE, retired |-> FALSE, stop |-> FALSE, close |-> FALSE, ready |-> FALSE,
          timer |-> "none", stopped |-> FALSE, session |-> FALSE, frame |-> FALSE, token |-> FALSE, settled |-> FALSE]

Init ==
    /\ now = 0 /\ led = NewLedger /\ job = NoJob /\ w = Idle /\ cb = "idle" /\ svc = FALSE
    /\ own = [start |-> FALSE, handle |-> FALSE, close |-> FALSE]
    /\ res = NoResult /\ session = TRUE /\ later = FALSE /\ faults = 0

Fault == faults < MaxFaults /\ faults' = faults + 1
Live == job.state = "live"
-------------------------------------------------------------------------------
(* The ledger: functions of a ledger. *)

Stopped(l) == [l EXCEPT !.running = FALSE]
Halted(l) == [l EXCEPT !.running = FALSE, !.faulted = TRUE]
\* exhausted.
Exhausted(l) == [Halted(l) EXCEPT !.exhausted = TRUE]
SkippedBusy(l) == [l EXCEPT !.busy = @ + 1, !.running = @ /\ ~StopWhenBusy]

\* esp32_mquickjs_wifi_raw_tx_periodic_due: all periods that have passed are
\* scheduled, all but the last are late; that one is issued unless a packet is
\* still under way.
Due(l, t, busy) ==
    LET limit == IF Count # 0 THEN Count ELSE CountMax
        left == limit - l.scheduled
        passed == (t - l.next) \div Interval + 1
        n == IF passed > left THEN left ELSE passed
        seen == [l EXCEPT !.last = t]
        counted == [seen EXCEPT !.scheduled = @ + n, !.late = @ + n - 1]
        moved == IF n < left THEN [counted EXCEPT !.next = @ + n * Interval]
                 ELSE IF Count = 0 THEN Exhausted(counted) ELSE Stopped(counted)
    IN IF ~l.running THEN l
       ELSE IF t < l.last THEN Halted(l)
       ELSE IF t < l.next THEN seen
       ELSE IF busy \/ l.active # 0 THEN SkippedBusy(moved)
       ELSE [moved EXCEPT !.issued = @ + 1, !.active = moved.scheduled, !.out = FALSE]
Issued(l, m) == m.issued > l.issued

\* esp32_mquickjs_wifi_raw_tx_periodic_submitted.
Submitted(l) == IF l.out \/ l.uncertain THEN l ELSE [l EXCEPT !.out = TRUE, !.submitted = @ + 1]

\* esp32_mquickjs_wifi_raw_tx_periodic_finish: refused unless the outcome fits
\* what is known of the packet.
Completion(o) == o \in {"success", "failed", "unknown"}
MayFinish(l, o) == l.active # 0 /\ ~l.uncertain /\ (Completion(o) <=> l.out)
Finished(l, o) ==
    LET bad == o \in {"failed", "rejected", "dropped"} /\ StopOnError IN
    [l EXCEPT !.by[o] = @ + 1, !.active = 0, !.out = FALSE, !.running = @ /\ ~bad, !.faulted = @ \/ bad]

\* esp32_mquickjs_wifi_raw_tx_periodic_busy: the session was not idle after all.
Busy(l) == [SkippedBusy(l) EXCEPT !.issued = l.issued - 1, !.active = 0]

\* esp32_mquickjs_wifi_raw_tx_periodic_uncertain.
Uncertain(l) == [Halted(l) EXCEPT !.uncertain = TRUE]

\* esp32_mquickjs_wifi_raw_tx_periodic_terminated.
Terminated(l, accepted) ==
    [l EXCEPT !.submitted = IF accepted /\ ~l.out THEN @ + 1 ELSE @, !.by["aborted"] = @ + 1,
              !.running = FALSE, !.uncertain = FALSE, !.active = 0, !.out = FALSE]

\* esp32_mquickjs_wifi_raw_tx_periodic_drained.
Drained(l) == ~l.running /\ l.active = 0
-------------------------------------------------------------------------------
(* References of the job, and who schedules its worker. *)

\* esp32_mquickjs_wifi_raw_tx_periodic_job_release: the last one frees a job
\* that is retired.
Released(j) ==
    IF j.refs > 1 THEN [j EXCEPT !.refs = @ - 1]
    ELSE IF j.refs = 1 /\ j.retired THEN [j EXCEPT !.refs = 0, !.state = "freed"] ELSE j

\* Mutation: the worker that is submitted takes no reference.
Claimed_bare(j) == IF j.retired \/ j.refs = 0 THEN j ELSE [j EXCEPT !.busy = TRUE]
\* job_schedule from the moment the worker is claimed: checks again, takes a
\* reference and submits; otherwise gives up the claim.
Claimed(j) == IF j.retired \/ j.refs = 0 THEN j ELSE [j EXCEPT !.busy = TRUE, !.refs = @ + 1]

\* esp32_mquickjs_wifi_raw_tx_periodic_job_new, from the start's Future: one
\* reference is the caller's, one is given up by the worker that retires the job.
job_new ==
    /\ job.state = "none" /\ session
    /\ led' = NewLedger
    /\ job' = [NoJob EXCEPT !.state = "live", !.refs = 2, !.session = TRUE, !.frame = TRUE]
    /\ own' = [own EXCEPT !.start = TRUE]
    /\ UNCHANGED <<now, w, cb, svc, res, session, later, faults>>

\* job_stop and job_close: the schedule ends; the packet under way does not.
Stop(j) == [j EXCEPT !.stop = TRUE]
Close(j) == [j EXCEPT !.stop = TRUE, !.close = TRUE]

\* periodic_finish of the start: the handle takes the Future's reference.
start_finish ==
    /\ own.start /\ job.ready /\ ~led.faulted /\ ~job.close
    /\ own' = [own EXCEPT !.start = FALSE, !.handle = TRUE]
    /\ UNCHANGED <<now, led, job, w, cb, svc, res, session, later, faults>>

\* periodic_destroy of a start that failed, was cancelled or timed out.
start_destroy ==
    /\ own.start
    /\ led' = Stopped(led) /\ job' = Released(Close(job)) /\ own' = [own EXCEPT !.start = FALSE]
    /\ UNCHANGED <<now, w, cb, svc, res, session, later, faults>>

\* js_wifi_raw_periodic_stop.
periodic_stop ==
    /\ own.handle /\ ~job.stop
    /\ led' = Stopped(led) /\ job' = Stop(job)
    /\ UNCHANGED <<now, w, cb, svc, own, res, session, later, faults>>

\* close(): the Future holds the job until it is told that it is retired, or is
\* cancelled after the request was made.
close_start ==
    /\ own.handle /\ ~own.close
    /\ led' = Stopped(led) /\ job' = [Close(job) EXCEPT !.refs = @ + 1] /\ own' = [own EXCEPT !.close = TRUE]
    /\ UNCHANGED <<now, w, cb, svc, res, session, later, faults>>
close_finish ==
    /\ own.close /\ job.retired
    /\ job' = IF own.handle THEN Released(Released(job)) ELSE Released(job)
    /\ own' = [own EXCEPT !.close = FALSE, !.handle = FALSE]
    /\ UNCHANGED <<now, led, w, cb, svc, res, session, later, faults>>
close_cancel ==
    /\ own.close
    /\ job' = Released(job) /\ own' = [own EXCEPT !.close = FALSE]
    /\ UNCHANGED <<now, led, w, cb, svc, res, session, later, faults>>

\* status() of a handle whose job is retired gives it up; the finalizer closes
\* the job first.
handle_snapshot ==
    /\ own.handle /\ job.retired
    /\ job' = Released(job) /\ own' = [own EXCEPT !.handle = FALSE]
    /\ UNCHANGED <<now, led, w, cb, svc, res, session, later, faults>>
handle_finalize ==
    /\ own.handle /\ ~own.close
    /\ led' = Stopped(led) /\ job' = Released(Close(job)) /\ own' = [own EXCEPT !.handle = FALSE]
    /\ UNCHANGED <<now, w, cb, svc, res, session, later, faults>>

\* job_timer: the callback looks at the job, claims its worker, and submits it.
timer_fire ==
    /\ job.timer = "armed" /\ cb = "idle"
    /\ cb' = "called"
    /\ UNCHANGED <<now, led, job, w, svc, own, res, session, later, faults>>
timer_claim ==
    /\ cb = "called"
    /\ IF job.retired \/ job.busy THEN cb' = "idle" /\ job' = job
       ELSE cb' = "claimed" /\ job' = [job EXCEPT !.busy = TRUE]
    /\ UNCHANGED <<now, led, w, svc, own, res, session, later, faults>>
timer_submit ==
    /\ cb = "claimed" /\ cb' = "idle"
    /\ IF job.retired THEN job' = [job EXCEPT !.busy = FALSE] /\ w' = w /\ faults' = faults
       ELSE \/ job' = Claimed(job) /\ w' = [Idle EXCEPT !.at = "begin"] /\ faults' = faults
            \/ Fault /\ job' = [job EXCEPT !.busy = FALSE] /\ w' = w
    /\ UNCHANGED <<now, led, svc, own, res, session, later>>

\* jobs_service: a reference for every job that is not retired, then the worker
\* of those the timer does not (or no longer) serve.
service_begin ==
    /\ Live /\ ~job.retired /\ ~svc /\ ~later
    /\ svc' = TRUE /\ job' = [job EXCEPT !.refs = @ + 1]
    /\ UNCHANGED <<now, led, w, cb, own, res, session, later, faults>>
NeedsService == ~job.ready \/ job.stopped \/ job.timer = "none" \/ job.stop \/ job.close
service_schedule ==
    /\ svc /\ svc' = FALSE
    /\ \/ /\ NeedsService /\ ~job.retired /\ ~job.busy
          /\ job' = Released(Claimed(job)) /\ w' = [Idle EXCEPT !.at = "begin"]
       \/ /\ ~NeedsService \/ job.retired \/ job.busy
          /\ job' = Released(job) /\ w' = w
    /\ UNCHANGED <<now, led, cb, own, res, session, later, faults>>
-------------------------------------------------------------------------------
(* The worker. *)

\* job_worker: makes and starts the timer of a job that is still running.
worker_begin ==
    /\ w.at = "begin"
    /\ w' = [w EXCEPT !.at = "timer", !.start = ~job.ready /\ led.running]
    /\ UNCHANGED <<now, led, job, cb, svc, own, res, session, later, faults>>
worker_timer ==
    /\ w.at = "timer"
    /\ \/ /\ ~w.start /\ UNCHANGED <<job, led, faults>>
       \/ /\ w.start /\ job' = [job EXCEPT !.timer = "armed", !.ready = TRUE] /\ UNCHANGED <<led, faults>>
       \/ /\ w.start /\ Fault /\ job' = job /\ led' = Halted(led)
    /\ w' = [w EXCEPT !.at = "serve"]
    /\ UNCHANGED <<now, cb, svc, own, res, session, later>>

\* job_observe: what the session says of the packet under way.
Submission(l) == IF res.submitted THEN Submitted(l) ELSE l
Observed(l) ==
    LET m == Submission(l) IN
    IF ~job.token \/ res.kind = "pending" THEN IF job.token THEN m ELSE l
    ELSE IF res.kind = "uncertain" THEN Uncertain(m)
    ELSE IF res.kind = "terminated" THEN Halted(Terminated(m, res.submitted))
    ELSE IF MayFinish(m, res.kind) THEN Finished(m, res.kind) ELSE Halted(m)
Settles(l) ==
    /\ job.token
    /\ \/ res.kind = "terminated"
       \/ res.kind \in Outcomes /\ MayFinish(Submission(l), res.kind)

\* The part under the mutex: a session that closes closes the job, the packet is
\* observed and the next one taken from the schedule.
worker_serve ==
    /\ w.at = "serve"
    /\ \E others \in BOOLEAN :
        LET closing == ~session
            l == IF closing THEN Stopped(led) ELSE led
            seen == Observed(l)
            due == Due(seen, now, others)
        IN /\ led' = due
           /\ job' = [job EXCEPT !.stop = @ \/ closing, !.close = @ \/ closing, !.token = @ /\ ~Settles(l)]
           /\ res' = IF Settles(l) THEN NoResult ELSE res
           /\ w' = [w EXCEPT !.at = IF Issued(seen, due) THEN "issue" ELSE "end"]
    /\ UNCHANGED <<now, cb, svc, own, session, later, faults>>

\* The packet that is due: a stop that came meanwhile wins, then the copy and the
\* session decide.
worker_issue ==
    /\ w.at = "issue"
    /\ \/ job.stop /\ led' = Finished(led, "aborted") /\ UNCHANGED <<job, res, faults>>
       \/ ~job.stop /\ Fault /\ led' = Finished(led, "rejected") /\ UNCHANGED <<job, res>>      \* no memory
       \/ ~job.stop /\ session /\ led' = Busy(led) /\ UNCHANGED <<job, res, faults>>            \* not idle
       \/ ~job.stop /\ ~session /\ led' = Finished(led, "rejected") /\ UNCHANGED <<job, res, faults>>
       \/ /\ ~job.stop /\ session
          /\ job' = [job EXCEPT !.token = TRUE] /\ res' = [kind |-> "pending", submitted |-> FALSE]
          /\ UNCHANGED <<led, faults>>
    /\ w' = [w EXCEPT !.at = "end"]
    /\ UNCHANGED <<now, cb, svc, own, session, later>>

\* Mutation: a job that never became ready is not retired.
worker_end_ready ==
    /\ w.at = "end"
    /\ w' = [w EXCEPT !.at = "cleanup", !.retire = Drained(led) /\ ~job.token /\ job.ready]
    /\ UNCHANGED <<now, led, job, cb, svc, own, res, session, later, faults>>

worker_end ==
    /\ w.at = "end"
    /\ w' = [w EXCEPT !.at = "cleanup", !.retire = Drained(led) /\ ~job.token]
    /\ UNCHANGED <<now, led, job, cb, svc, own, res, session, later, faults>>

\* The timer of a job that retires: it no longer fires, the stop waits a tick for
\* a callback and fails if that takes longer; then the timer is deleted.
worker_stop ==
    /\ w.at = "cleanup"
    /\ IF w.retire /\ job.timer # "none"
       THEN /\ job' = [job EXCEPT !.timer = "held"]
            /\ w' = [w EXCEPT !.at = "wait"]
       ELSE job' = job /\ w' = [w EXCEPT !.at = "publish"]
    /\ UNCHANGED <<now, led, cb, svc, own, res, session, later, faults>>
worker_delete ==
    /\ w.at = "wait"
    /\ \/ /\ cb = "idle" /\ job' = [job EXCEPT !.timer = "none", !.stopped = TRUE]
          /\ w' = [w EXCEPT !.at = "publish"] /\ faults' = faults
       \/ /\ ~job.stopped /\ cb # "idle" /\ Fault /\ job' = [job EXCEPT !.timer = "armed"]
          /\ w' = [w EXCEPT !.at = "publish", !.failed = TRUE]
       \/ /\ cb = "idle" /\ Fault /\ job' = [job EXCEPT !.stopped = TRUE]
          /\ w' = [w EXCEPT !.at = "publish", !.failed = TRUE]
    /\ UNCHANGED <<now, led, cb, svc, own, res, session, later>>

\* What is left of a job that retires: its frame, its session, and the last
\* reference but those of others.
worker_publish ==
    /\ w.at = "publish"
    /\ LET done == w.retire /\ job.timer = "none" /\ ~w.failed
           j == [job EXCEPT !.busy = FALSE]
       IN /\ job' = IF done THEN Released(Released([j EXCEPT !.session = FALSE, !.frame = FALSE, !.retired = TRUE])) ELSE Released(j)
          /\ later' = TRUE
    /\ w' = Idle
    /\ UNCHANGED <<now, led, cb, svc, own, res, session, faults>>
-------------------------------------------------------------------------------
(* The environment: time, the session and its packets. *)

tick == /\ now < MaxTime /\ now' = now + 1
        /\ UNCHANGED <<led, job, w, cb, svc, own, res, session, later, faults>>
retry_due == /\ later /\ later' = FALSE
             /\ UNCHANGED <<now, led, job, w, cb, svc, own, res, session, faults>>
session_closes ==
    /\ session /\ job.state # "none" /\ session' = FALSE
    /\ UNCHANGED <<now, led, job, w, cb, svc, own, res, later, faults>>

\* How a packet of the session goes on: the driver takes it or not, and tells how
\* it ended; a packet it is unsure of ends when the radio is recovered.
packet_moves ==
    /\ job.token
    /\ res' \in
        CASE res.kind = "pending" /\ ~res.submitted ->
                {[kind |-> "pending", submitted |-> TRUE], [kind |-> "rejected", submitted |-> FALSE],
                 [kind |-> "dropped", submitted |-> FALSE], [kind |-> "aborted", submitted |-> FALSE],
                 [kind |-> "uncertain", submitted |-> FALSE]}
          [] res.kind = "pending" /\ res.submitted ->
                {[kind |-> k, submitted |-> TRUE] : k \in {"success", "failed", "unknown", "uncertain"}}
          [] res.kind = "uncertain" -> {[kind |-> "terminated", submitted |-> s] : s \in {res.submitted, TRUE}}
          [] OTHER -> {}
    /\ UNCHANGED <<now, led, job, w, cb, svc, own, session, later, faults>>

Calls == job_new \/ start_finish \/ start_destroy \/ periodic_stop \/ close_start \/ close_finish \/ close_cancel
         \/ handle_snapshot \/ handle_finalize
Timer == timer_fire \/ timer_claim \/ timer_submit
Service == service_begin \/ service_schedule
Worker == worker_begin \/ worker_timer \/ worker_serve \/ worker_issue \/ worker_end \/ worker_stop \/ worker_delete
          \/ worker_publish
Next == Calls \/ Timer \/ Service \/ Worker \/ tick \/ retry_due \/ session_closes \/ packet_moves

\* Workers and the timer's task run; the runtime's loop keeps servicing; the
\* session settles its packets.
Weak(k) == CASE k = 1 -> Worker [] k = 2 -> packet_moves [] k = 3 -> Timer [] OTHER -> retry_due
Strong(k) == IF k = 1 THEN service_begin ELSE service_schedule
Spec == Init /\ [][Next]_vars
FairSpec == Spec /\ (\A k \in 1 .. 4 : WF_vars(Weak(k))) /\ (\A k \in 1 .. 2 : SF_vars(Strong(k)))
-------------------------------------------------------------------------------
TypeOK ==
    /\ now \in 0 .. MaxTime /\ job.state \in {"none", "live", "freed"}
    /\ w.at \in {"none", "begin", "timer", "serve", "issue", "end", "cleanup", "wait", "publish"}
    /\ cb \in {"idle", "called", "claimed"} /\ job.timer \in {"none", "armed", "held"}

B(b) == IF b THEN 1 ELSE 0

\* Nobody meets a freed job: its references are those of the Futures, the handle,
\* the worker, the service and the retirement, the timer's callback (which has
\* none) runs only while the job is kept by its timer, and a freed job holds no
\* session, timer, frame or result (configASSERT in job_release).
JobHeld ==
    /\ job.state # "none" =>
        job.refs = B(own.start) + B(own.handle) + B(own.close) + B(svc) + B(w.at # "none") + B(~job.retired)
    /\ job.state = "freed" => ~job.session /\ job.timer = "none" /\ ~job.frame /\ ~job.token
    /\ cb # "idle" => Live /\ job.timer # "none" /\ ~job.retired
    /\ job.state = "freed" => job.refs = 0

\* One worker at a time serves the job.
OneWorker == (w.at # "none" \/ cb = "claimed") => job.busy /\ ~(w.at # "none" /\ cb = "claimed")

\* Every period is accounted for: as issued, late, or skipped because a packet was
\* under way; every packet issued has one outcome, or is under way, and those that
\* completed (or that recovery ended) were submitted.
LedgerExact ==
    LET Sum == led.by["success"] + led.by["failed"] + led.by["unknown"] IN
    /\ led.scheduled = led.issued + led.late + led.busy
    /\ led.issued = Sum + led.by["rejected"] + led.by["aborted"] + led.by["dropped"] + B(led.active # 0)
    /\ Sum + B(led.out) <= led.submitted
    /\ Count # 0 => led.scheduled <= Count

\* A packet under way is one the worker is about to hand over or one whose result
\* the job holds: a ticket is never lost, nor a result kept for no ticket.
TicketHeld ==
    /\ led.active # 0 /\ Live => job.token \/ w.at = "issue"
    /\ job.token => led.active # 0
    /\ w.at = "issue" => ~job.token /\ ~led.out /\ ~led.uncertain

\* A retired job has an exact ledger without anything under way.
RetiredDrained == job.retired => Drained(led) /\ ~job.token

PeriodicSafe == TypeOK /\ JobHeld /\ OneWorker /\ LedgerExact /\ TicketHeld /\ RetiredDrained

\* A job that was stopped, whose session closed or whose count is reached retires,
\* and so gives its session and memory back.
Owed(k) == k = 1 /\ Live /\ (job.stop \/ ~led.running)
Paid(k) == job.retired
StoppedRetires == Owed(1) ~> Paid(1)
=============================================================================
