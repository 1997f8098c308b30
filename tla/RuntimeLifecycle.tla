--------------------------- MODULE RuntimeLifecycle --------------------------
(***************************************************************************)
(* The managed runtime: esp32qjs_runtime.c.  A host task creates, starts,  *)
(* stops and destroys a runtime; the runtime task runs the generations of  *)
(* the JavaScript engine, replaces one on request and leaves when asked to *)
(* stop; JavaScript and the host request restarts and reboots.             *)
(*                                                                         *)
(* Fields that both tasks touch are read and written one step at a time;   *)
(* a section under lifecycle_lock is one step.  The engine's own work      *)
(* (creation, teardown, JavaScript) is seen through its outcome.  Time is  *)
(* the moment a request falls due.                                         *)
(***************************************************************************)
EXTENDS Naturals, FiniteSets

CONSTANTS MaxStarts,        \* bound on runtime tasks over the runtime's life
          MaxRequests       \* bound on accepted control requests

Tasks == 1..MaxStarts
None == 0
States == {"created", "starting", "running", "quiescing", "restarting", "stopping",
           "stopped", "failed"}

VARIABLES
    alive,              \* the runtime's memory has not been freed
    task, running, stop_requested, state, stopped,  \* stopped is the semaphore
    generation, restart_count,
    pending, due,       \* pending_action or "none"; whether its time has come
    ctx,                \* the context exists
    pc, failed,         \* each runtime task's position and its local failed
    action,             \* the action a task has taken
    host, saw_failed,   \* the host's position and what it read
    answer,             \* what the host knows: new, started, stopped, early or timeout
    reset,              \* esp_restart has been called
    accepted, performed, replaced   \* history

flags == <<task, running, stop_requested, stopped>>
counters == <<generation, restart_count>>
control == <<pending, due, action>>
history == <<accepted, performed, replaced>>
vars == <<alive, flags, state, counters, control, ctx, pc, failed, host, saw_failed,
          answer, reset, history>>

\* esp32qjs_runtime_create, once its resources and first generation exist.
Init ==
    /\ alive = TRUE /\ task = None /\ running = FALSE /\ stop_requested = FALSE
    /\ state = "starting" /\ stopped = FALSE /\ generation = 1 /\ restart_count = 0
    /\ pending = "none" /\ due = FALSE /\ action = "none" /\ ctx = TRUE
    /\ pc = [t \in Tasks |-> "unborn"] /\ failed = [t \in Tasks |-> FALSE]
    /\ host = "idle" /\ saw_failed = FALSE /\ answer = "new" /\ reset = FALSE
    /\ accepted = 0 /\ performed = 0 /\ replaced = 0

Goto(t, label) == pc' = [pc EXCEPT ![t] = label]
\* The task exists: it has been created and has not deleted itself.
Exists(t) == pc[t] \notin {"unborn", "gone"}
\* The task has cleared runtime->task and still uses the runtime.
InWindow(t) == pc[t] \in {"mark", "give"}
\* Assumption: the host does not act in that window (see the README).
HostMayAct == alive /\ ~reset /\ \A t \in Tasks : ~InWindow(t)
-------------------------------------------------------------------------------
(* Requests for a restart or a reboot. *)

\* runtime_request_control_hook, from JavaScript on the runtime task or from
\* the host; the delay decides when it falls due.
request_control(a) ==
    /\ alive /\ ~reset /\ accepted < MaxRequests
    /\ host = "idle" \/ \E t \in Tasks : pc[t] \in {"startup", "run"}
    /\ pending = "none" /\ state \in {"running", "starting"}
    /\ pending' = a /\ due' = FALSE /\ accepted' = accepted + 1
    /\ UNCHANGED <<alive, flags, state, counters, action, ctx, pc, failed, host, saw_failed,
                   answer, reset, performed, replaced>>

\* The time of the request comes.
FallsDue ==
    /\ pending # "none" /\ ~due /\ due' = TRUE
    /\ UNCHANGED <<alive, flags, state, counters, pending, action, ctx, pc, failed, host,
                   saw_failed, answer, reset, history>>
-------------------------------------------------------------------------------
(* The runtime task. *)

Begin(t) ==
    /\ pc[t] = "born" /\ running' = TRUE /\ Goto(t, "loop")
    /\ UNCHANGED <<alive, task, stop_requested, stopped, state, counters, control, ctx,
                   failed, host, saw_failed, answer, reset, history>>

\* runtime_take_due_control.
TakeDue == action' = pending /\ pending' = "none" /\ due' = FALSE

\* The outer loop: stop, take a request that is due, or run.
Loop(t) ==
    /\ pc[t] = "loop"
    /\ \/ stop_requested /\ Goto(t, "leave") /\ UNCHANGED <<control, history>>
       \/ /\ ~stop_requested /\ due /\ TakeDue /\ Goto(t, "taken")
          /\ performed' = performed + 1 /\ UNCHANGED <<accepted, replaced>>
       \/ ~stop_requested /\ ~due /\ Goto(t, "startup") /\ UNCHANGED <<control, history>>
    /\ UNCHANGED <<alive, flags, state, counters, ctx, failed, host, saw_failed, answer, reset>>

\* runtime_handle_due_control: a reboot ends everything, a restart first
\* quiesces the generation.
HandleTaken(t) ==
    /\ pc[t] = "taken" /\ action' = "none"
    /\ \/ action = "reboot" /\ state' = "stopping" /\ reset' = TRUE /\ UNCHANGED pc
       \/ action = "restart" /\ state' = "quiescing" /\ Goto(t, "quiesce") /\ UNCHANGED reset
    /\ UNCHANGED <<alive, flags, counters, pending, due, ctx, failed, host, saw_failed,
                   answer, history>>

\* runtime_destroy_generation: tried until it succeeds or the deadline passes.
Quiesce(t) ==
    /\ pc[t] = "quiesce"
    /\ \/ ctx' = FALSE /\ Goto(t, "replace")
       \/ ctx /\ Goto(t, "fail") /\ UNCHANGED ctx
    /\ UNCHANGED <<alive, flags, state, counters, control, failed, host, saw_failed, answer,
                   reset, history>>

\* runtime_restart_generation counts the new generation before it creates it ...
CountNew == generation' = generation + 1 /\ restart_count' = restart_count + 1
Replace(t) ==
    /\ pc[t] = "replace" /\ state' = "restarting" /\ Goto(t, "create") /\ CountNew
    /\ UNCHANGED <<alive, flags, control, ctx, failed, host, saw_failed, answer, reset, history>>
CreateBegin(t) ==
    /\ pc[t] = "create" /\ state' = "starting" /\ Goto(t, "creating")
    /\ UNCHANGED <<alive, flags, counters, control, ctx, failed, host, saw_failed, answer,
                   reset, history>>

\* ... and takes the count back when the creation fails.
Rollback == generation' = generation - 1 /\ restart_count' = restart_count - 1

\* A creation that fails half way may leave its context behind.
CreateEnd(t) ==
    /\ pc[t] = "creating"
    /\ \/ /\ ctx' = TRUE /\ Goto(t, "startup") /\ replaced' = replaced + 1
          /\ UNCHANGED <<counters, accepted, performed>>
       \/ ctx' \in BOOLEAN /\ Rollback /\ Goto(t, "fail") /\ UNCHANGED history
    /\ UNCHANGED <<alive, flags, state, control, failed, host, saw_failed, answer, reset>>

\* A restart that failed: restart_failure_action says whether to reboot or to
\* mark the runtime and leave.
Fail(t) ==
    /\ pc[t] = "fail" /\ state' = "failed"
    /\ \/ reset' = TRUE /\ UNCHANGED pc
       \/ Goto(t, "failed") /\ UNCHANGED reset
    /\ UNCHANGED <<alive, flags, counters, control, ctx, failed, host, saw_failed, answer, history>>
ReadFailed(t) ==
    /\ pc[t] = "failed" /\ failed' = [failed EXCEPT ![t] = state = "failed"]
    /\ Goto(t, "leave")
    /\ UNCHANGED <<alive, flags, state, counters, control, ctx, host, saw_failed, answer,
                   reset, history>>

\* runtime_run_startup: an exception of the startup script reboots.
Startup(t) ==
    /\ pc[t] = "startup"
    /\ \/ ctx /\ reset' = TRUE /\ UNCHANGED <<pc, state>>
       \/ state' = "running" /\ Goto(t, "run") /\ UNCHANGED reset
    /\ UNCHANGED <<alive, flags, counters, control, ctx, failed, host, saw_failed, answer, history>>

\* Mutations: the poll loop looks at one reason to end only.
PollEnds_due == due
\* The poll loop ends when a stop or a due request is seen.
PollEnds == stop_requested \/ due
Run(t) ==
    /\ pc[t] = "run" /\ PollEnds /\ Goto(t, "loop")
    /\ UNCHANGED <<alive, flags, state, counters, control, ctx, failed, host, saw_failed,
                   answer, reset, history>>

\* The last steps of runtime_task, one by one.
Leave(t) ==
    /\ pc[t] = "leave" /\ running' = FALSE /\ Goto(t, "clear")
    /\ UNCHANGED <<alive, task, stop_requested, stopped, state, counters, control, ctx,
                   failed, host, saw_failed, answer, reset, history>>
Clear(t) ==
    /\ pc[t] = "clear" /\ task' = None /\ Goto(t, "mark")
    /\ UNCHANGED <<alive, running, stop_requested, stopped, state, counters, control, ctx,
                   failed, host, saw_failed, answer, reset, history>>
Mark(t) ==
    /\ pc[t] = "mark" /\ state' = (IF failed[t] THEN state ELSE "stopped") /\ Goto(t, "give")
    /\ UNCHANGED <<alive, flags, counters, control, ctx, failed, host, saw_failed, answer,
                   reset, history>>
Give(t) ==
    /\ pc[t] = "give" /\ stopped' = TRUE /\ Goto(t, "gone")
    /\ UNCHANGED <<alive, task, running, stop_requested, state, counters, control, ctx,
                   failed, host, saw_failed, answer, reset, history>>
-------------------------------------------------------------------------------
(* The host task. *)

\* Mutation: an old signal of the semaphore is left.
ClearSignal_not == UNCHANGED stopped
ClearSignal == stopped' = FALSE

NoTask == task = None /\ ~running

\* esp32qjs_runtime_start: flags first, then the task, or its failure.
start ==
    /\ host = "idle" /\ HostMayAct /\ NoTask
    /\ stop_requested' = FALSE /\ state' = "starting" /\ host' = "start"
    /\ UNCHANGED <<alive, task, running, stopped, counters, control, ctx, pc, failed,
                   saw_failed, answer, reset, history>>
StartCreate ==
    /\ host = "start" /\ ~reset /\ host' = "idle" /\ ClearSignal
    /\ \/ \E t \in Tasks :
            /\ pc[t] = "unborn" /\ \A u \in Tasks : u < t => pc[u] # "unborn"
            /\ task' = t /\ Goto(t, "born") /\ answer' = "started" /\ UNCHANGED state
       \/ task' = None /\ state' = "created" /\ UNCHANGED <<pc, answer>>
    /\ UNCHANGED <<alive, running, stop_requested, counters, control, ctx, failed, saw_failed,
                   reset, history>>

\* esp32qjs_runtime_stop: nothing to do without a task ...
stop ==
    /\ host = "idle" /\ HostMayAct
    /\ \/ /\ NoTask /\ answer \notin {"new", "stopped", "early"}
          /\ answer' = "early" /\ UNCHANGED <<host, saw_failed>>
       \/ /\ ~NoTask
          /\ host' = "stop" /\ saw_failed' = (state = "failed") /\ UNCHANGED answer
    /\ UNCHANGED <<alive, flags, state, counters, control, ctx, pc, failed, reset, history>>
\* ... esp32qjs_runtime_request_stop does not hide a failure it has seen ...
StopState ==
    /\ host = "stop" /\ ~reset /\ host' = "ask" /\ saw_failed' = FALSE
    /\ state' = IF saw_failed THEN state ELSE "stopping"
    /\ UNCHANGED <<alive, flags, counters, control, ctx, pc, failed, answer, reset, history>>
StopAsk ==
    /\ host = "ask" /\ ~reset /\ host' = "wait" /\ stop_requested' = TRUE
    /\ UNCHANGED <<alive, task, running, stopped, state, counters, control, ctx, pc, failed,
                   saw_failed, answer, reset, history>>
\* ... and the wait ends with the semaphore or at its timeout.
StopWait ==
    /\ host = "wait" /\ ~reset /\ host' = "idle"
    /\ \/ stopped /\ stopped' = FALSE /\ answer' = "stopped"
       \/ ~stopped /\ answer' = "timeout" /\ UNCHANGED stopped
    /\ UNCHANGED <<alive, task, running, stop_requested, state, counters, control, ctx, pc,
                   failed, saw_failed, reset, history>>

\* esp32qjs_runtime_destroy: refused while a task is known, or while the
\* context cannot be torn down; otherwise everything is freed.
destroy ==
    /\ host = "idle" /\ HostMayAct /\ NoTask
    /\ alive' = FALSE /\ ctx' = FALSE
    /\ UNCHANGED <<flags, state, counters, control, pc, failed, host, saw_failed, answer,
                   reset, history>>
-------------------------------------------------------------------------------
TaskStep(t) ==
    /\ ~reset
    /\ \/ Begin(t) \/ Loop(t) \/ HandleTaken(t) \/ Quiesce(t) \/ Replace(t) \/ CreateBegin(t)
       \/ CreateEnd(t) \/ Fail(t) \/ ReadFailed(t) \/ Startup(t) \/ Run(t)
       \/ Leave(t) \/ Clear(t) \/ Mark(t) \/ Give(t)
HostStep == StartCreate \/ StopState \/ StopAsk \/ StopWait

Next ==
    \/ \E a \in {"restart", "reboot"} : request_control(a)
    \/ FallsDue
    \/ \E t \in Tasks : TaskStep(t)
    \/ HostStep \/ start \/ stop \/ destroy

Spec == Init /\ [][Next]_vars

\* The scheduler runs every task, and time passes.  Nobody has to call.
Weak(k) == \/ k = 1 /\ FallsDue
           \/ k = 2 /\ HostStep
           \/ k \in {t + 2 : t \in Tasks} /\ TaskStep(k - 2)
Fairness == \A k \in 1 .. MaxStarts + 2 : WF_vars(Weak(k))
FairSpec == Spec /\ Fairness
-------------------------------------------------------------------------------
(* Properties. *)

TypeOK ==
    /\ alive \in BOOLEAN /\ task \in Tasks \union {None} /\ running \in BOOLEAN
    /\ stop_requested \in BOOLEAN /\ state \in States /\ stopped \in BOOLEAN
    /\ generation \in 1..MaxRequests + 1 /\ restart_count \in 0..MaxRequests
    /\ pending \in {"none", "restart", "reboot"} /\ due \in BOOLEAN /\ ctx \in BOOLEAN
    /\ action \in {"none", "restart", "reboot"}
    /\ pc \in [Tasks -> {"unborn", "born", "loop", "taken", "quiesce", "replace", "create",
                         "creating", "fail", "failed", "startup", "run", "leave", "clear",
                         "mark", "give", "gone"}]
    /\ failed \in [Tasks -> BOOLEAN] /\ saw_failed \in BOOLEAN
    /\ host \in {"idle", "start", "stop", "ask", "wait"}
    /\ answer \in {"new", "started", "stopped", "early", "timeout"} /\ reset \in BOOLEAN
    /\ accepted \in 0..MaxRequests /\ performed \in Nat /\ replaced \in Nat

\* At most one runtime task exists, so that a context has one user; and after
\* stop() has answered that the runtime is stopped, no runtime task is left that
\* could still run JavaScript: the answer is never an old signal.
StoppedIsStopped ==
    /\ TypeOK
    /\ \A t, u \in Tasks : Exists(t) /\ Exists(u) => t = u
    /\ answer \in {"stopped", "early"} => \A t \in Tasks : ~Exists(t)

\* An accepted request is performed at most once and is lost only by being still
\* pending; the generation counts the generations that really came up: a failed
\* restart leaves no trace in it.
RequestsExact ==
    /\ accepted = performed + (IF pending = "none" THEN 0 ELSE 1)
    /\ (\A t \in Tasks : pc[t] \notin {"create", "creating"}) =>
           generation = replaced + 1 /\ restart_count = replaced

\* Both of them, and with them the types.
RuntimeSafe == StoppedIsStopped /\ RequestsExact

\* A stop that is asked for ends the runtime task, whatever it is doing.
Stopping == stop_requested /\ task # None
StopEnds == Stopping ~> (task = None \/ reset)

\* A request that is accepted is performed, unless the runtime is stopped.
Accepted == pending # "none" /\ task # None
RequestPerformed == Accepted ~> (~Accepted \/ stop_requested \/ reset)

\* The two of them, by number.
Owed(k) == (k = 1 /\ Stopping) \/ (k = 2 /\ Accepted)
Paid(k) ==
    \/ reset
    \/ k = 1 /\ task = None
    \/ k = 2 /\ (~Accepted \/ stop_requested)
===============================================================================
