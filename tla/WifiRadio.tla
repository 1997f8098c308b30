------------------------------ MODULE WifiRadio ------------------------------
(***************************************************************************)
(* The radio service (wifi_radio.c): the leases of the subsystems that use *)
(* the Wi-Fi driver, and its initialisation, start, widening, stop and     *)
(* shutdown.  One operation runs at a time, under the operation mutex, but *)
(* it waits for the driver's events: these come through the event loop, a  *)
(* queue, after the call that caused them, and some of an operation that   *)
(* timed out come during the next one.  A fence sent behind them tells     *)
(* that nothing older is left.                                             *)
(***************************************************************************)
EXTENDS Naturals, Sequences, FiniteSets, SequencesExt

CONSTANTS
    Interfaces,         \* the bits of wifi_mode_t
    Clients, ModeOf,    \* clients and the mode each requires
    Identities, Generations,   \* UINT32_MAX for event identities and driver generations
    MaxFaults                  \* bound

VARIABLES
    radio,       \* s_radio
    events,      \* s_radio.event_*
    handle,      \* generation in the lease of each client, or 0
    using,       \* clients whose ensure_started returned ESP_OK
    handler,     \* the event handler is registered
    call,        \* the operation that holds the mutex
    driver,      \* the Wi-Fi driver
    loop,        \* the default event loop's queue
    faults

vars == <<radio, events, handle, using, handler, call, driver, loop, faults>>

NoRadio(generation) ==
    [driver_state |-> "uninitialized", driver_owned |-> FALSE, configured |-> FALSE,
     started |-> FALSE, stop_required |-> FALSE, stop_submitted |-> FALSE, fault |-> "none",
     cleanup |-> "none", restart_required |-> FALSE, effective_mode |-> {},
     generation |-> generation]
NoEvents == [identity |-> 0, phase |-> "idle", expected |-> {}, seen |-> {}, revision |-> 0,
             posted |-> FALSE, fenced |-> FALSE, live |-> {}]
NoDriver == [init |-> FALSE, mode |-> {}, running |-> {}]
Idle == [pc |-> "idle", client |-> CHOOSE c \in Clients : TRUE, shutdown |-> FALSE]

Init ==
    /\ radio = NoRadio(1) /\ events = NoEvents /\ handle = [c \in Clients |-> 0]
    /\ using = {} /\ handler = FALSE /\ call = Idle /\ driver = NoDriver /\ loop = <<>>
    /\ faults = 0

Fault == faults < MaxFaults /\ faults' = faults + 1

\* wifi_radio_record_fault keeps the first fault; wifi_radio_cleanup_fault
\* also says that cleanup is pending.
Faulted(r, stage) == [r EXCEPT !.fault = IF @ = "none" THEN stage ELSE @,
                               !.driver_state = "faulted"]
CleanupFault(r, stage) == [Faulted(r, stage) EXCEPT !.cleanup = stage,
                                                    !.driver_state = "cleanup-pending"]
-------------------------------------------------------------------------------
(* Events: wifi_radio_observe_lifecycle_event and the fence. *)

\* wifi_radio_begin_events; the identities can run out.
CanBegin == events.identity < Identities
\* Mutation: the fence of the operation that timed out still counts as posted.
Begun_posted(phase, expected) ==
    [events EXCEPT !.identity = @ + 1, !.phase = phase, !.expected = expected, !.seen = {},
                   !.revision = 0, !.fenced = FALSE]

Begun(phase, expected) ==
    [events EXCEPT !.identity = @ + 1, !.phase = phase, !.expected = expected, !.seen = {},
                   !.revision = 0, !.posted = FALSE, !.fenced = FALSE]

\* What the driver posts when interfaces start or stop.
Posts(kind, modes) == [k \in 1 .. Cardinality(modes) |-> [kind |-> kind, on |-> SetToSeq(modes)[k]]]

Observed(e) ==
    LET x == [events EXCEPT !.live = IF e.kind = "start" THEN @ \union {e.on} ELSE @ \ {e.on}]
    IN IF events.phase = "idle" THEN x
       ELSE [x EXCEPT !.revision = @ + 1, !.posted = FALSE, !.fenced = FALSE,
                      !.seen = IF e.kind = events.phase THEN @ \union {e.on} ELSE @]

\* wifi_radio_lifecycle_fence: only the fence of this phase and revision counts.
FenceCounts(e) == events.phase # "idle" /\ events.posted
                  /\ e.identity = events.identity /\ e.revision = events.revision

\* The event loop delivers; without the handler events pass unseen.
wifi_radio_channel_event ==
    /\ loop # <<>> /\ loop' = Tail(loop)
    /\ LET e == Head(loop)
       IN events' = IF e.kind = "fence"
                    THEN IF FenceCounts(e) THEN [events EXCEPT !.fenced = TRUE] ELSE events
                    ELSE IF handler THEN Observed(e) ELSE events
    /\ UNCHANGED <<radio, handle, using, handler, call, driver, faults>>

\* wifi_radio_wait_events_inner
Ready == /\ events.expected \subseteq events.seen
         /\ IF events.phase = "stop" THEN events.live = {} ELSE events.expected \subseteq events.live

WaitOver == Ready /\ events.fenced

Waiting == call.pc # "idle"

wait_posts_fence ==
    /\ Waiting /\ Ready /\ ~events.fenced /\ ~events.posted
    /\ events' = [events EXCEPT !.posted = TRUE]
    /\ loop' = Append(loop, [kind |-> "fence", identity |-> events.identity,
                             revision |-> events.revision])
    /\ UNCHANGED <<radio, handle, using, handler, call, driver, faults>>

\* The wait times out, is interrupted, or the fence cannot be posted.
wait_fails ==
    /\ Waiting /\ ~WaitOver /\ Fault
    /\ radio' = IF call.pc = "stopping" THEN CleanupFault(radio, "stop-events")
                ELSE Faulted(radio, "start-events")
    /\ call' = Idle
    /\ UNCHANGED <<events, handle, using, handler, driver, loop>>
-------------------------------------------------------------------------------
(* Leases and start. *)

Free == call.pc = "idle"
Valid(c) == handle[c] # 0 /\ handle[c] = radio.generation
Leased == {c \in Clients : handle[c] # 0}
RequestedMode == UNION {ModeOf[c] : c \in Leased}

wifi_radio_acquire(c) ==
    /\ Free /\ handle[c] = 0 /\ radio.fault = "none"
    /\ handle' = [handle EXCEPT ![c] = radio.generation]
    /\ UNCHANGED <<radio, events, using, handler, call, driver, loop, faults>>

\* wifi_radio_initialize fails: in NVS or esp_wifi_init only a restart of the
\* device helps; in esp_wifi_set_storage or after it the driver stays owned.
initialize_fails(c) ==
    /\ Free /\ Valid(c) /\ radio.fault = "none" /\ ~radio.configured /\ Fault
    /\ handler' = TRUE
    /\ \/ radio' = [Faulted(radio, "init") EXCEPT !.restart_required = TRUE] /\ UNCHANGED driver
       \/ /\ radio' = [Faulted(radio, "storage") EXCEPT !.driver_owned = TRUE]
          /\ driver' = [NoDriver EXCEPT !.init = TRUE]
    /\ UNCHANGED <<events, handle, using, call, loop>>

Initialized == IF radio.configured THEN radio
               ELSE [radio EXCEPT !.driver_owned = TRUE, !.configured = TRUE,
                                  !.driver_state = "stopped"]
CurrentMode == IF radio.configured THEN driver.mode ELSE {}
MergedMode == IF radio.started THEN CurrentMode \union RequestedMode ELSE RequestedMode

\* wifi_radio_ensure_started_locked when the driver runs: it widens the mode
\* for the interfaces that are missing, or has nothing to do.
ensure_started_running(c) ==
    /\ Free /\ Valid(c) /\ radio.fault = "none" /\ radio.started
    /\ IF MergedMode = CurrentMode
       THEN /\ using' = using \union {c} /\ radio' = [radio EXCEPT !.effective_mode = MergedMode]
            /\ UNCHANGED <<events, call, driver, loop, faults>>
       ELSE /\ UNCHANGED using
            /\ \/ /\ ~CanBegin
                  /\ radio' = [Faulted(radio, "start-events") EXCEPT !.restart_required = TRUE]
                  /\ UNCHANGED <<events, call, driver, loop, faults>>
               \/ /\ CanBegin /\ events' = Begun("start", MergedMode \ CurrentMode)
                  /\ \/ /\ radio' = [radio EXCEPT !.driver_state = "starting",
                                                  !.effective_mode = MergedMode]
                        /\ driver' = [driver EXCEPT !.mode = MergedMode, !.running = MergedMode]
                        /\ loop' = loop \o Posts("start", MergedMode \ CurrentMode)
                        /\ call' = [Idle EXCEPT !.pc = "starting", !.client = c]
                        /\ UNCHANGED faults
                     \/ /\ Fault /\ radio' = Faulted(radio, "mode")
                        /\ UNCHANGED <<driver, loop, call>>
    /\ UNCHANGED <<handle, handler>>

\* ... and when it does not run: esp_wifi_set_mode, wifi_radio_start_stopped.
ensure_started_stopped(c) ==
    /\ Free /\ Valid(c) /\ radio.fault = "none" /\ ~radio.started
    /\ handler' = TRUE
    /\ \/ /\ ~CanBegin
          /\ radio' = [Faulted(Initialized, "start-events") EXCEPT
                          !.restart_required = TRUE, !.effective_mode = MergedMode]
          /\ driver' = [driver EXCEPT !.init = TRUE, !.mode = MergedMode]
          /\ UNCHANGED <<events, loop, call, faults>>
       \/ /\ Fault /\ radio' = Faulted(Initialized, "mode")
          /\ driver' = [driver EXCEPT !.init = TRUE]
          /\ UNCHANGED <<events, loop, call>>
       \/ /\ CanBegin /\ events' = Begun("start", MergedMode)
          /\ LET r == [Initialized EXCEPT !.effective_mode = MergedMode, !.stop_required = TRUE,
                                          !.driver_state = "starting"]
             IN \/ /\ radio' = [r EXCEPT !.started = TRUE]
                   /\ driver' = [init |-> TRUE, mode |-> MergedMode, running |-> MergedMode]
                   /\ loop' = loop \o Posts("start", MergedMode)
                   /\ call' = [Idle EXCEPT !.pc = "starting", !.client = c]
                   /\ UNCHANGED faults
                \/ /\ Fault /\ radio' = Faulted(r, "start")
                   /\ driver' = [driver EXCEPT !.init = TRUE, !.mode = MergedMode]
                   /\ UNCHANGED <<loop, call>>
    /\ UNCHANGED <<handle, using>>

start_done ==
    /\ call.pc = "starting" /\ WaitOver
    /\ events' = [events EXCEPT !.phase = "idle"]
    /\ radio' = [radio EXCEPT !.driver_state = "started"]
    /\ using' = using \union {call.client} /\ call' = Idle
    /\ UNCHANGED <<handle, handler, driver, loop, faults>>
-------------------------------------------------------------------------------
(* Release, stop and shutdown. *)

Released(c) == handle' = [handle EXCEPT ![c] = 0] /\ using' = using \ {c}

wifi_radio_release(c) ==
    /\ Free /\ Valid(c) /\ Released(c)
    /\ UNCHANGED <<radio, events, handler, call, driver, loop, faults>>

\* wifi_radio_stop_owners_locked from the point where esp_wifi_stop is due; a
\* retry neither begins another phase nor submits a second stop.
StopMayRun == ~radio.restart_required /\ radio.stop_required
StopPhase == IF events.phase = "stop" THEN events ELSE Begun("stop", events.live)

StopBegins(shutdown) ==
    \/ /\ events.phase # "stop" /\ ~CanBegin
       /\ radio' = [CleanupFault(radio, "stop-events") EXCEPT !.restart_required = TRUE]
       /\ UNCHANGED <<events, call, driver, loop, faults>>
    \/ /\ events.phase = "stop" \/ CanBegin
       /\ events' = StopPhase
       /\ \/ /\ radio' = [radio EXCEPT !.driver_state = "stopping", !.stop_submitted = TRUE]
             /\ IF radio.stop_submitted THEN UNCHANGED <<driver, loop>>
                ELSE /\ driver' = [driver EXCEPT !.running = {}]
                     /\ loop' = loop \o Posts("stop", driver.running)
             /\ call' = [Idle EXCEPT !.pc = "stopping", !.shutdown = shutdown]
             /\ UNCHANGED faults
          \/ /\ ~radio.stop_submitted /\ Fault /\ radio' = CleanupFault(radio, "stop")
             /\ UNCHANGED <<call, driver, loop>>

\* wifi_radio_stop, refused while anybody holds a lease.
\* Mutation: leases of clients that never started the radio do not count.
NoOwner_using == using = {}

NoOwner == Leased = {}

wifi_radio_stop ==
    /\ Free /\ NoOwner /\ StopMayRun /\ StopBegins(FALSE)
    /\ UNCHANGED <<handle, using, handler>>

wifi_radio_release_and_stop_idle(c) ==
    /\ Free /\ Valid(c) /\ Leased = {c} /\ StopMayRun
    /\ Released(c) /\ StopBegins(FALSE)
    /\ UNCHANGED handler

StopStages == {"stop", "stop-events"}
Stopped ==
    LET r == [radio EXCEPT !.started = FALSE, !.stop_required = FALSE, !.stop_submitted = FALSE,
                  !.cleanup = IF @ \in StopStages THEN "none" ELSE @,
                  !.fault = IF radio.cleanup \in StopStages /\ @ \in StopStages THEN "none" ELSE @]
    IN [r EXCEPT !.driver_state = IF r.fault = "none" THEN "stopped" ELSE "cleanup-pending"]

stop_done ==
    /\ call.pc = "stopping" /\ WaitOver
    /\ events' = [events EXCEPT !.phase = "idle"]
    /\ radio' = Stopped
    /\ call' = IF call.shutdown THEN [Idle EXCEPT !.pc = "shutdown"] ELSE Idle
    /\ UNCHANGED <<handle, using, handler, driver, loop, faults>>

\* wifi_radio_shutdown_lease_locked
wifi_radio_shutdown ==
    /\ Free /\ NoOwner /\ StopMayRun /\ StopBegins(TRUE)
    /\ UNCHANGED <<handle, using, handler>>

\* Its teardown, at once when nothing has to be stopped: unregister the
\* handler, wait for its callbacks, esp_wifi_deinit, the next generation.
Uninitialized ==
    IF radio.driver_state = "uninitialized" THEN NoRadio(radio.generation)
    ELSE IF radio.generation < Generations THEN NoRadio(radio.generation + 1)
    ELSE [NoRadio(radio.generation) EXCEPT !.restart_required = TRUE,
             !.fault = "generation-exhausted", !.driver_state = "faulted"]

shutdown_teardown ==
    /\ \/ call.pc = "shutdown"
       \/ /\ Free /\ NoOwner /\ ~radio.restart_required /\ ~radio.stop_required
          /\ radio.driver_state # "uninitialized"
    /\ call' = Idle
    /\ \/ /\ handler' = FALSE /\ driver' = NoDriver /\ radio' = Uninitialized
          /\ UNCHANGED faults
       \/ /\ handler /\ Fault /\ radio' = CleanupFault(radio, "channel-unregister")
          /\ UNCHANGED <<handler, driver>>
       \/ /\ radio.driver_owned /\ Fault /\ radio' = CleanupFault(radio, "deinit")
          /\ handler' = FALSE /\ UNCHANGED driver
    /\ UNCHANGED <<events, handle, using, loop>>
-------------------------------------------------------------------------------
Next ==
    \/ wifi_radio_channel_event \/ wait_posts_fence \/ wait_fails \/ start_done \/ stop_done
    \/ wifi_radio_stop \/ wifi_radio_shutdown \/ shutdown_teardown
    \/ \E c \in Clients :
          \/ wifi_radio_acquire(c) \/ initialize_fails(c) \/ ensure_started_running(c)
          \/ ensure_started_stopped(c) \/ wifi_radio_release(c)
          \/ wifi_radio_release_and_stop_idle(c)

\* The event loop and the task that waits keep running.
Weak(k) ==
    \/ k = 1 /\ wifi_radio_channel_event
    \/ k = 2 /\ \/ wait_posts_fence \/ start_done \/ stop_done
                \/ call.pc = "shutdown" /\ shutdown_teardown
Fairness == \A k \in 1 .. 2 : WF_vars(Weak(k))

Spec == Init /\ [][Next]_vars
FairSpec == Spec /\ Fairness
-------------------------------------------------------------------------------
TypeOK ==
    /\ radio.cleanup # "none" => radio.fault # "none"
    /\ radio.started => radio.stop_required /\ radio.configured
    /\ using \subseteq Leased
    /\ events.live \subseteq Interfaces

Pending == {k \in 1 .. Len(loop) : loop[k].kind # "fence"}

\* An operation that ended well left nothing on its way: the service's view of
\* the interfaces is the driver's, and no late event will change it, whatever
\* operations timed out before.
Settled ==
    Free /\ radio.driver_state \in {"started", "stopped"} =>
        /\ events.live = driver.running /\ Pending = {}
        /\ driver.running = IF radio.driver_state = "started" THEN radio.effective_mode ELSE {}

\* A client that was told the radio has started keeps its interfaces until it
\* gives its lease back; the driver's generation cannot change under a lease.
UsersServed ==
    /\ \A c \in Leased : handle[c] = radio.generation
    /\ \A c \in using : ModeOf[c] \subseteq driver.running

\* A running driver is never forgotten: a stop is still owed, and an
\* initialised driver is owned until it is deinitialised.
DriverOwned ==
    /\ driver.running # {} => radio.stop_required
    /\ driver.init => radio.driver_owned

RadioSafe == TypeOK /\ Settled /\ UsersServed /\ DriverOwned

\* Every operation ends, with the events the driver posted and without a
\* timeout: later events cannot keep invalidating the fence.
Owed(k) == k = 1 /\ Waiting
Paid(k) == ~Waiting
OperationsEnd == Owed(1) ~> Paid(1)
=============================================================================
