------------------------------ MODULE BootGuard ------------------------------
(***************************************************************************)
(* The startup guard of esp32qjs_runtime.c: abnormal resets are counted in *)
(* NVS across boots, and the count decides whether the startup script is   *)
(* run at all.  The device may fault or lose power between any two writes, *)
(* a write may fail, and a request from the host task may store the guard  *)
(* while the runtime task does.                                            *)
(*                                                                         *)
(* One behaviour is the life of a device over many boots.  Nothing but NVS *)
(* survives a reset.  nvs_set_u8 reaches the flash when it is called.      *)
(***************************************************************************)
EXTENDS Integers, TLAPS

CONSTANTS Limit,          \* startup_failure_limit
          CountMax        \* UINT8_MAX

ASSUME GuardAssumption ==
    Limit \in Nat \ {0} /\ CountMax \in Nat /\ CountMax >= 2 * Limit

Hard == 2       \* ESP32_MQUICKJS_SAFE_MODE_HARD
Actions == {"restart", "reboot"}
Labels == {"off", "load", "load_flag", "loaded", "up", "script", "run", "disarm",
           "disarm_flag", "fail", "fail_flag", "reboot", "halted"}

VARIABLES
    nvs_failures, nvs_failed,           \* the keys "failures" and "failed"
    boot_guard_ready, startup_failure_count, failure_reboot_pending, safe_mode,
    startup_pending, startup_stabilizing,
    pending,        \* the accepted control request
    reason,         \* esp_reset_reason: fault, software or power
    pc, back,       \* the runtime task's position, where disarm returns to
    host, host_flag,    \* the host's position and the flag it is about to store
    cause,          \* history: why the device really was reset
    chain,          \* history: abnormal resets since the last clean one
    lost,           \* history: NVS has refused a write or could not be opened
    disturbed       \* history: a store by the host has erased the mark of a failure, or
                    \* a second runtime has been created in one boot

nvs == <<nvs_failures, nvs_failed>>
guard == <<boot_guard_ready, startup_failure_count, failure_reboot_pending, safe_mode>>
phase == <<startup_pending, startup_stabilizing>>
hosts == <<host, host_flag>>
histories == <<cause, chain, lost, disturbed>>
vars == <<nvs, guard, phase, pending, reason, pc, back, hosts, histories>>

Clean == {"operator", "power"}

ClearRam ==
    /\ boot_guard_ready' = FALSE /\ startup_failure_count' = 0
    /\ failure_reboot_pending' = FALSE /\ safe_mode' = 0
    /\ startup_pending' = FALSE /\ startup_stabilizing' = FALSE
    /\ pending' = "none" /\ pc' = "off" /\ back' = "run"
    /\ host' = "idle" /\ host_flag' = FALSE

Init ==
    /\ nvs_failures = 0 /\ nvs_failed = FALSE
    /\ boot_guard_ready = FALSE /\ startup_failure_count = 0
    /\ failure_reboot_pending = FALSE /\ safe_mode = 0
    /\ startup_pending = FALSE /\ startup_stabilizing = FALSE
    /\ pending = "none" /\ reason = "power" /\ pc = "off" /\ back = "run"
    /\ host = "idle" /\ host_flag = FALSE
    /\ cause = "power" /\ chain = 0 /\ lost = FALSE /\ disturbed = FALSE

Reset(r, c) ==
    /\ ClearRam /\ reason' = r /\ cause' = c /\ UNCHANGED <<nvs, chain, lost, disturbed>>
-------------------------------------------------------------------------------
(* runtime_boot_guard_load, and runtime_boot_guard_commit at its end. *)

\* Mutation: the count wraps.
NextCount_wraps(n) == (n + 1) % (CountMax + 1)
NextCount(n) == IF n < CountMax THEN n + 1 ELSE n

Level(n) == LET level == n \div Limit IN IF level >= Hard THEN Hard ELSE level

\* Mutation: the flag of the failure that has been counted stays set.
ClearFailure_not == failure_reboot_pending' = nvs_failed
ClearFailure == failure_reboot_pending' = FALSE

load ==
    /\ pc = "off" /\ pc' = "load"
    /\ boot_guard_ready' = TRUE /\ ClearFailure
    /\ LET abnormal == reason = "fault" \/ (reason = "software" /\ nvs_failed)
           count == IF abnormal THEN NextCount(nvs_failures) ELSE 0
       IN startup_failure_count' = count /\ safe_mode' = Level(count)
    /\ UNCHANGED <<nvs, phase, pending, reason, back, hosts, histories>>

\* NVS cannot be opened or read: the device runs without the guard.
LoadFails ==
    /\ pc = "off" /\ pc' = "loaded" /\ lost' = TRUE
    /\ UNCHANGED <<nvs, guard, phase, pending, reason, back, hosts, cause, chain, disturbed>>

\* The count is stored.  From here on the reset is part of the chain.
LoadCount ==
    /\ pc = "load" /\ pc' = "load_flag" /\ nvs_failures' = startup_failure_count
    /\ chain' = CASE cause = "none" -> chain
                  [] cause \in Clean -> 0
                  [] OTHER -> IF chain < CountMax THEN chain + 1 ELSE chain
    /\ UNCHANGED <<nvs_failed, guard, phase, pending, reason, back, hosts, cause, lost, disturbed>>
LoadFlag ==
    /\ pc = "load_flag" /\ pc' = "loaded" /\ nvs_failed' = failure_reboot_pending
    /\ UNCHANGED <<nvs_failures, guard, phase, pending, reason, back, hosts, histories>>
-------------------------------------------------------------------------------
(* The rest of esp32qjs_runtime_create, and the runtime task. *)

\* runtime_boot_guard_fail: mark the failure, then store it.
Fail(c) ==
    /\ cause' = c
    /\ \/ /\ boot_guard_ready /\ pc' = "fail" /\ failure_reboot_pending' = TRUE
          /\ startup_pending' = FALSE /\ startup_stabilizing' = FALSE
       \/ ~boot_guard_ready /\ pc' = "reboot" /\ UNCHANGED <<failure_reboot_pending, phase>>
    /\ UNCHANGED <<nvs, boot_guard_ready, startup_failure_count, safe_mode, reason, back,
                   hosts, chain, lost, disturbed>>

\* The secondary filesystem is required and missing: the runtime reboots in
\* normal mode, with the guard, and is not created otherwise.
Create ==
    /\ pc = "loaded" /\ pending' = pending
    /\ \/ safe_mode = 0 /\ boot_guard_ready /\ Fail("filesystem")
       \/ /\ pc' = "up" \/ (pc' = "halted" /\ safe_mode < Hard)
          /\ UNCHANGED <<nvs, guard, phase, reason, back, hosts, histories>>

\* runtime_run_startup and runtime_boot_guard_arm.
Startup ==
    /\ pc = "up"
    /\ \/ /\ safe_mode < Hard /\ pc' = "script" /\ startup_pending' = boot_guard_ready
          /\ startup_stabilizing' = FALSE
       \/ safe_mode >= Hard /\ pc' = "run" /\ UNCHANGED phase
    /\ UNCHANGED <<nvs, guard, pending, reason, back, hosts, histories>>

\* The script returns: runtime_boot_guard_note_returned ...
Returns ==
    /\ pc = "script" /\ pc' = "run"
    /\ startup_stabilizing' = (boot_guard_ready \/ startup_stabilizing)
    /\ UNCHANGED <<nvs, guard, startup_pending, pending, reason, back, hosts, histories>>
\* ... or ends with an exception.
Throws == pc = "script" /\ Fail("exception") /\ UNCHANGED pending

\* runtime_boot_guard_commit of the failure, then esp_restart.
FailCount ==
    /\ pc = "fail" /\ pc' = "fail_flag" /\ nvs_failures' = startup_failure_count
    /\ UNCHANGED <<nvs_failed, guard, phase, pending, reason, back, hosts, histories>>
FailFlag ==
    /\ pc = "fail_flag" /\ pc' = "reboot" /\ nvs_failed' = failure_reboot_pending
    /\ UNCHANGED <<nvs_failures, guard, phase, pending, reason, back, hosts, histories>>
Restart == pc = "reboot" /\ Reset("software", cause)

\* runtime_boot_guard_poll_healthy, when the time has passed.
Healthy ==
    /\ pc = "run" /\ boot_guard_ready /\ startup_stabilizing
    /\ startup_pending' = FALSE /\ startup_stabilizing' = FALSE
    /\ UNCHANGED <<nvs, guard, pending, reason, pc, back, hosts, histories>>

\* sys.restartRuntime and sys.reboot: the hook, and
\* runtime_boot_guard_disarm_intentional with its commit.
Request(a) ==
    /\ pc \in {"script", "run"} /\ pending = "none" /\ pending' = a
    /\ IF boot_guard_ready /\ (startup_pending \/ startup_stabilizing)
       THEN /\ startup_pending' = FALSE /\ startup_stabilizing' = FALSE
            /\ pc' = "disarm" /\ back' = pc
       ELSE UNCHANGED <<phase, pc, back>>
    /\ UNCHANGED <<nvs, guard, reason, hosts, histories>>
DisarmCount ==
    /\ pc = "disarm" /\ pc' = "disarm_flag" /\ nvs_failures' = startup_failure_count
    /\ UNCHANGED <<nvs_failed, guard, phase, pending, reason, back, hosts, histories>>
DisarmFlag ==
    /\ pc = "disarm_flag" /\ pc' = back /\ nvs_failed' = failure_reboot_pending
    /\ UNCHANGED <<nvs_failures, guard, phase, pending, reason, back, hosts, histories>>

\* The request falls due: a reboot, a new generation, or one that cannot be
\* had, which reboots or stops the runtime.
Perform ==
    /\ pc = "run"
    /\ \/ pending = "reboot" /\ Reset("software", "operator")
       \/ /\ pending = "restart" /\ pending' = "none"
          /\ \/ Fail("restart")
             \/ /\ pc' \in {"up", "halted"}
                /\ UNCHANGED <<nvs, guard, phase, reason, back, hosts, histories>>

\* A write of a commit fails, and the commit ends there.
WriteFails ==
    /\ \/ pc \in {"load", "load_flag"} /\ pc' = "loaded" /\ UNCHANGED host
       \/ pc \in {"fail", "fail_flag"} /\ pc' = "reboot" /\ UNCHANGED host
       \/ pc \in {"disarm", "disarm_flag"} /\ pc' = back /\ UNCHANGED host
       \/ host \in {"count", "store"} /\ host' = "idle" /\ UNCHANGED pc
    /\ lost' = TRUE
    /\ UNCHANGED <<nvs, guard, phase, pending, reason, back, host_flag, cause, chain, disturbed>>
-------------------------------------------------------------------------------
(* The host task. *)

\* esp32qjs_runtime_request_control, with the same hook.
HostRequest(a) ==
    /\ host = "idle" /\ pending = "none" /\ pending' = a
    /\ pc \in {"script", "run", "fail", "fail_flag", "reboot"}
    /\ IF boot_guard_ready /\ (startup_pending \/ startup_stabilizing)
       THEN /\ startup_pending' = FALSE /\ startup_stabilizing' = FALSE /\ host' = "count"
       ELSE UNCHANGED <<phase, host>>
    /\ UNCHANGED <<nvs, guard, reason, pc, back, host_flag, histories>>
HostCount ==
    /\ host = "count" /\ host' = "flag" /\ nvs_failures' = startup_failure_count
    /\ UNCHANGED <<nvs_failed, guard, phase, pending, reason, pc, back, host_flag, histories>>
HostFlag ==
    /\ host = "flag" /\ host' = "store" /\ host_flag' = failure_reboot_pending
    /\ UNCHANGED <<nvs, guard, phase, pending, reason, pc, back, histories>>
HostStore ==
    /\ host = "store" /\ host' = "idle" /\ nvs_failed' = host_flag
    /\ disturbed' = (disturbed \/ (nvs_failed /\ ~host_flag))
    /\ UNCHANGED <<nvs_failures, guard, phase, pending, reason, pc, back, host_flag, cause,
                   chain, lost>>

\* esp32qjs_runtime_stop, destroy and create: no reset, but a new load.
Recreate ==
    /\ pc \in {"run", "halted"} /\ host = "idle"
    /\ ClearRam /\ cause' = "none" /\ disturbed' = TRUE /\ UNCHANGED <<nvs, reason, chain, lost>>
-------------------------------------------------------------------------------
\* A fault (panic, watchdog, lockup), or power-on and the reset pin, at any time.
Fault == pc # "off" /\ Reset("fault", "fault")
Power == pc # "off" /\ Reset("power", "power")

Steps ==
    \/ load \/ LoadFails \/ LoadCount \/ LoadFlag \/ Create \/ Startup \/ FailCount \/ FailFlag
    \/ Restart \/ DisarmCount \/ DisarmFlag

Next ==
    \/ Steps \/ Returns \/ Throws \/ Healthy \/ Perform \/ WriteFails
    \/ \E a \in Actions : Request(a) \/ HostRequest(a)
    \/ HostCount \/ HostFlag \/ HostStore \/ Recreate \/ Fault \/ Power

Spec == Init /\ [][Next]_vars
\* The boot code and the firmware's own reboots go on; scripts, requests and
\* resets need not happen.
FairSpec == Spec /\ WF_vars(Steps)
-------------------------------------------------------------------------------
(* Properties. *)

TypeOK ==
    /\ nvs_failures \in 0..CountMax /\ nvs_failed \in BOOLEAN /\ boot_guard_ready \in BOOLEAN
    /\ startup_failure_count \in 0..CountMax /\ failure_reboot_pending \in BOOLEAN
    /\ safe_mode \in 0..Hard /\ startup_pending \in BOOLEAN /\ startup_stabilizing \in BOOLEAN
    /\ pending \in Actions \union {"none"} /\ reason \in {"fault", "software", "power"}
    /\ pc \in Labels /\ back \in {"script", "run"}
    /\ host \in {"idle", "count", "flag", "store"} /\ host_flag \in BOOLEAN
    /\ cause \in Clean \union {"fault", "exception", "restart", "filesystem", "none"}
    /\ chain \in 0..CountMax /\ lost \in BOOLEAN /\ disturbed \in BOOLEAN

\* The count is the number of abnormal resets since the last clean one: every
\* fault and every reboot of the firmware after a failure once, however often
\* the device is interrupted while it stores the guard and whoever stores it,
\* and a reset that the operator asked for never.  The exceptions are a write
\* that NVS refuses and the two disturbances described in the README.
CountExact ==
    pc \notin {"off", "load"} /\ boot_guard_ready /\ ~lost /\ ~disturbed
        => startup_failure_count = chain

\* A device that has had twice the limit of abnormal resets no longer runs the
\* startup script.
HardSkipsScript == pc = "script" /\ ~lost /\ ~disturbed => chain < 2 * Limit

\* A startup script cannot keep the device in a loop of reboots: exceptions go
\* on for ever only if somebody keeps resetting the device.
LoopEnds ==
    []<>(pc = "reboot" /\ cause = "exception") =>
        ([]<>(pc = "off" /\ cause \in Clean) \/ <>(lost \/ disturbed))

\* The mark of a failure is there only from the failure to the boot that counts
\* it, whoever stores the guard: no later reboot is taken for a failure.
MarkConsumed ==
    nvs_failed /\ ~lost => pc \in {"fail", "fail_flag", "reboot", "off", "load", "load_flag"}

\* What the guard owes the device, together: an exact count, no script past
\* twice the limit, and a mark that one boot consumes.
BootSafe == CountExact /\ HardSkipsScript /\ MarkConsumed
-------------------------------------------------------------------------------
\* The proof: the startup guard counts exactly, and the mark of a failure does not
\* outlive it, for every limit and every width of the count.
Failing == {"fail", "fail_flag", "reboot"}
Failures == {"exception", "restart", "filesystem"}

\* What is true of the mark while NVS has accepted every write: it is set, in
\* RAM, in a host's hand and in NVS, only from a failure to the boot after it.
Marked ==
    /\ nvs_failed => pc \in {"fail", "fail_flag", "reboot", "off", "load", "load_flag"}
    /\ failure_reboot_pending => pc \in Failing
    /\ host = "store" /\ host_flag => pc \in Failing
    /\ host # "idle" => pc \notin {"off", "load", "load_flag"}

\* What else is true while nothing has disturbed the guard: the stored count is the
\* chain; the mark says whether a software reset ends a failure; and a loaded
\* guard shows what is stored.
Faithful ==
    /\ nvs_failures = chain
    /\ pc = "off" =>
        /\ cause \in Failures \union Clean \union {"fault"}
        /\ cause = "fault" <=> reason = "fault"
        /\ cause = "power" <=> reason = "power"
        /\ reason = "software" => (nvs_failed <=> cause \in Failures)
    /\ pc = "load" =>
        startup_failure_count = (IF cause \in Clean THEN 0 ELSE NextCount(chain)) /\ cause # "none"
    /\ pc \notin {"off", "load"} => startup_failure_count = chain
    /\ pc # "off" => boot_guard_ready /\ safe_mode = Level(startup_failure_count)
    /\ pc \in Failing => failure_reboot_pending
    /\ pc \in Failing => cause \in Failures
    /\ pc = "reboot" => nvs_failed
    /\ pc = "script" => safe_mode # Hard
    /\ pc = "disarm" /\ back = "script" => safe_mode # Hard
    /\ pc = "disarm_flag" /\ back = "script" => safe_mode # Hard

Sound == (~lost => Marked) /\ (~lost /\ ~disturbed => Faithful)
IInv == TypeOK /\ Sound
-------------------------------------------------------------------------------
\* A level is one of three, and the hardest one begins at twice the limit.
LEMMA LevelRange ==
    ASSUME NEW n \in Nat
    PROVE  /\ Level(n) \in 0..Hard
           /\ Level(n) # Hard => n < 2 * Limit
<1>1. Limit \in Nat /\ Limit > 0
  BY GuardAssumption
<1>2. n \div Limit \in Nat
  BY <1>1
<1>3. n \div Limit < 2 => n < 2 * Limit
  BY <1>1
<1>4. QED
  BY <1>2, <1>3 DEF Level, Hard

\* The count stays in its range.
LEMMA CountRange ==
    ASSUME NEW n \in 0..CountMax
    PROVE  NextCount(n) \in 0..CountMax
  BY GuardAssumption DEF NextCount

\* The device starts with an empty guard.
LEMMA GuardInit == Init => IInv
<1> SUFFICES ASSUME Init PROVE IInv
  OBVIOUS
<1>1. 0 \in 0..CountMax /\ 0 \in 0..Hard
  BY GuardAssumption DEF Hard
<1>2. TypeOK
  BY <1>1 DEF Init, TypeOK, Actions, Labels, Clean
<1>3. Faithful
  BY DEF Init, Faithful, Clean, Failing, Failures
<1>4. Marked
  BY DEF Init, Marked
<1>5. QED
  BY <1>2, <1>3, <1>4 DEF IInv, Sound

\* The Boolean variables, and the others.
Flags ==
    /\ nvs_failed \in BOOLEAN /\ boot_guard_ready \in BOOLEAN /\ failure_reboot_pending \in BOOLEAN
    /\ startup_pending \in BOOLEAN /\ startup_stabilizing \in BOOLEAN /\ host_flag \in BOOLEAN
    /\ lost \in BOOLEAN /\ disturbed \in BOOLEAN
Ranges ==
    /\ nvs_failures \in 0..CountMax /\ startup_failure_count \in 0..CountMax
    /\ safe_mode \in 0..Hard /\ chain \in 0..CountMax
    /\ pending \in Actions \union {"none"} /\ reason \in {"fault", "software", "power"}
    /\ pc \in Labels /\ back \in {"script", "run"} /\ host \in {"idle", "count", "flag", "store"}
    /\ cause \in Clean \union {"fault", "exception", "restart", "filesystem", "none"}

\* No step leaves the ranges of the variables.
LEMMA GuardTypes == TypeOK /\ [Next]_vars => TypeOK'
<1> SUFFICES ASSUME Flags, Ranges, [Next]_vars PROVE Flags' /\ Ranges'
  BY DEF Flags, Ranges, TypeOK
<1>1. Flags'
  <2> USE DEF Flags, nvs, guard, phase, hosts, histories, ClearRam, Reset, Fail
  <2>1. CASE Steps
    BY <2>1, ZenonT(30) DEF Steps, load, ClearFailure, LoadFails, LoadCount, LoadFlag, Create, Startup,
       FailCount, FailFlag, Restart, DisarmCount, DisarmFlag
  <2>2. CASE Returns \/ Throws \/ Healthy \/ Perform \/ WriteFails
    BY <2>2, Zenon DEF Returns, Throws, Healthy, Perform, WriteFails
  <2>3. ASSUME NEW a \in Actions, Request(a) \/ HostRequest(a) PROVE Flags'
    BY <2>3, Zenon DEF Request, HostRequest
  <2>4. CASE HostCount \/ HostFlag \/ HostStore
    BY <2>4, Zenon DEF HostCount, HostFlag, HostStore
  <2>5. CASE Recreate \/ Fault \/ Power
    BY <2>5, Zenon DEF Recreate, Fault, Power
  <2>6. CASE UNCHANGED vars
    BY <2>6 DEF vars
  <2>7. QED
    BY <2>1, <2>2, <2>3, <2>4, <2>5, <2>6 DEF Next
<1>2. Ranges'
  <2>0. CountMax \in Nat /\ 0 \in 0..CountMax /\ 0 \in 0..Hard
    BY GuardAssumption DEF Hard
  <2> USE <2>0 DEF Ranges, Actions, Labels, Clean, nvs, guard, phase, hosts, histories
  <2>1. CASE load
    <3>1. NextCount(nvs_failures) \in 0..CountMax
      BY CountRange
    <3>2. startup_failure_count' \in 0..CountMax
      BY <2>1, <3>1 DEF load
    <3>3. safe_mode' \in 0..Hard
      BY <2>1, <3>2, LevelRange DEF load
    <3>4. QED
      BY <2>1, <3>2, <3>3 DEF load
  <2>2. CASE LoadFails \/ LoadCount \/ LoadFlag \/ Create \/ Startup \/ FailCount \/ FailFlag
    BY <2>2 DEF LoadFails, LoadCount, LoadFlag, Create, Fail, Startup, FailCount, FailFlag
  <2>3. CASE Restart \/ DisarmCount \/ DisarmFlag
    BY <2>3 DEF Restart, DisarmCount, DisarmFlag, Reset, ClearRam
  <2>4. CASE Returns \/ Throws \/ Healthy \/ WriteFails
    BY <2>4 DEF Returns, Throws, Fail, Healthy, WriteFails
  <2>5. CASE Perform
    BY <2>5 DEF Perform, Fail, Reset, ClearRam
  <2>6. ASSUME NEW a \in Actions, Request(a) \/ HostRequest(a) PROVE Ranges'
    BY <2>6 DEF Request, HostRequest
  <2>7. CASE HostCount \/ HostFlag \/ HostStore
    BY <2>7 DEF HostCount, HostFlag, HostStore
  <2>8. CASE Recreate \/ Fault \/ Power
    BY <2>8 DEF Recreate, Fault, Power, Reset, ClearRam
  <2>9. CASE UNCHANGED vars
    BY <2>9 DEF vars
  <2>10. QED
    BY <2>1, <2>2, <2>3, <2>4, <2>5, <2>6, <2>7, <2>8, <2>9 DEF Next, Steps
<1>3. QED
  BY <1>1, <1>2

\* Every step of the boot code and of the runtime task, and every reset,
\* preserves the invariant.
LEMMA GuardStep ==
    IInv /\ [Next]_vars => IInv'
<1> SUFFICES ASSUME IInv, [Next]_vars PROVE Sound'
  BY GuardTypes DEF IInv
<1> USE DEF IInv, Sound, TypeOK, Marked, Faithful, Actions, Labels, Clean, Failing, Failures,
            nvs, guard, phase, hosts, histories
<1>0. CountMax \in Nat /\ 0 \in 0..CountMax /\ 0 \in 0..Hard
  BY GuardAssumption DEF Hard
<1>1. CASE load
  <2>1. nvs_failures \in Nat /\ NextCount(nvs_failures) \in 0..CountMax
    BY CountRange
  <2>2. startup_failure_count' \in 0..CountMax
    BY <1>0, <1>1, <2>1 DEF load
  <2>3. safe_mode' = Level(startup_failure_count') /\ safe_mode' \in 0..Hard
    BY <1>1, <2>2, LevelRange DEF load
  <2>4. ~lost /\ ~disturbed =>
          startup_failure_count' = (IF cause \in Clean THEN 0 ELSE NextCount(chain))
    BY <1>1 DEF load
  <2>5. /\ pc = "off" /\ pc' = "load" /\ boot_guard_ready' = TRUE
        /\ failure_reboot_pending' = FALSE
        /\ UNCHANGED <<nvs, phase, pending, reason, back, hosts, cause, chain, lost, disturbed>>
    BY <1>1 DEF load, ClearFailure
  <2>7. ~lost /\ ~disturbed => cause # "none"
    BY <2>5
  <2>8. ~lost /\ ~disturbed =>
          startup_failure_count' = (IF cause' \in Clean THEN 0 ELSE NextCount(chain'))
    BY <2>4, <2>5
  <2>9. ~lost' /\ ~disturbed' => Faithful'
    BY <2>3, <2>5, <2>7, <2>8
  <2>10. ~lost' => Marked'
    BY <2>5
  <2>11. QED
    BY <2>9, <2>10
<1>2. CASE LoadFails
  BY <1>0, <1>2 DEF LoadFails
<1>3. CASE LoadCount
  <2>1. chain' \in 0..CountMax
    BY <1>0, <1>3 DEF LoadCount
  <2>2. ~lost /\ ~disturbed => chain' = startup_failure_count
    BY <1>3 DEF LoadCount, NextCount
  <2>3. /\ pc = "load" /\ pc' = "load_flag" /\ nvs_failures' = startup_failure_count
        /\ UNCHANGED <<nvs_failed, guard, phase, pending, reason, back, hosts, cause, lost, disturbed>>
    BY <1>3 DEF LoadCount
  <2>4. QED
    BY <2>1, <2>2, <2>3
<1>4. CASE LoadFlag
  BY <1>0, <1>4 DEF LoadFlag
<1>5. CASE Create
  <2>1. CASE safe_mode = 0 /\ boot_guard_ready /\ Fail("filesystem") /\ pending' = pending
    BY <1>0, <1>5, <2>1 DEF Create, Fail
  <2>2. CASE pc' \in {"up", "halted"} /\ UNCHANGED <<nvs, guard, phase, pending, reason, back,
                                                   hosts, cause, chain, lost, disturbed>>
    BY <1>0, <1>5, <2>2 DEF Create
  <2>3. QED
    BY <1>5, <2>1, <2>2 DEF Create
<1>6. CASE Startup
  <2>1. CASE safe_mode < Hard /\ pc' = "script"
    <3>1. safe_mode # Hard
      BY <2>1 DEF Hard
    <3>2. startup_pending' \in BOOLEAN /\ startup_stabilizing' \in BOOLEAN
      BY <1>6, <2>1 DEF Startup
    <3>3. UNCHANGED <<nvs, guard, pending, reason, back, hosts, cause, chain, lost, disturbed>> /\ pc = "up"
      BY <1>6 DEF Startup
    <3>4. QED
      BY <2>1, <3>1, <3>2, <3>3
  <2>2. CASE pc' = "run" /\ UNCHANGED phase
    BY <1>0, <1>6, <2>2 DEF Startup
  <2>3. QED
    BY <1>6, <2>1, <2>2 DEF Startup
<1>7. CASE Returns
  BY <1>0, <1>7 DEF Returns
<1>8. CASE Throws
  BY <1>0, <1>8 DEF Throws, Fail
<1>9. CASE FailCount
  BY <1>0, <1>9 DEF FailCount
<1>10. CASE FailFlag
  BY <1>0, <1>10 DEF FailFlag
<1>11. CASE Restart
  BY <1>0, <1>11 DEF Restart, Reset, ClearRam
<1>12. CASE DisarmCount
  BY <1>0, <1>12 DEF DisarmCount
<1>13. CASE DisarmFlag
  BY <1>0, <1>13 DEF DisarmFlag
<1>14. CASE Healthy
  BY <1>0, <1>14 DEF Healthy
<1>15. CASE Perform
  <2>1. CASE Reset("software", "operator")
    BY <1>0, <1>15, <2>1 DEF Perform, Reset, ClearRam
  <2>2. CASE pending' = "none" /\ Fail("restart")
    BY <1>0, <1>15, <2>2 DEF Perform, Fail
  <2>3. CASE /\ pending' = "none" /\ pc' \in {"up", "halted"}
             /\ UNCHANGED <<nvs, guard, phase, reason, back, hosts, cause, chain, lost, disturbed>>
    BY <1>0, <1>15, <2>3 DEF Perform
  <2>4. QED
    BY <1>15, <2>1, <2>2, <2>3 DEF Perform
<1>16. CASE WriteFails
  BY <1>0, <1>16 DEF WriteFails
<1>17. CASE Fault
  BY <1>0, <1>17 DEF Fault, Reset, ClearRam
<1>18. CASE Power
  BY <1>0, <1>18 DEF Power, Reset, ClearRam
<1>19. ASSUME NEW a \in Actions, Request(a) PROVE Sound'
  <2>1. CASE boot_guard_ready /\ (startup_pending \/ startup_stabilizing)
    BY <1>0, <1>19, <2>1 DEF Request
  <2>2. CASE UNCHANGED <<phase, pc, back>>
    BY <1>0, <1>19, <2>2 DEF Request
  <2>3. QED
    BY <1>19, <2>1, <2>2 DEF Request
<1>20. ASSUME NEW a \in Actions, HostRequest(a) PROVE Sound'
  <2>1. CASE boot_guard_ready /\ (startup_pending \/ startup_stabilizing)
    BY <1>0, <1>20, <2>1 DEF HostRequest
  <2>2. CASE UNCHANGED <<phase, host>>
    BY <1>0, <1>20, <2>2 DEF HostRequest
  <2>3. QED
    BY <1>20, <2>1, <2>2 DEF HostRequest
<1>21. CASE HostCount
  BY <1>0, <1>21 DEF HostCount
<1>22. CASE HostFlag
  BY <1>0, <1>22 DEF HostFlag
<1>23. CASE HostStore
  BY <1>0, <1>23 DEF HostStore
<1>24. CASE Recreate
  BY <1>0, <1>24 DEF Recreate, ClearRam
<1>25. CASE UNCHANGED vars
  BY <1>25 DEF vars
<1>26. QED
  BY <1>1, <1>2, <1>3, <1>4, <1>5, <1>6, <1>7, <1>8, <1>9, <1>10, <1>11, <1>12, <1>13, <1>14,
     <1>15, <1>16, <1>17, <1>18, <1>19, <1>20, <1>21, <1>22, <1>23, <1>24, <1>25 DEF Next, Steps

\* The guard counts every abnormal reset once, never runs the script of a
\* device that has had too many, and the mark of a failure is consumed by the
\* boot after it, even if the host and the runtime task store the guard at the
\* same time.
THEOREM GuardIsSafe == Spec => []BootSafe
<1>1. IInv => BootSafe
  <2> SUFFICES ASSUME IInv PROVE CountExact /\ HardSkipsScript /\ MarkConsumed
    BY DEF BootSafe
  <2>1. CountExact
    BY DEF IInv, Sound, Faithful, CountExact
  <2>2. ASSUME pc = "script", ~lost, ~disturbed PROVE chain < 2 * Limit
    BY <2>2, LevelRange DEF IInv, Sound, TypeOK, Faithful
  <2>3. MarkConsumed
    BY DEF IInv, Sound, Marked, MarkConsumed
  <2>4. QED
    BY <2>1, <2>2, <2>3 DEF HardSkipsScript
<1>2. QED
  BY <1>1, GuardInit, GuardStep, PTL DEF Spec
===============================================================================
