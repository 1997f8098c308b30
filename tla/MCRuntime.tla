---------------------------- MODULE MCRuntime ----------------------------
(************************************************************************)
(* What runs beside the scripts: the boot guard of the managed runtime, *)
(* and a periodic transmission that the loop of the runtime services.   *)
(* Each behaviour is of one of the two.                                 *)
(************************************************************************)
EXTENDS BootGuard, FiniteSets, Sequences

VARIABLES
    unit,  \* the component this behaviour is of
    x1, x2, x3, x4, x5, x6, x7, x8, x9, x10, x11  \* its variables

Periodic == INSTANCE RawTxPeriodic WITH
    Interval <- 1, Count <- 1, CountMax <- 4, StopWhenBusy <- TRUE, StopOnError <- FALSE,
    MaxTime <- 0, MaxFaults <- 0, now <- x1, led <- x2, job <- x3, w <- x4, cb <- x5,
    svc <- x6, own <- x7, res <- x8, session <- x9, later <- x10, faults <- x11

\* The variables a component of n variables does not have.
Blank(n) ==
    /\ n < 11 => x1 = 0 /\ x2 = 0 /\ x3 = 0 /\ x4 = 0 /\ x5 = 0 /\ x6 = 0 /\ x7 = 0
                /\ x8 = 0 /\ x9 = 0 /\ x10 = 0 /\ x11 = 0
Still(n) ==
    /\ UNCHANGED unit
    /\ n < 11 => UNCHANGED <<x1, x2, x3, x4, x5, x6, x7, x8, x9, x10, x11>>

MCVars == <<unit, vars, x1, x2, x3, x4, x5, x6, x7, x8, x9, x10, x11>>

MCInit ==
    /\ Init
    /\ \/ unit = "boot" /\ Blank(0)
       \/ unit = "periodic" /\ Periodic!Init /\ Blank(11)

MCNext ==
    \/ unit = "boot" /\ Next /\ Still(0)
    \/ unit = "periodic" /\ Periodic!Next /\ Still(11) /\ UNCHANGED vars

\* One component runs in a behaviour, so its k-th fair action is taken together
\* with the k-th of the others.
WeakStep(k) ==
    \/ unit = "periodic" /\ Periodic!Weak(k) /\ Still(11) /\ UNCHANGED vars

StrongStep(k) ==
    \/ unit = "periodic" /\ Periodic!Strong(k) /\ Still(11) /\ UNCHANGED vars

MCSpec == MCInit /\ [][MCNext]_MCVars
    /\ WF_vars(unit = "boot" /\ Steps) /\ (\A k \in 1 .. 5 : WF_MCVars(WeakStep(k))) /\ \A k \in 1 .. 2 : SF_MCVars(StrongStep(k))
-------------------------------------------------------------------------------
\* A periodic job is retired only when nobody can reach it, and its ledger is
\* exact.
PeriodicSafe ==
    /\ unit = "periodic" => Periodic!PeriodicSafe

\* A periodic transmission that was stopped is retired.
PeriodicEnds == \A k \in 0 .. 2 :
    (\/ unit = "periodic" /\ Periodic!Owed(k))
    ~> (/\ unit = "periodic" => Periodic!Paid(k))

===============================================================================
