----------------------------- MODULE NativeLease -----------------------------
(***************************************************************************)
(* One slot of a native pool and the lease on it, at the granularity of    *)
(* the C11 atomics: native_pool.c keeps a bit per slot, native_lease.c a   *)
(* retain count, a close request and a returned flag.  Several tasks       *)
(* retain, release and close the lease at the same time; every atomic      *)
(* access is a step of its own.                                            *)
(*                                                                         *)
(* A caller of retain or release owns a reference (the frame, view or      *)
(* source object that wraps it), so references are named: `live' is the    *)
(* set that exist, and holder[r] the task that may use r.  Both are        *)
(* history: the C code keeps only the count.                               *)
(***************************************************************************)
EXTENDS Naturals, FiniteSetTheorems, TLAPS

CONSTANTS Tasks,    \* the tasks that use the lease
          Refs,     \* the references that can exist at once
          Owner,    \* the reference created by lease_init
          CountMax, \* UINT32_MAX, the retain count that refuses a retain
          NoTask    \* holder of a reference that does not exist

ASSUME LeaseAssumption ==
    /\ IsFiniteSet(Refs)
    /\ Owner \in Refs
    /\ CountMax \in Nat \ {0}
    /\ NoTask \notin Tasks

VARIABLES
    inUse,          \* the slot's bit of free_bits is clear
    ready,          \* lease_init has run for this use of the slot
    retain_count, close_requested, returned,
    live, holder,
    pc,             \* where each task is
    arg,            \* the reference a task is working on
    count           \* each task's local `count'

lease == <<retain_count, close_requested, returned>>
vars == <<inUse, ready, lease, live, holder, pc, arg, count>>

Labels == {"idle", "retain_load", "retain_check", "retain_cas",
           "release_load", "release_check", "release_cas",
           "exchange", "pool_release", "close_cas"}

TypeOK ==
    /\ inUse \in BOOLEAN
    /\ ready \in BOOLEAN
    /\ retain_count \in 0..CountMax
    /\ close_requested \in BOOLEAN
    /\ returned \in BOOLEAN
    /\ live \in SUBSET Refs
    /\ holder \in [Refs -> Tasks \union {NoTask}]
    /\ pc \in [Tasks -> Labels]
    /\ arg \in [Tasks -> Refs]
    /\ count \in [Tasks -> 0..CountMax]

Init ==
    /\ inUse = FALSE
    /\ ready = FALSE
    /\ retain_count = 0
    /\ close_requested = FALSE
    /\ returned = FALSE
    /\ live = {}
    /\ holder = [r \in Refs |-> NoTask]
    /\ pc = [t \in Tasks |-> "idle"]
    /\ arg = [t \in Tasks |-> Owner]
    /\ count = [t \in Tasks |-> 0]

Goto(t, label) == pc' = [pc EXCEPT ![t] = label]
-------------------------------------------------------------------------------
(* The pool and the creation of a lease. *)

\* A producer wins the slot's bit; nobody else may touch the slot until
\* lease_init has run.
native_pool_acquire ==
    /\ ~inUse
    /\ inUse' = TRUE
    /\ ready' = FALSE
    /\ UNCHANGED <<lease, live, holder, pc, arg, count>>

\* The lease starts with one reference, handed to task t.
native_lease_init(t) ==
    /\ inUse /\ ~ready
    /\ ready' = TRUE
    /\ retain_count' = 1
    /\ close_requested' = FALSE
    /\ returned' = FALSE
    /\ live' = {Owner}
    /\ holder' = [holder EXCEPT ![Owner] = t]
    /\ UNCHANGED <<inUse, pc, arg, count>>
-------------------------------------------------------------------------------
(* retain *)

\* The caller holds reference p; the lease is not stale while it does.
RetainBegin(t, p) ==
    /\ pc[t] = "idle"
    /\ p \in live /\ holder[p] = t
    /\ ~returned /\ ~close_requested
    /\ arg' = [arg EXCEPT ![t] = p]
    /\ Goto(t, "retain_load")
    /\ UNCHANGED <<inUse, ready, lease, live, holder, count>>

\* while (count > 0U && count < UINT32_MAX)
RetainLoop(t, c) ==
    /\ count' = [count EXCEPT ![t] = c]
    /\ Goto(t, IF c > 0 /\ c < CountMax THEN "retain_check" ELSE "idle")

RetainLoad(t) ==
    /\ pc[t] = "retain_load"
    /\ RetainLoop(t, retain_count)
    /\ UNCHANGED <<inUse, ready, lease, live, holder, arg>>

RetainCheck(t) ==
    /\ pc[t] = "retain_check"
    /\ Goto(t, IF close_requested THEN "idle" ELSE "retain_cas")
    /\ UNCHANGED <<inUse, ready, lease, live, holder, arg, count>>

\* The exchange adds a reference r, which the caller passes to task u.
RetainCas(t, r, u) ==
    /\ pc[t] = "retain_cas"
    /\ retain_count = count[t]
    /\ r \in Refs \ live
    /\ retain_count' = count[t] + 1
    /\ live' = live \union {r}
    /\ holder' = [holder EXCEPT ![r] = u]
    /\ Goto(t, "idle")
    /\ UNCHANGED <<inUse, ready, close_requested, returned, arg, count>>

\* The exchange fails because the count moved, or spuriously (it is the weak
\* form); either way `count' is reloaded.
RetainCasFail(t) ==
    /\ pc[t] = "retain_cas"
    /\ RetainLoop(t, retain_count)
    /\ UNCHANGED <<inUse, ready, lease, live, holder, arg>>
-------------------------------------------------------------------------------
(* release *)

\* A derived reference is given up by the task that holds it.
ReleaseBegin(t, r) ==
    /\ pc[t] = "idle"
    /\ r \in live \ {Owner} /\ holder[r] = t
    /\ ~returned
    /\ arg' = [arg EXCEPT ![t] = r]
    /\ Goto(t, "release_load")
    /\ UNCHANGED <<inUse, ready, lease, live, holder, count>>

\* while (count > 0U)
ReleaseLoop(t, c) ==
    /\ count' = [count EXCEPT ![t] = c]
    /\ Goto(t, IF c > 0 THEN "release_check" ELSE "idle")

ReleaseLoad(t) ==
    /\ pc[t] = "release_load"
    /\ ReleaseLoop(t, retain_count)
    /\ UNCHANGED <<inUse, ready, lease, live, holder, arg>>

\* The last reference may only go once the owner has asked for the close.
ReleaseCheck(t) ==
    /\ pc[t] = "release_check"
    /\ Goto(t, IF count[t] = 1 /\ ~close_requested THEN "idle" ELSE "release_cas")
    /\ UNCHANGED <<inUse, ready, lease, live, holder, arg, count>>

\* Mutation: the slot is returned when one reference is left.
ReleaseCas_early(t) ==
    /\ pc[t] = "release_cas"
    /\ retain_count = count[t]
    /\ retain_count' = count[t] - 1
    /\ live' = live \ {arg[t]}
    /\ holder' = [holder EXCEPT ![arg[t]] = NoTask]
    /\ Goto(t, IF count[t] <= 2 THEN "exchange" ELSE "idle")
    /\ UNCHANGED <<inUse, ready, close_requested, returned, arg, count>>

ReleaseCas(t) ==
    /\ pc[t] = "release_cas"
    /\ retain_count = count[t]
    /\ retain_count' = count[t] - 1
    /\ live' = live \ {arg[t]}
    /\ holder' = [holder EXCEPT ![arg[t]] = NoTask]
    /\ Goto(t, IF count[t] = 1 THEN "exchange" ELSE "idle")
    /\ UNCHANGED <<inUse, ready, close_requested, returned, arg, count>>

ReleaseCasFail(t) ==
    /\ pc[t] = "release_cas"
    /\ ReleaseLoop(t, retain_count)
    /\ UNCHANGED <<inUse, ready, lease, live, holder, arg>>

\* atomic_exchange(&lease->returned, true): only the first one goes on.
ReleaseExchange(t) ==
    /\ pc[t] = "exchange"
    /\ returned' = TRUE
    /\ Goto(t, IF returned THEN "idle" ELSE "pool_release")
    /\ UNCHANGED <<inUse, ready, retain_count, close_requested, live, holder, arg, count>>

native_pool_release(t) ==
    /\ pc[t] = "pool_release"
    /\ inUse' = FALSE
    /\ ready' = FALSE
    /\ Goto(t, "idle")
    /\ UNCHANGED <<lease, live, holder, arg, count>>
-------------------------------------------------------------------------------
(* request_close *)

\* The owner closes, or a task that still holds a reference closes again; both
\* hold a reference p, so the lease is not stale.
CloseBegin(t, p) ==
    /\ pc[t] = "idle"
    /\ p \in live /\ holder[p] = t
    /\ p = Owner \/ close_requested
    /\ ~returned
    /\ arg' = [arg EXCEPT ![t] = Owner]
    /\ Goto(t, "close_cas")
    /\ UNCHANGED <<inUse, ready, lease, live, holder, count>>

\* Mutation: the reference is released before the request is recorded.
CloseCas_late(t) ==
    /\ pc[t] = "close_cas"
    /\ Goto(t, IF close_requested THEN "idle" ELSE "release_load")
    /\ UNCHANGED <<inUse, ready, lease, live, holder, arg, count>>

\* The winner of the exchange releases the owner's reference.
CloseCas(t) ==
    /\ pc[t] = "close_cas"
    /\ close_requested' = TRUE
    /\ Goto(t, IF close_requested THEN "idle" ELSE "release_load")
    /\ UNCHANGED <<inUse, ready, retain_count, returned, live, holder, arg, count>>
-------------------------------------------------------------------------------
Step(t) ==
    \/ native_lease_init(t)
    \/ \E p \in Refs : RetainBegin(t, p)
    \/ RetainLoad(t)
    \/ RetainCheck(t)
    \/ \E r \in Refs, u \in Tasks : RetainCas(t, r, u)
    \/ RetainCasFail(t)
    \/ \E r \in Refs : ReleaseBegin(t, r)
    \/ ReleaseLoad(t)
    \/ ReleaseCheck(t)
    \/ ReleaseCas(t)
    \/ ReleaseCasFail(t)
    \/ ReleaseExchange(t)
    \/ native_pool_release(t)
    \/ \E p \in Refs : CloseBegin(t, p)
    \/ CloseCas(t)

Next == native_pool_acquire \/ \E t \in Tasks : Step(t)

Spec == Init /\ [][Next]_vars
-------------------------------------------------------------------------------
(* Properties *)

Releasing == {"release_load", "release_check", "release_cas"}
Returning == {"exchange", "pool_release"}

\* The retain count a task reads is the number of references that exist: no
\* interleaving of the compare-and-swap loops loses or invents one.
CountIsExact == ready => retain_count = Cardinality(live)

\* The slot's bytes outlive every reference: once the slot is free, or being
\* recycled, nobody holds it (contract: returned "after every derived retain
\* is released").
NoUseAfterReturn == (~inUse \/ ~ready \/ returned) => live = {}

\* The slot is returned exactly once: whoever is about to set the pool's bit
\* finds it clear, and is the only one.
ReturnedOnce ==
    \A t \in Tasks :
        pc[t] \in Returning =>
            /\ inUse /\ ready
            /\ \A u \in Tasks \ {t} : pc[u] \notin Returning

\* The slot is never lost: when the last reference is gone, some task is on
\* its way to return it.
NeverLost ==
    (inUse /\ ready /\ live = {}) => \E t \in Tasks : pc[t] \in Returning

\* release never answers false to a caller that owns a reference: the check
\* "count == 1 and no close requested" only catches unbalanced callers.
ReleaseNotRefused ==
    \A t \in Tasks :
        /\ pc[t] \in Releasing => retain_count > 0
        /\ pc[t] = "release_check" => ~(count[t] = 1 /\ ~close_requested)

\* The strengthening that makes the properties above inductive: a task inside
\* an operation owns the reference it works with, and the close request is set
\* before the owner's reference goes.
Pinned(t) == arg[t] \in live /\ holder[arg[t]] = t

Retaining == {"retain_load", "retain_check", "retain_cas"}

LeaseInv ==
    /\ TypeOK
    /\ CountIsExact
    /\ NoUseAfterReturn
    /\ ReturnedOnce
    /\ NeverLost
    /\ ReleaseNotRefused
    /\ ready => inUse
    /\ (ready /\ ~close_requested) => Owner \in live
    /\ \A t \in Tasks :
        /\ pc[t] \in Retaining \union Releasing => Pinned(t)
        /\ pc[t] \in {"retain_check", "retain_cas"} => count[t] \in 1..CountMax - 1
        /\ pc[t] \in {"release_check", "release_cas"} => count[t] > 0
        /\ pc[t] \in Releasing /\ arg[t] = Owner => close_requested
        /\ pc[t] = "close_cas" =>
             /\ arg[t] = Owner
             /\ \E p \in live : holder[p] = t /\ (p = Owner \/ close_requested)
        /\ pc[t] \in Returning => live = {}
        /\ pc[t] = "exchange" => ~returned
        /\ pc[t] = "pool_release" => returned

\* The abstract lease this one implements.
Phase == CASE ~inUse -> "free"
           [] inUse /\ ~ready -> "filling"
           [] inUse /\ ready /\ live # {} -> "leased"
           [] OTHER -> "draining"

Contract == INSTANCE LeaseContract WITH phase <- Phase, holders <- live

\* Every step of the atomics is a step of the contract, or invisible to it.
ImplementsContract == Contract!Spec
-------------------------------------------------------------------------------
(* Proofs, for any number of tasks and references: LeaseInv is inductive,  *)
(* every property above follows from it, and the atomics implement         *)
(* LeaseContract.                                                          *)

\* What one reference more, or one less, does to the number of references.
LEMMA LiveCardinality ==
    ASSUME NEW S \in SUBSET Refs
    PROVE  /\ Cardinality(S) \in Nat
           /\ Cardinality(S) = 0 <=> S = {}
           /\ \A r \in Refs \ S : Cardinality(S \union {r}) = Cardinality(S) + 1
           /\ \A r \in S : Cardinality(S \ {r}) = Cardinality(S) - 1
<1>1. IsFiniteSet(S)
  BY LeaseAssumption, FS_Subset
<1>2. QED
  BY <1>1, FS_CardinalityType, FS_EmptySet, FS_AddElement, FS_RemoveElement

\* A lease with one reference has no second one.
LEMMA OneReference ==
    ASSUME NEW S \in SUBSET Refs, NEW r \in S, NEW q \in S, Cardinality(S) = 1
    PROVE  r = q
<1>1. Cardinality(S \ {r}) = 0
  BY LiveCardinality
<1>2. S \ {r} \in SUBSET Refs
  OBVIOUS
<1>3. S \ {r} = {}
  BY <1>1, <1>2, LiveCardinality
<1>4. QED
  BY <1>3

\* lease_init creates one reference.
LEMMA OwnerAlone == Cardinality({Owner}) = 1
  BY FS_Singleton

\* The initial state satisfies the inductive invariant.
LEMMA LeaseInit == Init => LeaseInv
<1> SUFFICES ASSUME Init PROVE LeaseInv
  OBVIOUS
<1>1. CountMax \in Nat /\ 0 \in 0..CountMax
  BY LeaseAssumption
<1>2. QED
  BY LeaseAssumption, <1>1
     DEF Init, LeaseInv, Pinned, TypeOK, CountIsExact, NoUseAfterReturn, ReturnedOnce, NeverLost,
         ReleaseNotRefused, Labels, Retaining, Releasing, Returning

\* Every step of every task preserves it.
LEMMA LeaseStep == LeaseInv /\ [Next]_vars => LeaseInv'
<1> SUFFICES ASSUME LeaseInv, [Next]_vars PROVE LeaseInv'
  OBVIOUS
<1> USE LeaseAssumption DEF LeaseInv, TypeOK, CountIsExact, NoUseAfterReturn, ReturnedOnce,
      NeverLost, ReleaseNotRefused, Labels, Retaining, Releasing, Returning, Pinned, lease, Goto
<1>1. CASE native_pool_acquire
  BY <1>1 DEF native_pool_acquire
<1>2. ASSUME NEW t \in Tasks, native_lease_init(t) PROVE LeaseInv'
  <2>1. \A u \in Tasks : pc[u] = "idle"
    BY <1>2 DEF native_lease_init
  <2>2. live' \in SUBSET Refs /\ retain_count' \in 0..CountMax /\ CountIsExact'
    BY <1>2, OwnerAlone DEF native_lease_init
  <2>3. QED
    BY <1>2, <2>1, <2>2 DEF native_lease_init
<1>3. ASSUME NEW t \in Tasks, NEW p \in Refs, RetainBegin(t, p) PROVE LeaseInv'
  BY <1>3 DEF RetainBegin
<1>4. ASSUME NEW t \in Tasks, RetainLoad(t) PROVE LeaseInv'
  BY <1>4 DEF RetainLoad, RetainLoop
<1>5. ASSUME NEW t \in Tasks, RetainCheck(t) PROVE LeaseInv'
  BY <1>5 DEF RetainCheck
<1>6. ASSUME NEW t \in Tasks, NEW r \in Refs, NEW u \in Tasks, RetainCas(t, r, u) PROVE LeaseInv'
  <2>1. Cardinality(live') = Cardinality(live) + 1
    BY <1>6, LiveCardinality DEF RetainCas
  <2>2. QED
    BY <1>6, <2>1 DEF RetainCas
<1>7. ASSUME NEW t \in Tasks, RetainCasFail(t) PROVE LeaseInv'
  BY <1>7 DEF RetainCasFail, RetainLoop
<1>8. ASSUME NEW t \in Tasks, NEW r \in Refs, ReleaseBegin(t, r) PROVE LeaseInv'
  BY <1>8, LiveCardinality DEF ReleaseBegin
<1>9. ASSUME NEW t \in Tasks, ReleaseLoad(t) PROVE LeaseInv'
  <2>1. retain_count = 1 => close_requested
    BY <1>9, OneReference DEF ReleaseLoad
  <2>2. QED
    BY <1>9, <2>1 DEF ReleaseLoad, ReleaseLoop
<1>10. ASSUME NEW t \in Tasks, ReleaseCheck(t) PROVE LeaseInv'
  BY <1>10 DEF ReleaseCheck
<1>11. ASSUME NEW t \in Tasks, ReleaseCas(t) PROVE LeaseInv'
  <2>1. Cardinality(live') = Cardinality(live) - 1 /\ (Cardinality(live') = 0 <=> live' = {})
    BY <1>11, LiveCardinality DEF ReleaseCas
  <2>2. QED
    BY <1>11, <2>1 DEF ReleaseCas
<1>12. ASSUME NEW t \in Tasks, ReleaseCasFail(t) PROVE LeaseInv'
  <2>1. retain_count = 1 => close_requested
    BY <1>12, OneReference DEF ReleaseCasFail
  <2>2. QED
    BY <1>12, <2>1 DEF ReleaseCasFail, ReleaseLoop
<1>13. ASSUME NEW t \in Tasks, ReleaseExchange(t) PROVE LeaseInv'
  BY <1>13 DEF ReleaseExchange
<1>14. ASSUME NEW t \in Tasks, native_pool_release(t) PROVE LeaseInv'
  BY <1>14, ZenonT(30) DEF native_pool_release
<1>15. ASSUME NEW t \in Tasks, NEW p \in Refs, CloseBegin(t, p) PROVE LeaseInv'
  BY <1>15 DEF CloseBegin
<1>16. ASSUME NEW t \in Tasks, CloseCas(t) PROVE LeaseInv'
  BY <1>16, LiveCardinality DEF CloseCas
<1>17. CASE UNCHANGED vars
  BY <1>17 DEF vars
<1>18. QED
  BY <1>1, <1>2, <1>3, <1>4, <1>5, <1>6, <1>7, <1>8, <1>9, <1>10, <1>11, <1>12, <1>13, <1>14,
     <1>15, <1>16, <1>17 DEF Next, Step

\* The inductive invariant holds in every reachable state, for any number of
\* tasks and references.
THEOREM LeaseSafety == Spec => []LeaseInv
  BY LeaseInit, LeaseStep, PTL DEF Spec

\* The slot goes back exactly once, is never used after that and never lost,
\* and a balanced release is never refused.
THEOREM LeaseExactlyOnce ==
    Spec => [](NoUseAfterReturn /\ ReturnedOnce /\ NeverLost /\ ReleaseNotRefused /\ CountIsExact)
<1>1. LeaseInv => NoUseAfterReturn /\ ReturnedOnce /\ NeverLost /\ ReleaseNotRefused /\ CountIsExact
  BY DEF LeaseInv
<1>2. QED
  BY <1>1, LeaseSafety, PTL

\* A step of the atomics is a step of the contract or leaves it alone.
LEMMA ContractStep == LeaseInv /\ [Next]_vars => [Contract!Next]_(Contract!vars)
<1> SUFFICES ASSUME LeaseInv, [Next]_vars PROVE [Contract!Next]_(Contract!vars)
  OBVIOUS
<1> USE LeaseAssumption DEF LeaseInv, TypeOK, NoUseAfterReturn, Phase, Contract!vars, lease, Goto
<1>1. CASE native_pool_acquire
  BY <1>1 DEF native_pool_acquire, Contract!Next, Contract!Take
<1>2. ASSUME NEW t \in Tasks, native_lease_init(t) PROVE Contract!Open
  BY <1>2 DEF native_lease_init, Contract!Open
<1>3. ASSUME NEW t \in Tasks, NEW r \in Refs, NEW u \in Tasks, RetainCas(t, r, u)
      PROVE  Contract!Share(r)
  <2>1. inUse /\ ready /\ live # {}
    BY <1>3 DEF RetainCas, Pinned, Retaining
  <2>2. QED
    BY <1>3, <2>1 DEF RetainCas, Contract!Share
<1>4. ASSUME NEW t \in Tasks, ReleaseCas(t) PROVE Contract!Drop(arg[t])
  <2>1. inUse /\ ready /\ arg[t] \in live
    BY <1>4 DEF ReleaseCas, Pinned, Releasing
  <2>2. QED
    BY <1>4, <2>1 DEF ReleaseCas, Contract!Drop
<1>5. ASSUME NEW t \in Tasks, native_pool_release(t) PROVE Contract!Return
  <2>1. inUse /\ ready /\ live = {}
    BY <1>5 DEF native_pool_release, Returning, ReturnedOnce
  <2>2. QED
    BY <1>5, <2>1 DEF native_pool_release, Contract!Return
<1>6. ASSUME UNCHANGED <<inUse, ready, live>> PROVE UNCHANGED Contract!vars
  BY <1>6
<1>7. ASSUME NEW t \in Tasks, Step(t), ~native_lease_init(t), ~ReleaseCas(t),
             ~native_pool_release(t), ~(\E r \in Refs, u \in Tasks : RetainCas(t, r, u))
      PROVE  UNCHANGED <<inUse, ready, live>>
  BY <1>7 DEF Step, RetainBegin, RetainLoad, RetainCheck, RetainCasFail, ReleaseBegin, ReleaseLoad,
     ReleaseCheck, ReleaseCasFail, ReleaseExchange, CloseBegin, CloseCas
<1>8. CASE UNCHANGED vars
  BY <1>6, <1>8 DEF vars
<1>9. QED
  BY <1>1, <1>2, <1>3, <1>4, <1>5, <1>6, <1>7, <1>8 DEF Next, Contract!Next

\* The lock-free lease implements the contract of docs/native-lifecycle-contracts.md.
THEOREM LeaseRefinement == Spec => ImplementsContract
<1>1. Init => Contract!Init
  BY DEF Init, Contract!Init, Phase
<1>2. QED
  BY <1>1, LeaseSafety, ContractStep, PTL DEF Spec, ImplementsContract, Contract!Spec
==============================================================================
