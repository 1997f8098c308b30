---------------------------- MODULE LeaseContract ----------------------------
(***************************************************************************)
(* What docs/native-lifecycle-contracts.md ("Pool and lease contract")     *)
(* promises of one pool slot, with no atomics in sight: the slot is        *)
(* filled, leased to a first owner, shared by any number of references,    *)
(* and returned to the pool exactly once, after the last of them is gone.  *)
(***************************************************************************)
CONSTANTS Refs,     \* the references that can exist on one lease
          Owner     \* the reference lease_init creates

VARIABLES phase,    \* "free", "filling", "leased" or "draining"
          holders   \* the references that keep the slot's bytes alive

vars == <<phase, holders>>

Init ==
    /\ phase = "free"
    /\ holders = {}

\* A producer takes the free slot and fills it.
Take ==
    /\ phase = "free"
    /\ phase' = "filling"
    /\ UNCHANGED holders

\* The lease becomes visible with one reference, its owner's.
Open ==
    /\ phase = "filling"
    /\ phase' = "leased"
    /\ holders' = {Owner}

\* A reference is derived from one that exists.
Share(r) ==
    /\ phase = "leased"
    /\ r \in Refs \ holders
    /\ holders' = holders \union {r}
    /\ UNCHANGED phase

\* A reference is dropped; the last one starts the return.
Drop(r) ==
    /\ phase = "leased"
    /\ r \in holders
    /\ holders' = holders \ {r}
    /\ phase' = IF holders' = {} THEN "draining" ELSE "leased"

\* The slot goes back to the pool.
Return ==
    /\ phase = "draining"
    /\ phase' = "free"
    /\ UNCHANGED holders

Next ==
    \/ Take
    \/ Open
    \/ \E r \in Refs : Share(r) \/ Drop(r)
    \/ Return

Spec == Init /\ [][Next]_vars
==============================================================================
