------------------------- MODULE MonitorFramesProofs -------------------------
(***************************************************************************)
(* The monitor pool is safe for any number of slots, callbacks, references *)
(* and identities: MonitorInv is inductive and the properties of           *)
(* MonitorFrames follow from it.                                           *)
(***************************************************************************)
EXTENDS MonitorFrames, FiniteSetTheorems, TLAPS

\* What one slot more, or one less, does to the number of slots in use.
LEMMA UsedCardinality ==
    ASSUME NEW S \in SUBSET Slots
    PROVE  /\ Cardinality(S) \in Nat
           /\ Cardinality(S) = 0 <=> S = {}
           /\ \A i \in Slots \ S : Cardinality(S \union {i}) = Cardinality(S) + 1
           /\ \A i \in S : Cardinality(S \ {i}) = Cardinality(S) - 1
<1>1. IsFiniteSet(S)
  BY MonitorAssumption, FS_Subset
<1>2. QED
  BY <1>1, FS_CardinalityType, FS_EmptySet, FS_AddElement, FS_RemoveElement

\* The same for the callbacks that are inside publish.
LEMMA InsideCardinality ==
    ASSUME NEW S \in SUBSET Callers
    PROVE  /\ Cardinality(S) \in Nat
           /\ Cardinality(S) = 0 <=> S = {}
           /\ \A c \in Callers \ S : Cardinality(S \union {c}) = Cardinality(S) + 1
           /\ \A c \in S : Cardinality(S \ {c}) = Cardinality(S) - 1
<1>1. IsFiniteSet(S)
  BY MonitorAssumption, FS_Subset
<1>2. QED
  BY <1>1, FS_CardinalityType, FS_EmptySet, FS_AddElement, FS_RemoveElement

\* A step that moves a callback within publish leaves the number of
\* callbacks alone.
LEMMA StillInside ==
    ASSUME TypeOK, NEW c \in Callers, pc[c] # "idle", NEW l, l # "idle", Goto(c, l)
    PROVE  Inside' = Inside
  BY DEF TypeOK, Goto, Inside

\* The initial state satisfies the inductive invariant.
LEMMA MonitorInit == FramesInit => MonitorInv
<1> SUFFICES ASSUME FramesInit PROVE MonitorInv
  OBVIOUS
<1>1. Cardinality(used) = 0 /\ Cardinality(Inside) = 0
  <2>1. used = {} /\ Inside = {}
    BY DEF FramesInit, Inside
  <2>2. QED
    BY <2>1, FS_EmptySet
<1>2. TypeOK
  <2>1. /\ owner \in [Slots -> Owners] /\ identity \in [Slots -> 0..IdMax]
        /\ retain_count \in [Slots -> Nat] /\ next_identity \in 0..IdMax
    BY MonitorAssumption DEF FramesInit, Owners
  <2>2. refs \in [Tokens -> Nat]
    BY DEF FramesInit
  <2>3. pc \in [Callers -> {"idle", "copy", "hook", "refused", "count"}]
    BY DEF FramesInit
  <2>4. QED
    BY <2>1, <2>2, <2>3 DEF FramesInit, TypeOK
<1>6. LeasedExact
  BY <1>1 DEF FramesInit, LeasedExact
<1>3. RefsReadable /\ NeverStale /\ AfterDeinit /\ HookOwns /\ IdentityFresh
  BY MonitorAssumption
     DEF FramesInit, RefsReadable, NeverStale, AfterDeinit, HookOwns, InPublish, IdentityFresh
<1>4. \A i \in Slots : HeldBy(i)
  BY DEF FramesInit, HeldBy
<1>5. QED
  BY <1>2, <1>3, <1>4, <1>6 DEF MonitorInv

\* A token is determined by its slot and identity.
LEMMA TokenOf ==
    ASSUME TypeOK, NEW e \in Tokens, Resolves(e)
    PROVE  e.index \in Slots /\ e = Token(e.index)
  BY DEF TypeOK, Tokens, Token, Resolves

\* Dropping a reference keeps the count of leased frames exact.
LEMMA DropEffect ==
    ASSUME TypeOK, LeasedExact, NEW i \in Slots, owner[i] # "free", NEW o \in Owners \ {"free"},
           retain_count[i] > 0, DropReference(i, o)
    PROVE  /\ leased_frames' \in Nat /\ leased_frames' = Cardinality(used')
           /\ used' \in SUBSET Slots /\ owner' \in [Slots -> Owners]
           /\ retain_count' \in [Slots -> Nat]
           /\ \A j \in Slots : j \in used' <=> owner'[j] # "free"
<1>1. i \in used /\ Cardinality(used \ {i}) = Cardinality(used) - 1
      /\ Cardinality(used) \in Nat /\ Cardinality(used \ {i}) \in Nat
  BY UsedCardinality DEF TypeOK, LeasedExact
<1>2. leased_frames' \in Nat /\ leased_frames' = Cardinality(used')
  BY <1>1 DEF TypeOK, LeasedExact, DropReference
<1>3. QED
  BY <1>2 DEF TypeOK, LeasedExact, DropReference, Owners

\* Whoever closes the root of a slot, a callback, a receiver or a frame,
\* gives up the token with it, and the invariant holds again.
LEMMA CloseKeeps ==
    ASSUME MonitorInv, NEW i \in Slots, initialized, owner[i] \in {"writing", "event", "public"},
           CloseLocked(i), UNCHANGED <<admission, publishers, refs, at>>,
           events' \in SUBSET events, frames' \in SUBSET frames,
           \A e \in events \union frames : e # Token(i) => (e \in events' <=> e \in events)
                                                          /\ (e \in frames' <=> e \in frames),
           Token(i) \notin events' /\ Token(i) \notin frames',
           pc' \in [Callers -> {"idle", "copy", "hook", "refused", "count"}], Inside' = Inside,
           \A c \in Callers : InPublish(c) /\ at[c].index # i => pc'[c] = pc[c],
           \A c \in Callers : InPublish(c)' => pc'[c] = pc[c] /\ at[c].index # i
    PROVE  MonitorInv'
<1> USE MonitorAssumption DEF MonitorInv, admission
<1>1. i \notin closing /\ closing' = closing \union {i} /\ DropReference(i, "closed")
      /\ retain_count[i] = 1 + refs[Token(i)]
  BY DEF HeldBy, CloseLocked
<1>2. Token(i) \in Tokens
  BY DEF HeldBy, Token, Tokens, TypeOK
<1>3. /\ leased_frames' \in Nat /\ leased_frames' = Cardinality(used')
      /\ used' \in SUBSET Slots /\ owner' \in [Slots -> Owners]
      /\ retain_count' \in [Slots -> Nat]
      /\ \A j \in Slots : j \in used' <=> owner'[j] # "free"
  BY <1>1, DropEffect DEF Owners, HeldBy
<1>4. identity' = identity
  BY <1>1 DEF DropReference
<1>5. TypeOK'
  BY <1>1, <1>3, <1>4 DEF TypeOK
<1>6. LeasedExact'
  BY <1>3 DEF LeasedExact
<1>7. \A e \in Tokens : Resolves(e) => e.index \in Slots /\ e = Token(e.index)
  BY TokenOf
<1>8. \A j \in Slots : j # i => owner'[j] = owner[j] /\ retain_count'[j] = retain_count[j]
  BY <1>1 DEF DropReference, TypeOK
<1>9. /\ owner'[i] = IF refs[Token(i)] = 0 THEN "free" ELSE "closed"
      /\ retain_count'[i] = refs[Token(i)]
  BY <1>1, <1>2 DEF DropReference, TypeOK
<1>10. RefsReadable'
  <2> SUFFICES ASSUME NEW e \in Tokens, refs[e] > 0
               PROVE  Resolves(e)' /\ owner'[e.index] \in {"public", "closed"}
    BY DEF RefsReadable
  <2>1. Resolves(e) /\ owner[e.index] \in {"public", "closed"} /\ e.index \in Slots /\ e = Token(e.index)
    BY <1>7 DEF RefsReadable
  <2>2. CASE e.index = i
    BY <2>1, <2>2, <1>4, <1>9 DEF Resolves
  <2>3. CASE e.index # i
    BY <2>1, <2>3, <1>4, <1>8 DEF Resolves
  <2>4. QED
    BY <2>2, <2>3
<1>11. \A e \in Tokens : e.index # i /\ Resolves(e) => Resolves(e)' /\ owner'[e.index] = owner[e.index]
  BY <1>4, <1>7, <1>8 DEF Resolves
<1>12. NeverStale'
  <2>1. \A e \in events' : e \in Tokens /\ Resolves(e) /\ owner[e.index] = "event" /\ e.index # i
    BY <1>7 DEF NeverStale, TypeOK
  <2>2. \A e \in frames' : e \in Tokens /\ Resolves(e) /\ owner[e.index] = "public" /\ e.index # i
    BY <1>7 DEF NeverStale, TypeOK
  <2>3. \A c \in Callers : pc'[c] = "copy" =>
          at[c] \in Tokens /\ Resolves(at[c]) /\ owner[at[c].index] = "writing" /\ at[c].index # i
    BY DEF NeverStale, TypeOK, InPublish
  <2>4. QED
    BY <1>11, <2>1, <2>2, <2>3 DEF NeverStale
<1>13. HookOwns'
  <2>1. \A c \in Callers : pc'[c] \in {"hook", "refused"} =>
          /\ at[c] \in Tokens /\ Resolves(at[c]) /\ owner[at[c].index] = "event" /\ at[c].index # i
          /\ at[c] \notin events
    BY DEF HookOwns, TypeOK, InPublish
  <2>2. QED
    BY <1>11, <2>1 DEF HookOwns, InPublish
<1>14. ASSUME NEW j \in Slots PROVE HeldBy(j)'
  <2>1. CASE j = i
    BY <2>1, <1>1, <1>2, <1>4, <1>9 DEF HeldBy, Token, TypeOK
  <2>2. CASE j # i
    <3>1. Token(j)' = Token(j) /\ Token(j) # Token(i)
      BY <2>2, <1>4 DEF Token
    <3>2. \A c \in Callers : InPublish(c) /\ at[c] = Token(j) => pc'[c] = pc[c]
      BY <2>2 DEF Token
    <3>3. QED
      BY <2>2, <1>1, <1>4, <1>8, <3>1, <3>2 DEF HeldBy, InPublish
  <2>3. QED
    BY <2>1, <2>2
<1>15. IdentityFresh' /\ AfterDeinit'
  BY <1>4 DEF IdentityFresh, AfterDeinit
<1>16. QED
  BY <1>5, <1>6, <1>10, <1>12, <1>13, <1>14, <1>15

\* Every step preserves it.
LEMMA MonitorStep == MonitorInv /\ [FramesNext]_frameVars => MonitorInv'
<1> SUFFICES ASSUME MonitorInv, [FramesNext]_frameVars PROVE MonitorInv'
  OBVIOUS
<1> USE MonitorAssumption DEF MonitorInv, slots, admission, holders, caller
<1>0. /\ \A e \in Tokens : Resolves(e) => e.index \in Slots /\ e = Token(e.index)
      /\ \A c \in Callers : at[c] \in Tokens
  BY TokenOf DEF TypeOK
<1>1. ASSUME NEW on \in BOOLEAN, set_accepting(on) PROVE MonitorInv'
  <2>1. Inside' = Inside /\ (\A e : Resolves(e)' <=> Resolves(e)) /\ (\A i : Token(i)' = Token(i))
    BY <1>1 DEF set_accepting, Inside, Resolves, Token
  <2>2. TypeOK' /\ LeasedExact' /\ RefsReadable' /\ IdentityFresh' /\ AfterDeinit'
    BY <1>1, <2>1 DEF set_accepting, TypeOK, LeasedExact, RefsReadable, IdentityFresh, AfterDeinit
  <2>3. NeverStale' /\ HookOwns'
    BY <1>1, <2>1 DEF set_accepting, NeverStale, HookOwns, InPublish
  <2>4. ASSUME NEW j \in Slots PROVE HeldBy(j)'
    BY <1>1, <2>1 DEF set_accepting, HeldBy
  <2>5. QED
    BY <2>2, <2>3, <2>4
<1>2. CASE deinit
  <2>1. used = {} /\ Inside = {} /\ Inside' = Inside
    <3>1. Cardinality(used) = 0 /\ Cardinality(Inside) = 0
      BY <1>2 DEF deinit, DeinitReady, LeasedExact
    <3>2. used \in SUBSET Slots /\ Inside \in SUBSET Callers
      BY DEF TypeOK, Inside
    <3>3. QED
      BY <1>2, <3>1, <3>2, UsedCardinality, InsideCardinality DEF deinit, Inside
  <2>2. (\A c \in Callers : pc[c] = "idle") /\ (\A i \in Slots : owner[i] = "free")
    BY <2>1 DEF Inside, LeasedExact
  <2>3. events = {} /\ frames = {} /\ (\A e \in Tokens : ~(refs[e] > 0))
    <3>1. \A e \in Tokens : ~Resolves(e)
      BY <1>0, <2>2 DEF Resolves
    <3>2. QED
      BY <3>1 DEF NeverStale, RefsReadable, TypeOK
  <2>4. TypeOK' /\ LeasedExact' /\ AfterDeinit' /\ IdentityFresh'
    BY <1>2, <2>1 DEF deinit, DeinitReady, TypeOK, LeasedExact, AfterDeinit, IdentityFresh
  <2>5. RefsReadable' /\ NeverStale' /\ HookOwns'
    BY <1>2, <2>2, <2>3 DEF deinit, RefsReadable, NeverStale, HookOwns, InPublish
  <2>6. ASSUME NEW j \in Slots PROVE HeldBy(j)'
    BY <1>2, <2>2 DEF deinit, HeldBy
  <2>7. QED
    BY <2>4, <2>5, <2>6
<1>3. ASSUME NEW c \in Callers, publish(c) PROVE MonitorInv'
  <2>1. PICK i \in Slots : /\ PoolAcquire(i) /\ Claim(i)
                           /\ at' = [at EXCEPT ![c] = [identity |-> next_identity, index |-> i]]
    BY <1>3 DEF publish
  <2>2. Cardinality(used') = Cardinality(used) + 1 /\ Cardinality(used) \in Nat
    BY <2>1, UsedCardinality DEF PoolAcquire, Claim, TypeOK
  <2>3. Cardinality(Inside') = Cardinality(Inside) + 1 /\ Cardinality(Inside) \in Nat
    <3>1. Inside' = Inside \union {c} /\ c \in Callers \ Inside /\ Inside \in SUBSET Callers
      BY <1>3 DEF publish, Inside, Goto, TypeOK
    <3>2. QED
      BY <3>1, InsideCardinality
  <2>4. /\ owner[i] = "free" /\ next_identity \in 1..IdMax /\ next_identity' \in 0..IdMax
        /\ [identity |-> next_identity, index |-> i] \in Tokens
    BY <1>3, <2>1 DEF publish, NextIdentity, PoolAcquire, LeasedExact, TypeOK, Tokens
  <2>5. /\ pc' = [pc EXCEPT ![c] = "copy"] /\ pc[c] = "idle"
        /\ UNCHANGED <<initialized, accepting, events, frames, refs>> /\ initialized
        /\ publishers' = publishers + 1
    BY <1>3 DEF publish, Goto
  <2>6. TypeOK'
    BY <2>1, <2>4, <2>5 DEF Claim, TypeOK, Owners
  <2>7. LeasedExact' /\ AfterDeinit'
    BY <2>1, <2>2, <2>3, <2>5 DEF PoolAcquire, Claim, LeasedExact, TypeOK, AfterDeinit
  <2>8. \A j \in Slots : j # i => owner'[j] = owner[j] /\ identity'[j] = identity[j]
                                /\ retain_count'[j] = retain_count[j]
                                /\ (j \in closing' <=> j \in closing)
    BY <2>1 DEF Claim, TypeOK
  <2>9. /\ owner'[i] = "writing" /\ identity'[i] = next_identity /\ retain_count'[i] = 1
        /\ i \notin closing'
    BY <2>1 DEF Claim, TypeOK
  <2>10. \A e \in Tokens : Resolves(e) => Resolves(e)' /\ owner'[e.index] = owner[e.index] /\ e.index # i
    BY <1>0, <2>4, <2>5, <2>8 DEF Resolves
  <2>11. at'[c] = [identity |-> next_identity, index |-> i] /\ \A d \in Callers : d # c => at'[d] = at[d]
    BY <2>1 DEF TypeOK
  <2>12. Resolves(at[c])' /\ owner'[at'[c].index] = "writing" /\ at'[c].index = i
    BY <2>5, <2>9, <2>11 DEF Resolves
  <2>13. RefsReadable'
    BY <2>5, <2>10 DEF RefsReadable
  <2>14. NeverStale'
    BY <1>0, <2>5, <2>10, <2>11, <2>12 DEF NeverStale, TypeOK
  <2>15. \A d \in Callers : d # c => (InPublish(d)' <=> InPublish(d))
    BY <2>5 DEF InPublish, TypeOK
  <2>16. \A d \in Callers : InPublish(d) => Resolves(at[d])
    BY DEF InPublish, NeverStale, HookOwns
  <2>17. HookOwns'
    <3>1. \A d \in Callers : pc'[d] \in {"hook", "refused"} => d # c /\ pc[d] = pc'[d]
      BY <2>5 DEF TypeOK
    <3>2. \A d \in Callers : pc'[d] \in {"hook", "refused"} =>
            Resolves(at[d])' /\ owner'[at'[d].index] = "event" /\ at'[d] \notin events'
      BY <1>0, <2>5, <2>10, <2>11, <3>1 DEF HookOwns
    <3>3. \A d \in Callers : d # c /\ InPublish(d)' => at'[d].index # i
      BY <1>0, <2>10, <2>11, <2>15, <2>16
    <3>4. \A d, f \in Callers : InPublish(d)' /\ InPublish(f)' /\ at'[d].index = at'[f].index => d = f
      BY <2>11, <2>12, <2>15, <3>3 DEF HookOwns
    <3>5. QED
      BY <3>2, <3>4 DEF HookOwns
  <2>18. IdentityFresh'
    <3>1. next_identity' = IF next_identity = IdMax THEN 0 ELSE next_identity + 1
      BY <1>3 DEF publish, NextIdentity
    <3>2. \A j \in Slots : identity'[j] \in Nat /\ identity'[j] <= next_identity
      BY <2>4, <2>8, <2>9 DEF IdentityFresh, TypeOK
    <3>3. QED
      BY <2>4, <3>1, <3>2 DEF IdentityFresh
  <2>19. refs[[identity |-> next_identity, index |-> i]] = 0
    BY <2>4, <2>10 DEF RefsReadable, TypeOK
  <2>20. ASSUME NEW j \in Slots PROVE HeldBy(j)'
    <3>1. CASE j = i
      <4>1. Token(j)' = [identity |-> next_identity, index |-> i]
        BY <3>1, <2>9 DEF Token
      <4>2. pc'[c] = "copy" /\ at'[c] = Token(j)'
        BY <4>1, <2>5, <2>11 DEF TypeOK
      <4>3. QED
        BY <3>1, <4>1, <4>2, <2>4, <2>5, <2>9, <2>19 DEF HeldBy
    <3>2. CASE j # i
      <4>1. Token(j)' = Token(j)
        BY <3>2, <2>8 DEF Token
      <4>2. \A d \in Callers : pc[d] # "idle" => pc'[d] = pc[d] /\ at'[d] = at[d]
        BY <2>5, <2>11 DEF TypeOK
      <4>3. QED
        BY <3>2, <4>1, <4>2, <2>5, <2>8 DEF HeldBy
    <3>3. QED
      BY <3>1, <3>2
  <2>21. QED
    BY <2>6, <2>7, <2>13, <2>14, <2>17, <2>18, <2>20
<1>4. ASSUME NEW c \in Callers, PublishCopied(c) PROVE MonitorInv'
  <2>1. Resolves(at[c]) /\ owner[at[c].index] = "writing" /\ initialized
    BY <1>4 DEF PublishCopied, NeverStale, Resolves
  <2>2. at[c] \in Tokens /\ at[c].index \in Slots /\ at[c] = Token(at[c].index)
    BY <1>0, <2>1
  <2>3. Inside' = Inside
    BY <1>4, StillInside DEF PublishCopied
  <2>4. \A d \in Callers : InPublish(d) /\ at[d].index = at[c].index => d = c
    BY <1>4 DEF PublishCopied, HookOwns, InPublish
  <2>5. at[c] \notin events /\ at[c] \notin frames
    BY <2>1 DEF NeverStale
  <2>6. CASE accepting
    <3>1. /\ owner' = [owner EXCEPT ![at[c].index] = "event"] /\ pc' = [pc EXCEPT ![c] = "hook"]
          /\ pc[c] = "copy"
          /\ UNCHANGED <<used, identity, retain_count, closing, leased_frames, initialized, accepting,
                        next_identity, publishers, events, frames, refs, at>>
      BY <1>4, <2>6 DEF PublishCopied, Goto
    <3>2. TypeOK' /\ LeasedExact' /\ AfterDeinit' /\ IdentityFresh'
      BY <2>1, <2>3, <3>1 DEF TypeOK, LeasedExact, Owners, AfterDeinit, IdentityFresh
    <3>3. \A e \in Tokens : Resolves(e) => Resolves(e)'
                              /\ (e.index # at[c].index => owner'[e.index] = owner[e.index])
      BY <1>0, <3>1 DEF Resolves, TypeOK
    <3>4. owner'[at[c].index] = "event" /\ Resolves(at[c])'
      BY <2>1, <2>2, <3>1, <3>3 DEF TypeOK
    <3>5. RefsReadable' /\ NeverStale'
      BY <1>0, <2>1, <2>4, <3>1, <3>3 DEF RefsReadable, NeverStale, TypeOK, InPublish
    <3>6. HookOwns'
      BY <1>0, <2>4, <2>5, <3>1, <3>3, <3>4 DEF HookOwns, TypeOK, InPublish
    <3>7. ASSUME NEW j \in Slots PROVE HeldBy(j)'
      <4>1. Token(j)' = Token(j)
        BY <3>1 DEF Token
      <4>2. CASE j = at[c].index
        BY <4>1, <4>2, <2>1, <2>2, <3>1 DEF HeldBy, TypeOK
      <4>3. CASE j # at[c].index
        <5>1. \A d \in Callers : at[d] = Token(j) => d # c
          BY <2>2, <4>3 DEF Token
        <5>2. QED
          BY <4>1, <4>3, <3>1, <5>1 DEF HeldBy, TypeOK
      <4>4. QED
        BY <4>2, <4>3
    <3>8. QED
      BY <3>2, <3>5, <3>6, <3>7
  <2>7. CASE ~accepting
    <3>1. CloseLocked(at[c].index) /\ pc' = [pc EXCEPT ![c] = "count"]
          /\ UNCHANGED <<admission, publishers, refs, at, events, frames>>
      BY <1>4, <2>7 DEF PublishCopied, Goto
    <3>2. pc \in [Callers -> {"idle", "copy", "hook", "refused", "count"}]
      BY DEF TypeOK
    <3> HIDE DEF MonitorInv, admission
    <3>3. \A d \in Callers : InPublish(d)' => pc'[d] = pc[d] /\ at[d].index # at[c].index
      BY <2>4, <3>1, <3>2 DEF InPublish
    <3>4. \A d \in Callers : InPublish(d) /\ at[d].index # at[c].index => pc'[d] = pc[d]
      BY <3>1, <3>2
    <3>5. QED
      BY <2>1, <2>2, <2>3, <2>5, <3>1, <3>2, <3>3, <3>4, CloseKeeps
  <2>8. QED
    BY <2>6, <2>7
<1>5. ASSUME NEW c \in Callers, PublishHook(c) PROVE MonitorInv'
  <2>1. Resolves(at[c]) /\ owner[at[c].index] = "event" /\ at[c] \notin events /\ pc[c] = "hook"
    BY <1>5 DEF PublishHook, HookOwns
  <2>2. at[c] \in Tokens /\ at[c].index \in Slots /\ at[c] = Token(at[c].index)
    BY <1>0, <2>1
  <2>3. Inside' = Inside
    BY <1>5, StillInside DEF PublishHook
  <2>4. /\ UNCHANGED <<used, owner, identity, retain_count, closing, leased_frames, initialized,
                      accepting, next_identity, publishers, frames, refs, at>>
        /\ \/ events' = events \union {at[c]} /\ pc' = [pc EXCEPT ![c] = "count"]
           \/ events' = events /\ pc' = [pc EXCEPT ![c] = "refused"]
    BY <1>5 DEF PublishHook, Goto
  <2>5. (\A e : Resolves(e)' <=> Resolves(e)) /\ (\A i : Token(i)' = Token(i))
    BY <2>4 DEF Resolves, Token
  <2>6. TypeOK' /\ LeasedExact' /\ RefsReadable' /\ AfterDeinit' /\ IdentityFresh'
    BY <2>2, <2>3, <2>4, <2>5 DEF TypeOK, LeasedExact, RefsReadable, AfterDeinit, IdentityFresh
  <2>7. NeverStale'
    BY <2>1, <2>4, <2>5 DEF NeverStale, TypeOK
  <2>8. \A d \in Callers : d # c /\ InPublish(d) => at[d].index # at[c].index
    BY <2>1 DEF HookOwns, InPublish
  <2>9. HookOwns'
    BY <2>1, <2>4, <2>5, <2>8 DEF HookOwns, InPublish, TypeOK
  <2>10. ASSUME NEW j \in Slots PROVE HeldBy(j)'
    BY <2>1, <2>2, <2>4, <2>5 DEF HeldBy, TypeOK
  <2>11. QED
    BY <2>6, <2>7, <2>9, <2>10
<1>6. ASSUME NEW c \in Callers, PublishRefused(c) PROVE MonitorInv'
  <2>1. Resolves(at[c]) /\ owner[at[c].index] = "event" /\ initialized
    BY <1>6 DEF PublishRefused, HookOwns, Resolves
  <2>2. at[c] \in Tokens /\ at[c].index \in Slots /\ at[c] = Token(at[c].index)
    BY <1>0, <2>1
  <2>3. Inside' = Inside
    BY <1>6, StillInside DEF PublishRefused
  <2>4. CloseLocked(at[c].index) /\ pc' = [pc EXCEPT ![c] = "count"]
        /\ UNCHANGED <<admission, publishers, refs, at, events, frames>>
    BY <1>6, <2>1 DEF PublishRefused, ChangeOwner, Goto
  <2>5. at[c] \notin events /\ at[c] \notin frames
    BY <1>6, <2>1 DEF PublishRefused, HookOwns, NeverStale
  <2>6. \A d \in Callers : InPublish(d) /\ at[d].index = at[c].index => d = c
    BY <1>6 DEF PublishRefused, HookOwns, InPublish
  <2>7. pc \in [Callers -> {"idle", "copy", "hook", "refused", "count"}]
    BY DEF TypeOK
  <2> HIDE DEF MonitorInv, admission
  <2>8. \A d \in Callers : InPublish(d)' => pc'[d] = pc[d] /\ at[d].index # at[c].index
    BY <2>4, <2>6, <2>7 DEF InPublish
  <2>9. \A d \in Callers : InPublish(d) /\ at[d].index # at[c].index => pc'[d] = pc[d]
    BY <2>4, <2>7
  <2>10. QED
    BY <2>1, <2>2, <2>3, <2>4, <2>5, <2>7, <2>8, <2>9, CloseKeeps
<1>7. ASSUME NEW c \in Callers, PublishLeave(c) PROVE MonitorInv'
  <2>1. /\ UNCHANGED <<used, owner, identity, retain_count, closing, leased_frames, initialized,
                      accepting, next_identity, events, frames, refs, at>>
        /\ publishers' = publishers - 1 /\ pc' = [pc EXCEPT ![c] = "idle"] /\ pc[c] = "count"
    BY <1>7 DEF PublishLeave, Goto
  <2>2. Cardinality(Inside') = Cardinality(Inside) - 1 /\ Cardinality(Inside') \in Nat
        /\ Cardinality(Inside) # 0 /\ Cardinality(Inside) \in Nat
    <3>1. Inside' = Inside \ {c} /\ c \in Inside /\ Inside \in SUBSET Callers
          /\ Inside' \in SUBSET Callers
      BY <2>1 DEF Inside, TypeOK
    <3>2. QED
      BY <3>1, InsideCardinality
  <2>3. (\A e : Resolves(e)' <=> Resolves(e)) /\ (\A i : Token(i)' = Token(i))
    BY <2>1 DEF Resolves, Token
  <2>4. TypeOK' /\ LeasedExact' /\ RefsReadable' /\ AfterDeinit' /\ IdentityFresh'
    BY <2>1, <2>2, <2>3 DEF TypeOK, LeasedExact, RefsReadable, AfterDeinit, IdentityFresh
  <2>5. NeverStale' /\ HookOwns'
    BY <2>1, <2>3 DEF NeverStale, HookOwns, InPublish, TypeOK
  <2>6. ASSUME NEW j \in Slots PROVE HeldBy(j)'
    BY <2>1, <2>3 DEF HeldBy, TypeOK
  <2>7. QED
    BY <2>4, <2>5, <2>6
<1>8. ASSUME NEW e \in Tokens, take_event(e) PROVE MonitorInv'
  <2>1. Resolves(e) /\ owner[e.index] = "event" /\ e \in events
    BY <1>8 DEF take_event, NeverStale
  <2>2. e.index \in Slots /\ e = Token(e.index)
    BY <1>0, <2>1
  <2>3. /\ UNCHANGED <<used, identity, retain_count, closing, leased_frames, initialized,
                      accepting, next_identity, publishers, refs, pc, at>>
        /\ events' = events \ {e} /\ frames' = frames \union {e}
        /\ owner' = [owner EXCEPT ![e.index] = "public"]
    BY <1>8, <2>1 DEF take_event
  <2>4. Inside' = Inside
    BY <2>3 DEF Inside
  <2>5. \A c \in Callers : InPublish(c) => at[c] \in Tokens /\ Resolves(at[c]) /\ at[c].index # e.index
    BY <1>0, <2>1, <2>2 DEF InPublish, HookOwns, NeverStale
  <2>6. TypeOK' /\ LeasedExact' /\ AfterDeinit' /\ IdentityFresh'
    BY <2>1, <2>3, <2>4 DEF TypeOK, LeasedExact, Owners, AfterDeinit, IdentityFresh
  <2>7. \A d \in Tokens : Resolves(d) => Resolves(d)' /\ (d.index # e.index => owner'[d.index] = owner[d.index])
    BY <1>0, <2>3 DEF Resolves, TypeOK
  <2>8. owner'[e.index] = "public" /\ Resolves(e)'
    BY <2>1, <2>2, <2>3, <2>7 DEF TypeOK
  <2>9. \A d \in Tokens : Resolves(d) /\ d # e => d.index # e.index
    BY <1>0, <2>2
  <2>10. RefsReadable'
    BY <2>1, <2>3, <2>7, <2>8 DEF RefsReadable
  <2>11. NeverStale'
    BY <2>1, <2>3, <2>5, <2>7, <2>8, <2>9 DEF NeverStale, TypeOK, InPublish
  <2>12. HookOwns'
    BY <2>3, <2>5, <2>7 DEF HookOwns, InPublish
  <2>13. ASSUME NEW j \in Slots PROVE HeldBy(j)'
    <3>1. Token(j)' = Token(j)
      BY <2>3 DEF Token
    <3>2. CASE j = e.index
      BY <3>1, <3>2, <2>1, <2>2, <2>3, ZenonT(30) DEF HeldBy, TypeOK
    <3>3. CASE j # e.index
      <4>1. Token(j) # e
        BY <3>3 DEF Token
      <4>2. QED
        BY <3>1, <3>3, <4>1, <2>3 DEF HeldBy, TypeOK
    <3>4. QED
      BY <3>2, <3>3
  <2>14. QED
    BY <2>6, <2>10, <2>11, <2>12, <2>13
<1>9. ASSUME NEW e \in Tokens, discard_event(e) PROVE MonitorInv'
  <2>1. Resolves(e) /\ owner[e.index] = "event" /\ initialized /\ e \in events /\ e \notin frames
    BY <1>9 DEF discard_event, NeverStale, Resolves
  <2>2. e.index \in Slots /\ e = Token(e.index)
    BY <1>0, <2>1
  <2>3. CloseLocked(e.index) /\ UNCHANGED <<admission, publishers, refs, at, pc, frames>>
        /\ events' = events \ {e}
    BY <1>9, <2>1 DEF discard_event, ChangeOwner
  <2>4. Inside' = Inside
    BY <2>3 DEF Inside
  <2>5. \A c \in Callers : InPublish(c) => at[c].index # e.index
    BY <1>0, <2>1, <2>2 DEF InPublish, HookOwns, NeverStale
  <2>6. pc \in [Callers -> {"idle", "copy", "hook", "refused", "count"}]
    BY DEF TypeOK
  <2> HIDE DEF MonitorInv, admission
  <2>7. \A c \in Callers : InPublish(c)' => pc'[c] = pc[c] /\ at[c].index # e.index
    BY <2>3, <2>5 DEF InPublish
  <2>8. QED
    BY <2>1, <2>2, <2>3, <2>4, <2>6, <2>7, CloseKeeps
<1>10. ASSUME NEW e \in Tokens, close_frame(e) PROVE MonitorInv'
  <2>1. Resolves(e) /\ owner[e.index] = "public" /\ initialized /\ e \in frames /\ e \notin events
    BY <1>10 DEF close_frame, NeverStale, Resolves
  <2>2. e.index \in Slots /\ e = Token(e.index)
    BY <1>0, <2>1
  <2>3. CloseLocked(e.index) /\ UNCHANGED <<admission, publishers, refs, at, pc, events>>
        /\ frames' = frames \ {e}
    BY <1>10, <2>1 DEF close_frame, ChangeOwner
  <2>4. Inside' = Inside
    BY <2>3 DEF Inside
  <2>5. \A c \in Callers : InPublish(c) => at[c].index # e.index
    BY <2>1 DEF InPublish, HookOwns, NeverStale
  <2>6. pc \in [Callers -> {"idle", "copy", "hook", "refused", "count"}]
    BY DEF TypeOK
  <2> HIDE DEF MonitorInv, admission
  <2>7. \A c \in Callers : InPublish(c)' => pc'[c] = pc[c] /\ at[c].index # e.index
    BY <2>3, <2>5 DEF InPublish
  <2>8. QED
    BY <2>1, <2>2, <2>3, <2>4, <2>6, <2>7, CloseKeeps
<1>11. ASSUME NEW e \in Tokens, retain_frame(e) PROVE MonitorInv'
  <2>1. Resolves(e) /\ owner[e.index] = "public"
    BY <1>11 DEF retain_frame
  <2>2. e.index \in Slots /\ e = Token(e.index)
    BY <1>0, <2>1
  <2>3. /\ UNCHANGED <<used, owner, identity, closing, leased_frames, initialized,
                      accepting, next_identity, publishers, events, frames, pc, at>>
        /\ retain_count' = [retain_count EXCEPT ![e.index] = @ + 1]
        /\ refs' = [refs EXCEPT ![e] = @ + 1]
    BY <1>11 DEF retain_frame, LeaseRetain
  <2>4. Inside' = Inside /\ (\A d : Resolves(d)' <=> Resolves(d)) /\ (\A i : Token(i)' = Token(i))
    BY <2>3 DEF Inside, Resolves, Token
  <2>5. TypeOK' /\ LeasedExact' /\ AfterDeinit' /\ IdentityFresh'
    <3>1. retain_count' \in [Slots -> Nat] /\ refs' \in [Tokens -> Nat]
      <4>1. retain_count \in [Slots -> Nat] /\ refs \in [Tokens -> Nat]
        BY DEF TypeOK
      <4>2. retain_count[e.index] + 1 \in Nat /\ refs[e] + 1 \in Nat
        <5>1. retain_count[e.index] \in Nat
          BY <2>2, <4>1
        <5>2. refs[e] \in Nat
          BY <4>1
        <5>3. QED
          BY <5>1, <5>2
      <4>3. retain_count' = [retain_count EXCEPT ![e.index] = retain_count[e.index] + 1]
            /\ refs' = [refs EXCEPT ![e] = refs[e] + 1]
        BY <2>3
      <4>4. retain_count' \in [Slots -> Nat]
        BY <4>1, <4>2, <4>3
      <4>5. refs' \in [Tokens -> Nat]
        BY <4>1, <4>2, <4>3
      <4>6. QED
        BY <4>4, <4>5
    <3>2. TypeOK'
      BY <2>3, <3>1 DEF TypeOK
    <3>3. QED
      BY <2>3, <2>4, <3>2 DEF LeasedExact, AfterDeinit, IdentityFresh
  <2>6. RefsReadable' /\ NeverStale' /\ HookOwns'
    BY <2>1, <2>3, <2>4 DEF RefsReadable, NeverStale, HookOwns, InPublish, TypeOK
  <2>7. ASSUME NEW j \in Slots PROVE HeldBy(j)'
    <3>1. CASE j = e.index
      <4>1. /\ retain_count'[j] = retain_count[j] + 1 /\ refs'[Token(j)] = refs[Token(j)] + 1
            /\ retain_count[j] \in Nat /\ refs[Token(j)] \in Nat
        BY <3>1, <2>2, <2>3 DEF TypeOK
      <4>2. HeldBy(j) /\ owner[j] = "public" /\ Token(j)' = Token(j)
        BY <3>1, <2>1, <2>2, <2>4
      <4>3. QED
        BY <4>1, <4>2, <2>3 DEF HeldBy
    <3>2. CASE j # e.index
      <4>1. Token(j) # e
        BY <3>2 DEF Token
      <4>2. QED
        BY <3>2, <4>1, <2>3, <2>4 DEF HeldBy, TypeOK
    <3>3. QED
      BY <3>1, <3>2
  <2>8. QED
    BY <2>5, <2>6, <2>7
<1>12. ASSUME NEW e \in Tokens, release_ref(e) PROVE MonitorInv'
  <2>1. Resolves(e) /\ owner[e.index] \in {"public", "closed"} /\ refs[e] > 0
    BY <1>12 DEF release_ref, RefsReadable
  <2>2. e.index \in Slots /\ e = Token(e.index)
    BY <1>0, <2>1
  <2>3. HeldBy(e.index) /\ retain_count[e.index] \in Nat /\ refs[e] \in Nat
    BY <2>2 DEF TypeOK
  <2>4. /\ retain_count[e.index] = 1 => e.index \in closing /\ owner[e.index] = "closed" /\ refs[e] = 1
        /\ retain_count[e.index] > 0
    BY <2>1, <2>2, <2>3 DEF HeldBy
  <2>5. MayRelease(e.index)
    BY <2>3, <2>4 DEF MayRelease
  <2>6. /\ DropReference(e.index, owner[e.index])
        /\ UNCHANGED <<closing, initialized, accepting, next_identity, publishers, events, frames,
                      pc, at>>
        /\ refs' = [refs EXCEPT ![e] = @ - 1]
    BY <1>12, <2>1, <2>5 DEF release_ref
  <2>7. /\ leased_frames' \in Nat /\ leased_frames' = Cardinality(used')
        /\ used' \in SUBSET Slots /\ owner' \in [Slots -> Owners]
        /\ retain_count' \in [Slots -> Nat]
        /\ \A j \in Slots : j \in used' <=> owner'[j] # "free"
    BY <2>1, <2>2, <2>4, <2>6, DropEffect DEF Owners
  <2>8. Inside' = Inside
    BY <2>6 DEF Inside
  <2>9. identity' = identity
    BY <2>6 DEF DropReference
  <2>10. TypeOK'
    BY <2>1, <2>6, <2>7, <2>9 DEF TypeOK
  <2>11. LeasedExact' /\ IdentityFresh' /\ AfterDeinit'
    BY <2>1, <2>6, <2>7, <2>8, <2>9 DEF LeasedExact, IdentityFresh, AfterDeinit, Resolves
  <2>12. \A j \in Slots : j # e.index => owner'[j] = owner[j] /\ retain_count'[j] = retain_count[j]
    BY <2>6 DEF DropReference, TypeOK
  <2>13. /\ owner'[e.index] = IF retain_count[e.index] = 1 THEN "free" ELSE owner[e.index]
         /\ retain_count'[e.index] = retain_count[e.index] - 1
    BY <2>2, <2>6 DEF DropReference, TypeOK
  <2>14. refs'[e] = refs[e] - 1 /\ \A d \in Tokens : d # e => refs'[d] = refs[d]
    BY <2>6 DEF TypeOK
  <2>15. \A d \in Tokens : Resolves(d) /\ d # e => d.index # e.index
    BY <1>0, <2>2
  <2>16. \A d \in Tokens : Resolves(d) /\ d # e => Resolves(d)' /\ owner'[d.index] = owner[d.index]
    BY <1>0, <2>6, <2>9, <2>12, <2>15 DEF Resolves
  <2>17. refs'[e] > 0 => Resolves(e)' /\ owner'[e.index] = owner[e.index]
    BY <2>1, <2>3, <2>4, <2>6, <2>9, <2>13, <2>14 DEF Resolves
  <2>18. RefsReadable'
    BY <2>1, <2>14, <2>16, <2>17 DEF RefsReadable
  <2>19. owner[e.index] = "public" => Resolves(e)' /\ owner'[e.index] = "public"
    BY <2>1, <2>4, <2>6, <2>9, <2>13 DEF Resolves
  <2>20. \A c \in Callers : InPublish(c) => at[c] \in Tokens /\ Resolves(at[c]) /\ at[c] # e
    BY <1>0, <2>1 DEF InPublish, HookOwns, NeverStale
  <2>21. NeverStale'
    BY <2>1, <2>6, <2>16, <2>19, <2>20 DEF NeverStale, TypeOK, InPublish
  <2>22. HookOwns'
    BY <2>6, <2>16, <2>20 DEF HookOwns, InPublish
  <2>23. ASSUME NEW j \in Slots PROVE HeldBy(j)'
    <3>1. Token(j)' = Token(j)
      BY <2>9 DEF Token
    <3>2. CASE j = e.index
      <4>1. Token(j) = e
        BY <2>2, <3>2
      <4>2. QED
        BY <3>1, <3>2, <4>1, <2>1, <2>3, <2>4, <2>6, <2>9, <2>13, <2>14 DEF HeldBy
    <3>3. CASE j # e.index
      <4>1. Token(j) # e
        BY <3>3 DEF Token
      <4>2. owner[j] # "free" => Token(j) \in Tokens
        <5>1. HeldBy(j) /\ identity[j] \in 0..IdMax
          BY DEF TypeOK
        <5>2. QED
          BY <5>1 DEF Token, Tokens, HeldBy
      <4>3. QED
        BY <3>1, <3>3, <4>1, <4>2, <2>6, <2>9, <2>12, <2>14 DEF HeldBy
    <3>4. QED
      BY <3>2, <3>3
  <2>24. QED
    BY <2>10, <2>11, <2>18, <2>21, <2>22, <2>23
<1>13. CASE UNCHANGED frameVars
  <2>1. Inside' = Inside /\ (\A d : Resolves(d)' <=> Resolves(d)) /\ (\A i : Token(i)' = Token(i))
    BY <1>13 DEF frameVars, Inside, Resolves, Token
  <2>2. TypeOK' /\ LeasedExact' /\ RefsReadable' /\ AfterDeinit' /\ IdentityFresh'
    BY <1>13, <2>1 DEF frameVars, TypeOK, LeasedExact, RefsReadable, AfterDeinit, IdentityFresh
  <2>3. NeverStale' /\ HookOwns'
    BY <1>13, <2>1 DEF frameVars, NeverStale, HookOwns, InPublish
  <2>4. ASSUME NEW j \in Slots PROVE HeldBy(j)'
    BY <1>13, <2>1 DEF frameVars, HeldBy
  <2>5. QED
    BY <2>2, <2>3, <2>4
<1>14. CASE FramesNext
  BY <1>1, <1>2, <1>3, <1>4, <1>5, <1>6, <1>7, <1>8, <1>9, <1>10, <1>11, <1>12, <1>14
     DEF FramesNext, Publishing, Using
<1>15. QED
  BY <1>13, <1>14

\* The inductive invariant holds in every reachable state.
THEOREM MonitorSafety == FramesSpec => []MonitorInv
  BY MonitorInit, MonitorStep, PTL DEF FramesSpec

\* For pools of any size and any number of callbacks, frames and references:
\* the counters deinit waits for are exact, retained bytes stay readable,
\* nothing delivered is stale, and the storage is freed under nobody.
THEOREM MonitorFramesSafe == FramesSpec => []FramesSafe
<1>1. MonitorInv => FreedWhenUnused
  <2> SUFFICES ASSUME MonitorInv, ~initialized PROVE FreedWhenUnused
    BY DEF FreedWhenUnused
  <2>1. events = {} /\ frames = {} /\ \A e \in Tokens : refs[e] = 0
    BY DEF MonitorInv, NeverStale, RefsReadable, Resolves, TypeOK
  <2>2. Cardinality(Inside) = 0 /\ Inside \in SUBSET Callers
    BY DEF MonitorInv, AfterDeinit, LeasedExact, Inside
  <2>3. Inside = {}
    BY <2>2, InsideCardinality
  <2>4. QED
    BY <2>1, <2>3 DEF FreedWhenUnused, Inside
<1>2. MonitorInv => NoSlotLeaks
  <2> SUFFICES ASSUME MonitorInv, NEW i \in used
               PROVE  \/ \E c \in Callers : pc[c] \in {"copy", "hook", "refused"} /\ at[c].index = i
                      \/ \E e \in Tokens : e.index = i /\ (e \in events \/ e \in frames \/ refs[e] > 0)
    BY DEF NoSlotLeaks
  <2>1. i \in Slots /\ owner[i] \in Owners \ {"free"} /\ HeldBy(i)
    BY DEF MonitorInv, TypeOK, LeasedExact
  <2>2. Token(i) \in Tokens /\ Token(i).index = i
    BY <2>1 DEF Token, Tokens, HeldBy, MonitorInv, TypeOK
  <2>3. QED
    BY <2>1, <2>2 DEF HeldBy, Owners
<1>3. MonitorInv => LeasedExact /\ RefsReadable /\ NeverStale
  BY DEF MonitorInv
<1>4. MonitorInv => FramesSafe
  BY <1>1, <1>2, <1>3 DEF FramesSafe
<1>5. QED
  BY <1>4, MonitorSafety, PTL

\* An identity is never given to a slot a second time.
THEOREM MonitorIdentityGrows == FramesSpec => IdentityGrows
<1>1. MonitorInv /\ [FramesNext]_frameVars => [\A i \in Slots : identity'[i] >= identity[i]]_frameVars
  <2> SUFFICES ASSUME MonitorInv, FramesNext, NEW i \in Slots PROVE identity'[i] >= identity[i]
    BY DEF frameVars
  <2>1. identity \in [Slots -> 0..IdMax] /\ (next_identity # 0 => identity[i] < next_identity)
        /\ next_identity \in 0..IdMax
    BY DEF MonitorInv, TypeOK, IdentityFresh
  <2>2. ASSUME NEW c \in Callers, publish(c) PROVE identity'[i] >= identity[i]
    BY <2>1, <2>2, MonitorAssumption DEF publish, Claim
  <2>3. CASE UNCHANGED identity
    BY <2>1, <2>3, MonitorAssumption
  <2>4. ASSUME NEW c \in Callers, PublishCopied(c) \/ PublishHook(c) \/ PublishRefused(c) \/ PublishLeave(c)
        PROVE  UNCHANGED identity
    BY <2>4 DEF PublishCopied, PublishHook, PublishRefused, PublishLeave, ChangeOwner, CloseLocked,
       DropReference, slots
  <2>5. ASSUME NEW e \in Tokens, Using(e) PROVE UNCHANGED identity
    BY <2>5 DEF Using, take_event, discard_event, close_frame, retain_frame, release_ref, ChangeOwner,
       CloseLocked, DropReference, slots
  <2>6. ASSUME NEW on \in BOOLEAN, set_accepting(on) \/ deinit PROVE UNCHANGED identity
    BY <2>6 DEF set_accepting, deinit, slots
  <2>7. QED
    BY <2>2, <2>3, <2>4, <2>5, <2>6 DEF FramesNext, Publishing
<1>2. QED
  BY <1>1, MonitorSafety, PTL DEF FramesSpec, IdentityGrows
==============================================================================
