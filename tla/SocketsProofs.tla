--------------------------- MODULE SocketsProofs ---------------------------
(***************************************************************************)
(* Proofs about the sockets: for every number of handles, Futures,         *)
(* connections and faults a captured Future keeps the entry it works on    *)
(* and the requests of the resolver and of the TLS worker outlive their    *)
(* use, and, when no socket connects a second time before its first        *)
(* connect has ended or with a context it still holds, every connection    *)
(* that exists has one owner.                                              *)
(*                                                                         *)
(* IInv is the invariant of the table, of the Futures and of the requests; *)
(* CInv, which needs it, is about the connections.  Most steps capture and *)
(* destroy no Future (MildStep) and many of those move no connection       *)
(* (Quiet); what is left is one lemma for each action.                     *)
(***************************************************************************)
EXTENDS Sockets, FiniteSetTheorems, WellFoundedInduction, TLAPS

(* The inductive invariant. *)

EntryType ==
    [used : BOOLEAN, generation : Nat, protocol : {"tcp", "tls", "listener", "udp"},
     conn : Conns \union {0}, connected : BOOLEAN, close_pending : BOOLEAN,
     reservations : Nat, active : [Lanes -> Ids \union {0}]]
Kinds == {"connect", "accept", "send", "recv", "sendto"}
OpType ==
    [phase : {"none", "queued", "started", "gone"}, kind : Kinds, slot : Slots,
     generation : Nat, late : BOOLEAN, cancelled : BOOLEAN, completed : BOOLEAN,
     err : BOOLEAN, client : Conns \union {0}]
DnsType == [asked : BOOLEAN, references : 0 .. 2, completed : BOOLEAN, ok : BOOLEAN]
TlsType ==
    [references : 0 .. 2, completed : BOOLEAN, cancel : BOOLEAN, conn : Conns \union {0},
     pc : {"none", "start", "connect", "ready", "failed"}]

Types ==
    /\ entry \in [Slots -> EntryType] /\ handle \in [Slots -> Nat] /\ op \in [Ids -> OpType]
    /\ dns \in [Ids -> DnsType] /\ tls \in [Ids -> TlsType]
    /\ live \subseteq Conns /\ faults \in Nat

\* A Future that was captured and not destroyed.
Used(a) == a.phase \in {"queued", "started"}
Users(p, s) == {o \in Ids : Used(p[o]) /\ p[o].slot = s}

\* The background work and the Future hold a reference each, until the one has
\* answered and the other is gone.
Referenced(references, completed, a) ==
    \/ references = 2 /\ ~completed /\ a.phase = "started"
    \/ references = 1 /\ completed /\ a.phase = "started"
    \/ references = 1 /\ ~completed /\ a.phase = "gone"
DnsOK(r, a) == r = NoDns \/ (r.asked /\ Referenced(r.references, r.completed, a))
TlsOK(r, a) ==
    /\ r.pc = "none" => r.references = 0 /\ ~r.completed /\ r.conn = 0
    /\ r.pc # "none" => Referenced(r.references, r.completed, a)
    /\ r.pc = "start" => r.conn = 0
    /\ r.completed => r.pc \in {"ready", "failed"}

\* What a lane runs.
Runs(p, o, s, l) ==
    o # 0 => o \in Ids /\ p[o].phase = "started" /\ p[o].slot = s /\ LaneOf(p[o].kind) = l

EntryOK(s, e, p) ==
    /\ ~e.used => e = Reset(e.generation)
    /\ e.reservations = Cardinality(Users(p, s))
    /\ \A l \in Lanes : Runs(p, e.active[l], s, l)
OpOK(a, e) ==
    /\ Used(a) => e[a.slot].used /\ e[a.slot].generation = a.generation
    /\ a.client # 0 => a.phase = "started" /\ a.completed /\ a.kind = "accept"

IInv ==
    /\ Types
    /\ \A s \in Slots : EntryOK(s, entry[s], op) /\ handle[s] <= entry[s].generation
    /\ \A o \in Ids : OpOK(op[o], entry) /\ DnsOK(dns[o], op[o]) /\ TlsOK(tls[o], op[o])

\* Who owns which connection: entries, accepts on their way and TLS requests.
Own(e, p, t, L) ==
    /\ \A s \in Slots : e[s] # 0 =>
          /\ e[s] \in L /\ \A u \in Slots : e[u] = e[s] => u = s
          /\ \A o \in Ids : p[o] # e[s] /\ t[o] # e[s]
    /\ \A o \in Ids : p[o] # 0 =>
          /\ p[o] \in L /\ \A u \in Ids : p[u] = p[o] => u = o
          /\ \A u \in Ids : t[u] # p[o]
    /\ \A o \in Ids : t[o] # 0 => t[o] \in L /\ \A u \in Ids : t[u] = t[o] => u = o
    /\ \A c \in L : \/ \E s \in Slots : e[s] = c
                    \/ \E o \in Ids : p[o] = c \/ t[o] = c
EntryConns(e) == [s \in Slots |-> e[s].conn]
Clients(p) == [o \in Ids |-> p[o].client]
TlsConns(t) == [o \in Ids |-> t[o].conn]

\* One connect at a time, and a TLS socket has no connection before it.
Connecting(a) == Used(a) /\ a.kind = "connect"
Single(p) ==
    \A o, u \in Ids : Connecting(p[o]) /\ Connecting(p[u]) /\ p[o].slot = p[u].slot => o = u
Bare(e, p) ==
    \A o \in Ids : Connecting(p[o]) /\ ~p[o].completed /\ e[p[o].slot].protocol = "tls"
                   => e[p[o].slot].conn = 0

CInv ==
    /\ Own(EntryConns(entry), Clients(op), TlsConns(tls), live)
    /\ Single(op) /\ Bare(entry, op)

(* Numbers and records. *)

LEMMA Numbers ==
    /\ Ids \subseteq Nat /\ 0 \notin Ids /\ Conns \subseteq Nat /\ 0 \notin Conns
    /\ IsFiniteSet(Ids)
<1>1. MaxOps \in Nat /\ MaxConns \in Nat
  BY SocketsAssumption
<1>2. IsFiniteSet(1 .. MaxOps)
  BY <1>1, FS_Interval
<1>3. QED
  BY <1>1, <1>2 DEF Ids, Conns

\* A set of numbers that is not empty has a least one.
LEMMA LeastNumber ==
    ASSUME NEW S, S \subseteq Nat, S # {}
    PROVE  \E x \in S : \A y \in S : x <= y
<1>1. PICK x \in S : \A y \in S : ~ (<<y, x>> \in OpToRel(<, Nat))
  BY NatLessThanWellFounded, WFMin, Zenon
<1> DEFINE R == {k \in Nat \X Nat : k[1] < k[2]}
<1>2. OpToRel(<, Nat) = R
  BY DEF OpToRel
<1>3. ASSUME NEW y \in S PROVE x <= y
  <2>1. x \in Nat /\ y \in Nat
    OBVIOUS
  <2>2. ~ (<<y, x>> \in R)
    BY <1>1, <1>2
  <2>3. y < x => <<y, x>> \in R
    BY <2>1
  <2>4. QED
    BY <2>1, <2>2, <2>3
<1>4. QED
  BY <1>3

LEMMA FreshIs ==
    ASSUME HaveConn, live \subseteq Conns
    PROVE  Fresh \in Conns /\ Fresh \notin live
<1>1. \E c \in Conns \ live : \A d \in Conns \ live : c <= d
  BY Numbers, LeastNumber DEF HaveConn
<1>2. QED
  BY <1>1 DEF Fresh

LEMMA ResetIs ==
    ASSUME NEW g \in Nat
    PROVE  LET r == Reset(g) IN
           /\ r \in EntryType /\ ~r.used /\ r.generation = g /\ r.conn = 0
           /\ r.reservations = 0 /\ ~r.connected /\ ~r.close_pending /\ r.protocol = "tcp"
           /\ \A l \in Lanes : r.active[l] = 0
  BY DEF Reset, EntryType

LEMMA NoneIs ==
    /\ NoOp \in OpType /\ NoOp.phase = "none" /\ NoOp.client = 0
    /\ NoDns \in DnsType /\ NoTls \in TlsType /\ NoTls.pc = "none" /\ ~NoTls.completed
    /\ NoTls.references = 0 /\ NoTls.conn = 0 /\ ~NoDns.asked /\ NoDns.references = 0
    /\ ~NoDns.completed
<1>1. (CHOOSE s \in Slots : TRUE) \in Slots
  BY SocketsAssumption
<1>2. QED
  BY <1>1 DEF NoOp, OpType, NoDns, DnsType, NoTls, TlsType, Kinds

LEMMA UsersAre ==
    ASSUME NEW p, NEW s
    PROVE  Users(p, s) \subseteq Ids /\ IsFiniteSet(Users(p, s))
           /\ Cardinality(Users(p, s)) \in Nat
<1>1. Users(p, s) \subseteq Ids
  BY DEF Users
<1>2. IsFiniteSet(Users(p, s))
  BY <1>1, Numbers, FS_Subset
<1>3. QED
  BY <1>1, <1>2, FS_CardinalityType

\* Nobody uses the slot of an entry without reservations.
LEMMA NoUsers ==
    ASSUME NEW p, NEW s, Cardinality(Users(p, s)) = 0, NEW o \in Ids, Used(p[o])
    PROVE  p[o].slot # s
<1>1. Users(p, s) = {}
  BY UsersAre, FS_EmptySet
<1>2. QED
  BY <1>1 DEF Users

LEMMA LaneIs == ASSUME NEW k PROVE LaneOf(k) \in Lanes
  BY DEF LaneOf, Lanes

-------------------------------------------------------------------------------
(* Ownership. *)

Holding(e, p, t, L) ==
    /\ e \in [Slots -> Conns \union {0}] /\ p \in [Ids -> Conns \union {0}]
    /\ t \in [Ids -> Conns \union {0}] /\ L \subseteq Conns /\ Own(e, p, t, L)

LEMMA FreshEntry ==
    ASSUME NEW e, NEW p, NEW t, NEW L, Holding(e, p, t, L), NEW s \in Slots, e[s] = 0,
           NEW c \in Conns \ L
    PROVE  Own([e EXCEPT ![s] = c], p, t, L \union {c})
  BY Numbers DEF Holding, Own

LEMMA FreshClient ==
    ASSUME NEW e, NEW p, NEW t, NEW L, Holding(e, p, t, L), NEW o \in Ids, p[o] = 0,
           NEW c \in Conns \ L
    PROVE  Own(e, [p EXCEPT ![o] = c], t, L \union {c})
  BY Numbers DEF Holding, Own

LEMMA FreshTls ==
    ASSUME NEW e, NEW p, NEW t, NEW L, Holding(e, p, t, L), NEW o \in Ids, t[o] = 0,
           NEW c \in Conns \ L
    PROVE  Own(e, p, [t EXCEPT ![o] = c], L \union {c})
  BY Numbers DEF Holding, Own

\* A connection is taken over by an entry.
LEMMA TlsToEntry ==
    ASSUME NEW e, NEW p, NEW t, NEW L, Holding(e, p, t, L), NEW s \in Slots, NEW o \in Ids,
           e[s] = 0
    PROVE  Own([e EXCEPT ![s] = t[o]], p, [t EXCEPT ![o] = 0], L)
  BY Numbers DEF Holding, Own

LEMMA ClientToEntry ==
    ASSUME NEW e, NEW p, NEW t, NEW L, Holding(e, p, t, L), NEW s \in Slots, NEW o \in Ids,
           e[s] = 0
    PROVE  Own([e EXCEPT ![s] = p[o]], [p EXCEPT ![o] = 0], t, L)
  BY Numbers DEF Holding, Own

\* What some owners let go is destroyed, and nothing else.
Without(f, S) == [x \in DOMAIN f |-> IF x \in S THEN 0 ELSE f[x]]
Of(f, S) == {f[x] : x \in S}
LEMMA DropOwn ==
    ASSUME NEW e, NEW p, NEW t, NEW L, Holding(e, p, t, L), NEW S \in SUBSET Slots,
           NEW P \in SUBSET Ids, NEW T \in SUBSET Ids
    PROVE  Own(Without(e, S), Without(p, P), Without(t, T),
               L \ (Of(e, S) \union Of(p, P) \union Of(t, T)))
<1> DEFINE E == Without(e, S)
           Q == Without(p, P)
           U == Without(t, T)
           D == Of(e, S) \union Of(p, P) \union Of(t, T)
<1>1. /\ \A x \in Slots : E[x] = IF x \in S THEN 0 ELSE e[x]
      /\ \A x \in Ids : Q[x] = IF x \in P THEN 0 ELSE p[x]
      /\ \A x \in Ids : U[x] = IF x \in T THEN 0 ELSE t[x]
  BY DEF Holding, Without
<1>2. \A c : c \in D <=> \/ \E x \in S : e[x] = c
                         \/ \E x \in P : p[x] = c
                         \/ \E x \in T : t[x] = c
  BY DEF Of
<1>3. /\ \A x \in Slots : e[x] # 0 =>
            /\ e[x] \in L /\ \A u \in Slots : e[u] = e[x] => u = x
            /\ \A o \in Ids : p[o] # e[x] /\ t[o] # e[x]
      /\ \A o \in Ids : p[o] # 0 =>
            /\ p[o] \in L /\ \A u \in Ids : p[u] = p[o] => u = o
            /\ \A u \in Ids : t[u] # p[o]
      /\ \A o \in Ids : t[o] # 0 => t[o] \in L /\ \A u \in Ids : t[u] = t[o] => u = o
      /\ \A c \in L : \/ \E x \in Slots : e[x] = c
                      \/ \E o \in Ids : p[o] = c \/ t[o] = c
      /\ 0 \notin L
  BY Numbers DEF Holding, Own
<1> HIDE DEF E, Q, U, D
<1>4. ASSUME NEW x \in Slots, E[x] # 0
      PROVE  /\ E[x] \in L \ D /\ \A u \in Slots : E[u] = E[x] => u = x
             /\ \A o \in Ids : Q[o] # E[x] /\ U[o] # E[x]
  <2>1. x \notin S /\ E[x] = e[x]
    BY <1>1, <1>4
  <2>2. /\ e[x] \in L /\ \A u \in Slots : e[u] = e[x] => u = x
        /\ \A o \in Ids : p[o] # e[x] /\ t[o] # e[x]
    BY <1>3, <1>4, <2>1
  <2>3. e[x] \notin D
    BY <1>2, <2>1, <2>2
  <2>4. QED
    BY <1>1, <1>4, <2>1, <2>2, <2>3
<1>5. ASSUME NEW o \in Ids, Q[o] # 0
      PROVE  /\ Q[o] \in L \ D /\ \A u \in Ids : Q[u] = Q[o] => u = o
             /\ \A u \in Ids : U[u] # Q[o]
  <2>1. o \notin P /\ Q[o] = p[o]
    BY <1>1, <1>5
  <2>2. /\ p[o] \in L /\ \A u \in Ids : p[u] = p[o] => u = o
        /\ \A u \in Ids : t[u] # p[o]
    BY <1>3, <1>5, <2>1
  <2>3. \A u \in Slots : e[u] # p[o]
    BY <1>3, <1>5, <2>1
  <2>4. p[o] \notin D
    BY <1>2, <2>1, <2>2, <2>3
  <2>5. QED
    BY <1>1, <1>5, <2>1, <2>2, <2>4
<1>6. ASSUME NEW o \in Ids, U[o] # 0
      PROVE  U[o] \in L \ D /\ \A u \in Ids : U[u] = U[o] => u = o
  <2>1. o \notin T /\ U[o] = t[o]
    BY <1>1, <1>6
  <2>2. t[o] \in L /\ \A u \in Ids : t[u] = t[o] => u = o
    BY <1>3, <1>6, <2>1
  <2>3. \A u \in Slots : e[u] # t[o]
    BY <1>3, <1>6, <2>1
  <2>4. \A u \in Ids : p[u] # t[o]
    BY <1>3, <1>6, <2>1
  <2>5. t[o] \notin D
    BY <1>2, <2>1, <2>2, <2>3, <2>4
  <2>6. QED
    BY <1>1, <1>6, <2>1, <2>2, <2>5
<1>7. ASSUME NEW c \in L \ D
      PROVE  \/ \E x \in Slots : E[x] = c
             \/ \E o \in Ids : Q[o] = c \/ U[o] = c
  BY <1>1, <1>2, <1>3
<1>8. Own(E, Q, U, L \ D)
  BY <1>4, <1>5, <1>6, <1>7 DEF Own
<1>9. QED
  BY <1>8 DEF E, Q, U, D

(* Steps that capture and destroy no Future. *)

\* How a Future and an entry may change in such a step.
ClientOK(b) == b.client # 0 => b.phase = "started" /\ b.completed /\ b.kind = "accept"
Mild(a, b) ==
    /\ b.kind = a.kind /\ b.slot = a.slot /\ b.generation = a.generation
    /\ Used(b) <=> Used(a)
    /\ a.phase = "started" => b.phase = "started"
    /\ a.phase = "gone" => b.phase = "gone"
    /\ a.completed => b.completed
Evolves(s, e, f, p) ==
    /\ ~f.used => f = Reset(f.generation)
    /\ f.reservations = e.reservations
    /\ (f.used = e.used /\ f.generation = e.generation) \/ e.reservations = 0
    /\ \A l \in Lanes : f.active[l] = e.active[l] \/ Runs(p, f.active[l], s, l)

LEMMA MildIs == ASSUME NEW a PROVE Mild(a, a)
  BY DEF Mild

LEMMA StaysIs ==
    ASSUME IInv, NEW s \in Slots
    PROVE  \A p : Evolves(s, entry[s], entry[s], p)
  BY DEF IInv, EntryOK, Evolves

LEMMA MildRuns ==
    ASSUME NEW p, NEW q, \A o \in Ids : Mild(p[o], q[o]), NEW o, NEW s, NEW l, Runs(p, o, s, l)
    PROVE  Runs(q, o, s, l)
  BY DEF Runs, Mild

LEMMA MildUsers ==
    ASSUME NEW p, NEW q, \A o \in Ids : Mild(p[o], q[o]), NEW s
    PROVE  Users(q, s) = Users(p, s)
  BY DEF Users, Mild

LEMMA MildDns ==
    ASSUME NEW r, NEW a, NEW b, Mild(a, b), DnsOK(r, a) PROVE DnsOK(r, b)
  BY DEF Mild, DnsOK, Referenced

LEMMA MildTls ==
    ASSUME NEW r, NEW a, NEW b, Mild(a, b), TlsOK(r, a) PROVE TlsOK(r, b)
  BY DEF Mild, TlsOK, Referenced

MildStep ==
    /\ Types'
    /\ \A o \in Ids : Mild(op[o], op'[o]) /\ ClientOK(op'[o])
    /\ \A s \in Slots : Evolves(s, entry[s], entry'[s], op')
                        /\ handle'[s] <= entry'[s].generation
    /\ \A o \in Ids : DnsOK(dns'[o], op'[o]) /\ TlsOK(tls'[o], op'[o])

LEMMA MildKeeps == ASSUME IInv, MildStep PROVE IInv'
<1>1. \A o \in Ids : Mild(op[o], op'[o])
  BY DEF MildStep
<1>2. ASSUME NEW s \in Slots PROVE EntryOK(s, entry'[s], op')
  <2>1. EntryOK(s, entry[s], op) /\ Evolves(s, entry[s], entry'[s], op')
    BY DEF IInv, MildStep
  <2>2. Users(op', s) = Users(op, s)
    BY <1>1, MildUsers
  <2>3. \A l \in Lanes : Runs(op', entry[s].active[l], s, l)
    BY <1>1, <2>1, MildRuns DEF EntryOK
  <2>4. QED
    BY <2>1, <2>2, <2>3 DEF EntryOK, Evolves
<1>3. ASSUME NEW o \in Ids PROVE OpOK(op'[o], entry')
  <2>1. OpOK(op[o], entry) /\ Mild(op[o], op'[o]) /\ ClientOK(op'[o])
    BY DEF IInv, MildStep
  <2>2. op[o].slot \in Slots
    BY DEF IInv, Types, OpType
  <2>3. ASSUME Used(op[o])
        PROVE  entry'[op[o].slot].used /\ entry'[op[o].slot].generation = op[o].generation
    <3> DEFINE s == op[o].slot
    <3>1. entry[s].reservations # 0
      <4>1. o \in Users(op, s)
        BY <2>3 DEF Users
      <4>2. entry[s].reservations = Cardinality(Users(op, s))
        BY <2>2 DEF IInv, EntryOK
      <4>3. QED
        BY <2>3, <4>2, NoUsers
    <3>2. Evolves(s, entry[s], entry'[s], op')
      BY <2>2 DEF MildStep
    <3>3. QED
      BY <2>1, <2>3, <3>1, <3>2 DEF Evolves, OpOK
  <2>4. QED
    BY <2>1, <2>3 DEF OpOK, Mild, ClientOK
<1>4. QED
  BY <1>2, <1>3 DEF IInv, MildStep

-------------------------------------------------------------------------------
(* The connections in such a step. *)

Owning == Own(EntryConns(entry), Clients(op), TlsConns(tls), live)

\* An entry that Futures use keeps its connection.
Tied(e, f) == (f.conn = e.conn /\ f.protocol = e.protocol) \/ e.reservations = 0

LEMMA MildSingle == ASSUME MildStep, Single(op) PROVE Single(op)'
  BY DEF MildStep, Mild, Single, Connecting

LEMMA MildBare ==
    ASSUME IInv, MildStep, Bare(entry, op), \A s \in Slots : Tied(entry[s], entry'[s])
    PROVE  Bare(entry, op)'
<1> SUFFICES ASSUME NEW o \in Ids, Connecting(op'[o]), ~op'[o].completed,
                    entry'[op'[o].slot].protocol = "tls"
             PROVE  entry'[op'[o].slot].conn = 0
  BY DEF Bare
<1> DEFINE s == op[o].slot
<1>1. Mild(op[o], op'[o]) /\ s \in Slots
  BY DEF MildStep, IInv, Types, OpType
<1>2. Connecting(op[o]) /\ ~op[o].completed /\ op'[o].slot = s
  BY <1>1 DEF Mild, Connecting
<1>3. entry[s].reservations # 0
  <2>1. entry[s].reservations = Cardinality(Users(op, s))
    BY <1>1 DEF IInv, EntryOK
  <2>2. QED
    BY <1>2, <2>1, NoUsers DEF Connecting
<1>4. entry'[s].conn = entry[s].conn /\ entry'[s].protocol = entry[s].protocol
  BY <1>1, <1>3 DEF Tied
<1>5. QED
  BY <1>2, <1>4 DEF Bare

LEMMA HoldingIs ==
    ASSUME Types, Owning
    PROVE  Holding(EntryConns(entry), Clients(op), TlsConns(tls), live)
<1>1. /\ \A s \in Slots : entry[s].conn \in Conns \union {0}
      /\ \A o \in Ids : op[o].client \in Conns \union {0} /\ tls[o].conn \in Conns \union {0}
      /\ live \subseteq Conns
  BY DEF Types, EntryType, OpType, TlsType
<1>2. QED
  BY <1>1 DEF Owning, Holding, EntryConns, Clients, TlsConns

\* Nothing is opened, handed over or closed.
Still == /\ EntryConns(entry)' = EntryConns(entry) /\ Clients(op)' = Clients(op)
         /\ TlsConns(tls)' = TlsConns(tls) /\ live' = live

LEMMA StillOwning == ASSUME Owning, Still PROVE Owning'
  BY DEF Owning, Still

LEMMA ClientsStay ==
    ASSUME \A o \in Ids : op'[o].client = op[o].client PROVE Clients(op)' = Clients(op)
  BY DEF Clients
LEMMA TlsConnsStay ==
    ASSUME \A o \in Ids : tls'[o].conn = tls[o].conn PROVE TlsConns(tls)' = TlsConns(tls)
  BY DEF TlsConns
LEMMA EntryConnsStay ==
    ASSUME \A s \in Slots : entry'[s].conn = entry[s].conn
    PROVE  EntryConns(entry)' = EntryConns(entry)
  BY DEF EntryConns
-------------------------------------------------------------------------------
(* How the helpers change a Future. *)

Goes(a, b) == b \in OpType /\ Mild(a, b) /\ b.client = a.client

LEMMA GoesClient == ASSUME NEW a, NEW b, Goes(a, b), ClientOK(a) PROVE ClientOK(b)
  BY DEF Goes, Mild, ClientOK

LEMMA OpTyped == ASSUME IInv, NEW o \in Ids
                 PROVE  op[o] \in OpType /\ ClientOK(op[o]) /\ Goes(op[o], op[o])
  BY DEF IInv, Types, OpOK, ClientOK, Goes, Mild

LEMMA DoneGoes ==
    ASSUME NEW a \in OpType
    PROVE  Goes(a, [a EXCEPT !.completed = TRUE])
           /\ Goes(a, [a EXCEPT !.completed = TRUE, !.err = TRUE])
<1>1. [a EXCEPT !.completed = TRUE] \in OpType
      /\ [a EXCEPT !.completed = TRUE, !.err = TRUE] \in OpType
  BY Zenon DEF OpType
<1>2. QED
  BY <1>1 DEF Goes, Mild, Used, OpType

LEMMA Helpers ==
    ASSUME IInv, NEW o \in Ids
    PROVE  /\ Goes(op[o], Done(o)) /\ Goes(op[o], Failed(o)) /\ Goes(op[o], Expired(o))
           /\ Goes(op[o], Pending(o)) /\ Goes(op[o], Cancelled(o))
           /\ Done(o).completed /\ Failed(o).completed
<1> DEFINE a == op[o]
<1>1. a \in OpType /\ Goes(a, a)
  BY OpTyped
<1>2. Goes(a, Done(o)) /\ Goes(a, Failed(o))
  BY <1>1, DoneGoes DEF Done, Failed
<1>3. Goes(a, Expired(o)) /\ Goes(a, Pending(o))
  BY <1>1, <1>2 DEF Expired, Pending
<1>4. Goes(a, Cancelled(o))
  <2>1. CASE a.completed \/ a.cancelled
    BY <1>1, <2>1 DEF Cancelled
  <2>2. CASE ~(a.completed \/ a.cancelled)
    <3> DEFINE B == ~Background(o)
               b == [a EXCEPT !.cancelled = TRUE, !.completed = B]
    <3>1. B \in BOOLEAN
      BY DEF Background
    <3> HIDE DEF B
    <3>2. b \in OpType
      BY <1>1, <3>1, Zenon DEF OpType
    <3>3. Goes(a, b)
      BY <1>1, <2>2, <3>2 DEF Goes, Mild, Used, OpType
    <3>4. QED
      BY <2>2, <3>3 DEF Cancelled, B
  <2>3. QED
    BY <2>1, <2>2
<1>5. Done(o).completed /\ Failed(o).completed
  BY <1>1 DEF Done, Failed, OpType
<1>6. QED
  BY <1>2, <1>3, <1>4, <1>5

(* The steps of a Future that leave the table alone. *)

\* A step that opens, hands over and closes no connection.
Quiet == MildStep /\ Still /\ \A s \in Slots : Tied(entry[s], entry'[s])

\* A request whose cancellation is asked for, at most.
SameTls(r, q) == /\ q.pc = r.pc /\ q.references = r.references
                 /\ q.completed = r.completed /\ q.conn = r.conn

LEMMA FuturesMove ==
    ASSUME IInv, op' \in [Ids -> OpType], \A o \in Ids : Goes(op[o], op'[o]),
           tls' \in [Ids -> TlsType], \A o \in Ids : SameTls(tls[o], tls'[o]),
           dns' = dns, faults' \in Nat
    PROVE  /\ \A o \in Ids : Mild(op[o], op'[o]) /\ ClientOK(op'[o])
           /\ \A o \in Ids : DnsOK(dns'[o], op'[o]) /\ TlsOK(tls'[o], op'[o])
           /\ Clients(op)' = Clients(op) /\ TlsConns(tls)' = TlsConns(tls)
<1>1. ASSUME NEW o \in Ids
      PROVE  /\ Mild(op[o], op'[o]) /\ ClientOK(op'[o]) /\ op'[o].client = op[o].client
             /\ DnsOK(dns'[o], op'[o]) /\ TlsOK(tls'[o], op'[o])
  <2>1. Mild(op[o], op'[o]) /\ ClientOK(op[o]) /\ op'[o].client = op[o].client
    BY OpTyped DEF Goes
  <2>2. ClientOK(op'[o])
    BY GoesClient, OpTyped
  <2>3. DnsOK(dns[o], op'[o]) /\ TlsOK(tls[o], op'[o])
    BY <2>1, MildDns, MildTls DEF IInv
  <2>4. TlsOK(tls'[o], op'[o])
    BY <2>3 DEF TlsOK, SameTls
  <2>5. QED
    BY <2>1, <2>2, <2>3, <2>4
<1>2. QED
  BY <1>1, ClientsStay, TlsConnsStay DEF SameTls

LEMMA EntryStays ==
    ASSUME IInv, entry' = entry, handle' = handle
    PROVE  /\ \A s \in Slots : Evolves(s, entry[s], entry'[s], op')
                               /\ handle'[s] <= entry'[s].generation
           /\ EntryConns(entry)' = EntryConns(entry)
           /\ \A s \in Slots : Tied(entry[s], entry'[s])
  BY StaysIs DEF IInv, EntryConns, Tied

LEMMA OpUpdate ==
    ASSUME IInv, NEW o \in Ids, NEW b, Goes(op[o], b), op' = [op EXCEPT ![o] = b]
    PROVE  op' \in [Ids -> OpType] /\ \A u \in Ids : Goes(op[u], op'[u])
<1>1. op \in [Ids -> OpType] /\ b \in OpType
  BY DEF IInv, Types, Goes
<1>2. \A u \in Ids : Goes(op[u], op'[u])
  BY <1>1, OpTyped
<1>3. QED
  BY <1>1, <1>2

LEMMA TlsStays ==
    ASSUME IInv, tls' = tls
    PROVE  tls' \in [Ids -> TlsType] /\ \A o \in Ids : SameTls(tls[o], tls'[o])
  BY DEF IInv, Types, SameTls

\* Only one Future moves.
LEMMA OneMoves ==
    ASSUME IInv, NEW o \in Ids, NEW b, Goes(op[o], b), op' = [op EXCEPT ![o] = b],
           UNCHANGED <<entry, handle, dns, tls, live>>, faults' \in Nat
    PROVE  Quiet
<1>1. op' \in [Ids -> OpType] /\ \A u \in Ids : Goes(op[u], op'[u])
  BY OpUpdate
<1>2. tls' \in [Ids -> TlsType] /\ \A u \in Ids : SameTls(tls[u], tls'[u])
  BY TlsStays
<1>3. Types'
  BY <1>1, <1>2 DEF IInv, Types
<1>4. QED
  BY <1>1, <1>2, <1>3, FuturesMove, EntryStays DEF Quiet, MildStep, Still

LEMMA DeadlineOK == ASSUME IInv, NEW o \in Ids, deadline(o) PROVE Quiet
<1> DEFINE b == [op[o] EXCEPT !.late = TRUE]
<1>1. op[o] \in OpType
  BY OpTyped
<1>2. b \in OpType
  BY <1>1, Zenon DEF OpType
<1>3. Goes(op[o], b)
  BY <1>1, <1>2 DEF Goes, Mild, Used, OpType
<1>4. op' = [op EXCEPT ![o] = b]
  BY <1>1 DEF deadline, IInv, Types
<1>5. faults' \in Nat
  BY DEF deadline, IInv, Types
<1> HIDE DEF b
<1>6. QED
  BY <1>3, <1>4, <1>5, OneMoves DEF deadline

LEMMA PollCancelledOK == ASSUME IInv, NEW o \in Ids, poll_cancelled(o) PROVE Quiet
<1> DEFINE B == ~Background(o)
           b == [op[o] EXCEPT !.completed = B]
<1>1. op[o] \in OpType /\ B \in BOOLEAN
  BY OpTyped DEF Background
<1>2. b \in OpType
  <2> HIDE DEF B
  <2>1. QED
    BY <1>1, Zenon DEF OpType
<1>3. Goes(op[o], b)
  BY <1>1, <1>2 DEF Goes, Mild, Used, OpType, poll_cancelled, Polls
<1>4. op' = [op EXCEPT ![o] = b]
  BY <1>1 DEF poll_cancelled, IInv, Types
<1>5. faults' \in Nat
  BY DEF poll_cancelled, IInv, Types
<1> HIDE DEF b
<1>6. QED
  BY <1>3, <1>4, <1>5, OneMoves DEF poll_cancelled

LEMMA PollResolvingOK == ASSUME IInv, NEW o \in Ids, poll_resolving(o) PROVE Quiet
<1>1. Goes(op[o], Failed(o)) /\ faults' \in Nat
  BY Helpers DEF poll_resolving, IInv, Types
<1>2. QED
  BY <1>1, OneMoves DEF poll_resolving

LEMMA PollConnectOK == ASSUME IInv, NEW o \in Ids, poll_connect(o) PROVE Quiet
<1>1. PICK b \in {Done(o), Failed(o), Pending(o)} : op' = [op EXCEPT ![o] = b]
  BY DEF poll_connect
<1>2. Goes(op[o], b) /\ faults' \in Nat
  BY <1>1, Helpers DEF poll_connect, IInv, Types
<1>3. QED
  BY <1>1, <1>2, OneMoves DEF poll_connect

LEMMA CancelOK == ASSUME IInv, NEW o \in Ids, socket_future_cancel(o) PROVE Quiet
<1> DEFINE r == [tls[o] EXCEPT !.cancel = TRUE]
<1>1. Goes(op[o], Cancelled(o)) /\ faults' \in Nat
  BY Helpers DEF socket_future_cancel, IInv, Types
<1>2. op' \in [Ids -> OpType] /\ \A u \in Ids : Goes(op[u], op'[u])
  BY <1>1, OpUpdate DEF socket_future_cancel
<1>3. tls[o] \in TlsType /\ tls \in [Ids -> TlsType]
  BY DEF IInv, Types
<1>4. r \in TlsType
  BY <1>3, Zenon DEF TlsType
<1>5. SameTls(tls[o], r)
  BY <1>3 DEF SameTls, TlsType
<1>6. tls' = [tls EXCEPT ![o] = r]
  BY <1>3 DEF socket_future_cancel
<1> HIDE DEF r
<1>7. tls' \in [Ids -> TlsType] /\ \A u \in Ids : SameTls(tls[u], tls'[u])
  BY <1>3, <1>4, <1>5, <1>6 DEF SameTls
<1>8. UNCHANGED <<entry, handle, dns, live>>
  BY DEF socket_future_cancel
<1>9. Types'
  BY <1>1, <1>2, <1>7, <1>8 DEF IInv, Types
<1>10. QED
  BY <1>1, <1>2, <1>7, <1>8, <1>9, FuturesMove, EntryStays DEF Quiet, MildStep, Still

(* The resolver and the worker. *)

LEMMA OpsStay ==
    ASSUME IInv, op' = op
    PROVE  /\ \A o \in Ids : Mild(op[o], op'[o]) /\ ClientOK(op'[o])
           /\ Clients(op)' = Clients(op)
  BY OpTyped, MildIs DEF Clients

LEMMA DnsFoundOK == ASSUME IInv, NEW o \in Ids, socket_dns_found(o) PROVE Quiet
<1> DEFINE r == dns[o]
<1>1. /\ UNCHANGED <<entry, handle, op, tls, live, faults>> /\ r.asked /\ ~r.completed
  BY DEF socket_dns_found
<1>2. dns \in [Ids -> DnsType] /\ r \in DnsType
  BY DEF IInv, Types
<1>3. PICK ok \in BOOLEAN :
         dns' = [dns EXCEPT ![o] = Forget([r EXCEPT !.references = r.references - 1,
                                             !.completed = TRUE, !.ok = ok], NoDns)]
  BY <1>2 DEF socket_dns_found
<1> DEFINE n == r.references - 1
           q == [r EXCEPT !.references = n, !.completed = TRUE, !.ok = ok]
<1>4. r # NoDns
  BY <1>1, NoneIs
<1>5. Referenced(r.references, r.completed, op[o]) /\ r.references \in {1, 2}
  BY <1>1, <1>4 DEF IInv, DnsOK, Referenced
<1>6. n \in 0 .. 2 /\ n \in {0, 1} /\ (n = 1 => op[o].phase = "started")
  BY <1>1, <1>5 DEF Referenced
<1>7. q \in DnsType
  <2> HIDE DEF n
  <2>1. QED
    BY <1>2, <1>6, Zenon DEF DnsType
<1>8. q.references = n /\ q.completed /\ q.asked
  BY <1>1, <1>2 DEF DnsType
<1> HIDE DEF q
<1>9. Forget(q, NoDns) \in DnsType /\ DnsOK(Forget(q, NoDns), op[o])
  BY <1>6, <1>7, <1>8, NoneIs DEF Forget, DnsOK, Referenced
<1>10. dns' = [dns EXCEPT ![o] = Forget(q, NoDns)]
  BY <1>3 DEF q
<1>11. dns' \in [Ids -> DnsType] /\ \A u \in Ids : DnsOK(dns'[u], op[u])
  BY <1>2, <1>9, <1>10 DEF IInv
<1>12. \A u \in Ids : DnsOK(dns'[u], op'[u]) /\ TlsOK(tls'[u], op'[u])
  BY <1>1, <1>11 DEF IInv
<1>13. Types'
  BY <1>1, <1>11 DEF IInv, Types
<1>14. TlsConns(tls)' = TlsConns(tls)
  BY <1>1 DEF TlsConns
<1>15. QED
  BY <1>1, <1>12, <1>13, <1>14, OpsStay, EntryStays DEF Quiet, MildStep, Still

\* What the background work or the Future lets go of a TLS request.
LEMMA ReleaseIs ==
    ASSUME NEW r \in TlsType, r.references \in {1, 2}
    PROVE  LET q == ReleaseTls(r) IN
           /\ q \in TlsType
           /\ q.conn = IF r.references = 1 THEN 0 ELSE r.conn
           /\ r.references = 1 /\ r.completed => q = NoTls
           /\ r.references = 1 /\ ~r.completed =>
                q.references = 0 /\ ~q.completed /\ q.pc = r.pc
           /\ r.references = 2 => q.references = 1 /\ q.completed = r.completed /\ q.pc = r.pc
<1> DEFINE n == r.references - 1
           c == IF r.references = 1 THEN 0 ELSE r.conn
           q == [r EXCEPT !.references = n, !.conn = c]
<1>1. n \in 0 .. 2 /\ c \in Conns \union {0} /\ (n = 0 <=> r.references = 1)
      /\ (r.references = 2 => n = 1)
  BY DEF TlsType
<1>2. q \in TlsType
  <2> HIDE DEF n, c
  <2>1. QED
    BY <1>1, Zenon DEF TlsType
<1>3. q.references = n /\ q.conn = c /\ q.completed = r.completed /\ q.pc = r.pc
  BY DEF TlsType
<1>4. ReleaseTls(r) = Forget(q, NoTls)
  BY DEF ReleaseTls
<1> HIDE DEF q
<1>5. QED
  BY <1>1, <1>2, <1>3, <1>4, NoneIs DEF Forget

\* One request of the worker changes, with its connection.
LEMMA WorkerMoves ==
    ASSUME IInv, NEW o \in Ids, NEW q \in TlsType, TlsOK(q, op[o]),
           tls' = [tls EXCEPT ![o] = q], live' \subseteq Conns,
           UNCHANGED <<entry, handle, op, dns, faults>>
    PROVE  /\ MildStep /\ \A s \in Slots : Tied(entry[s], entry'[s])
           /\ EntryConns(entry)' = EntryConns(entry) /\ Clients(op)' = Clients(op)
           /\ TlsConns(tls)' = [TlsConns(tls) EXCEPT ![o] = q.conn]
<1>1. tls \in [Ids -> TlsType]
  BY DEF IInv, Types
<1>2. tls' \in [Ids -> TlsType] /\ \A u \in Ids : TlsOK(tls'[u], op'[u])
  BY <1>1 DEF IInv
<1>3. TlsConns(tls)' = [TlsConns(tls) EXCEPT ![o] = q.conn]
  BY <1>1 DEF TlsConns
<1>4. Types'
  BY <1>2 DEF IInv, Types
<1>5. \A u \in Ids : DnsOK(dns'[u], op'[u])
  BY DEF IInv
<1>6. QED
  BY <1>2, <1>3, <1>4, <1>5, OpsStay, EntryStays DEF MildStep

(* What a step keeps. *)

Safe == IInv' /\ (CInv => CInv')

LEMMA MildSafe ==
    ASSUME IInv, MildStep, \A s \in Slots : Tied(entry[s], entry'[s]), CInv => Owning'
    PROVE  Safe
<1>1. IInv'
  BY MildKeeps
<1>2. CInv => Single(op)' /\ Bare(entry, op)'
  BY MildSingle, MildBare DEF CInv
<1>3. QED
  BY <1>1, <1>2 DEF Safe, CInv, Owning

LEMMA QuietSafe == ASSUME IInv, Quiet PROVE Safe
<1>1. CInv => Owning'
  BY StillOwning DEF Quiet, CInv, Owning
<1>2. QED
  BY <1>1, MildSafe DEF Quiet

LEMMA OwningHolds ==
    ASSUME IInv, CInv
    PROVE  Holding(EntryConns(entry), Clients(op), TlsConns(tls), live)
  BY HoldingIs DEF IInv, CInv, Owning

LEMMA RequestIs ==
    ASSUME IInv, NEW o \in Ids, tls[o].pc # "none"
    PROVE  /\ tls[o] \in TlsType /\ TlsOK(tls[o], op[o])
           /\ Referenced(tls[o].references, tls[o].completed, op[o])
           /\ tls[o].references \in {1, 2}
           /\ TlsConns(tls)[o] = tls[o].conn
  BY DEF IInv, Types, TlsOK, Referenced, TlsConns

LEMMA WorkerStarts ==
    ASSUME IInv, NEW o \in Ids, tls_worker(o), tls[o].pc = "start"
    PROVE  Safe
<1> DEFINE r == tls[o]
           q == [r EXCEPT !.pc = "failed"]
           c == Fresh
           p == [r EXCEPT !.pc = "connect", !.conn = c]
<1>1. /\ r \in TlsType /\ Referenced(r.references, r.completed, op[o])
      /\ r.conn = 0 /\ ~r.completed /\ TlsConns(tls)[o] = 0
  BY RequestIs DEF TlsOK
<1>2. /\ UNCHANGED <<entry, handle, op, dns, faults>> /\ tls \in [Ids -> TlsType]
      /\ live \subseteq Conns
  BY DEF tls_worker, IInv, Types
<1>3. \/ tls' = [tls EXCEPT ![o] = q] /\ live' = live
      \/ HaveConn /\ tls' = [tls EXCEPT ![o] = p] /\ live' = live \union {c}
  <2> HIDE DEF c
  <2>1. \/ tls' = [tls EXCEPT ![o].pc = "failed"] /\ live' = live
        \/ HaveConn /\ tls' = [tls EXCEPT ![o].pc = "connect", ![o].conn = c]
           /\ live' = live \union {c}
    BY DEF tls_worker, socket_tls_connect_worker, c
  <2>2. QED
    BY <1>1, <1>2, <2>1
<1>4. CASE tls' = [tls EXCEPT ![o] = q] /\ live' = live
  <2>1. q \in TlsType
    BY <1>1, Zenon DEF TlsType
  <2>2. q.references = r.references /\ ~q.completed /\ q.conn = 0 /\ q.pc = "failed"
    BY <1>1 DEF TlsType
  <2> HIDE DEF q
  <2>3. TlsOK(q, op[o])
    BY <1>1, <2>2 DEF TlsOK, Referenced
  <2>4. /\ MildStep /\ \A s \in Slots : Tied(entry[s], entry'[s])
        /\ EntryConns(entry)' = EntryConns(entry) /\ Clients(op)' = Clients(op)
        /\ TlsConns(tls)' = [TlsConns(tls) EXCEPT ![o] = q.conn]
    BY <1>2, <1>4, <2>1, <2>3, WorkerMoves
  <2>5. TlsConns(tls)' = TlsConns(tls)
    BY <1>1, <2>2, <2>4 DEF TlsConns
  <2>6. QED
    BY <1>4, <2>4, <2>5, QuietSafe DEF Quiet, Still
<1>5. CASE HaveConn /\ tls' = [tls EXCEPT ![o] = p] /\ live' = live \union {c}
  <2>1. c \in Conns /\ c \notin live
    BY <1>2, <1>5, FreshIs
  <2> HIDE DEF c
  <2>2. p \in TlsType
    BY <1>1, <2>1, Zenon DEF TlsType
  <2>3. p.references = r.references /\ ~p.completed /\ p.conn = c /\ p.pc = "connect"
    BY <1>1 DEF TlsType
  <2> HIDE DEF p
  <2>4. TlsOK(p, op[o])
    BY <1>1, <2>3 DEF TlsOK, Referenced
  <2>5. live' \subseteq Conns
    BY <1>2, <1>5, <2>1
  <2>6. /\ MildStep /\ \A s \in Slots : Tied(entry[s], entry'[s])
        /\ EntryConns(entry)' = EntryConns(entry) /\ Clients(op)' = Clients(op)
        /\ TlsConns(tls)' = [TlsConns(tls) EXCEPT ![o] = p.conn]
    BY <1>2, <1>5, <2>2, <2>4, <2>5, WorkerMoves
  <2>7. ASSUME CInv PROVE Owning'
    <3>1. Own(EntryConns(entry), Clients(op), [TlsConns(tls) EXCEPT ![o] = c],
              live \union {c})
      BY <1>1, <2>1, <2>7, OwningHolds, FreshTls
    <3>2. QED
      BY <1>5, <2>3, <2>6, <3>1 DEF Owning
  <2>8. QED
    BY <2>6, <2>7, MildSafe
<1>6. QED
  BY <1>3, <1>4, <1>5

LEMMA WorkerShakes ==
    ASSUME IInv, NEW o \in Ids, tls_worker(o), tls[o].pc = "connect"
    PROVE  Safe
<1> DEFINE r == tls[o]
<1>1. /\ r \in TlsType /\ Referenced(r.references, r.completed, op[o])
      /\ ~r.completed /\ TlsConns(tls)[o] = r.conn
  BY RequestIs DEF TlsOK
<1>2. /\ UNCHANGED <<entry, handle, op, dns, faults, live>> /\ tls \in [Ids -> TlsType]
  BY DEF tls_worker, socket_tls_connect_worker, IInv, Types
<1>3. PICK pc \in {"ready", "failed"} : tls' = [tls EXCEPT ![o].pc = pc]
  BY DEF tls_worker, socket_tls_connect_worker
<1> DEFINE q == [r EXCEPT !.pc = pc]
<1>4. tls' = [tls EXCEPT ![o] = q]
  BY <1>1, <1>2, <1>3
<1>5. q \in TlsType
  BY <1>1, Zenon DEF TlsType
<1>6. q.references = r.references /\ ~q.completed /\ q.conn = r.conn /\ q.pc = pc
  BY <1>1 DEF TlsType
<1> HIDE DEF q
<1>7. TlsOK(q, op[o])
  BY <1>1, <1>6 DEF TlsOK, Referenced
<1>8. /\ MildStep /\ \A s \in Slots : Tied(entry[s], entry'[s])
      /\ EntryConns(entry)' = EntryConns(entry) /\ Clients(op)' = Clients(op)
      /\ TlsConns(tls)' = [TlsConns(tls) EXCEPT ![o] = q.conn]
  <2>1. live' \subseteq Conns
    BY <1>2 DEF IInv, Types
  <2>2. QED
    BY <1>2, <1>4, <1>5, <1>7, <2>1, WorkerMoves
<1>9. TlsConns(tls)' = TlsConns(tls)
  BY <1>1, <1>6, <1>8 DEF TlsConns
<1>10. QED
  BY <1>2, <1>8, <1>9, QuietSafe DEF Quiet, Still

\* What one owner lets go of is destroyed.
LEMMA DropTls ==
    ASSUME NEW e, NEW p, NEW t, NEW L, Holding(e, p, t, L), NEW o \in Ids
    PROVE  Own(e, p, [t EXCEPT ![o] = 0], L \ ({t[o]} \ {0}))
<1>1. {} \in SUBSET Slots /\ {} \in SUBSET Ids /\ {o} \in SUBSET Ids
  OBVIOUS
<1>2. Own(Without(e, {}), Without(p, {}), Without(t, {o}),
          L \ (Of(e, {}) \union Of(p, {}) \union Of(t, {o})))
  BY <1>1, DropOwn
<1>3. /\ Without(e, {}) = e /\ Without(p, {}) = p
      /\ Without(t, {o}) = [t EXCEPT ![o] = 0]
  BY DEF Without, Holding
<1>4. Of(e, {}) = {} /\ Of(p, {}) = {} /\ Of(t, {o}) = {t[o]}
  BY DEF Of
<1>5. 0 \notin L
  BY Numbers DEF Holding
<1>6. L \ (Of(e, {}) \union Of(p, {}) \union Of(t, {o})) = L \ ({t[o]} \ {0})
  BY <1>4, <1>5
<1>7. QED
  BY <1>2, <1>3, <1>6

LEMMA WorkerEnds ==
    ASSUME IInv, NEW o \in Ids, tls_worker(o), tls[o].pc \in {"ready", "failed"}
    PROVE  Safe
<1> DEFINE r == tls[o]
           m == [r EXCEPT !.completed = TRUE]
           q == ReleaseTls(m)
<1>1. /\ r \in TlsType /\ Referenced(r.references, r.completed, op[o])
      /\ r.references \in {1, 2} /\ TlsConns(tls)[o] = r.conn
  BY RequestIs
<1>2. /\ UNCHANGED <<entry, handle, op, dns, faults>> /\ tls \in [Ids -> TlsType]
      /\ live \subseteq Conns
  BY DEF tls_worker, IInv, Types
<1>3. ~r.completed /\ live' = live \ TlsGone(r)
  BY DEF tls_worker, socket_tls_connect_worker
<1>4. tls' = [tls EXCEPT ![o] = q]
  BY DEF tls_worker, socket_tls_connect_worker
<1>5. m \in TlsType
  BY <1>1, Zenon DEF TlsType
<1>6. m.references = r.references /\ m.completed = TRUE /\ m.conn = r.conn /\ m.pc = r.pc
  BY <1>1 DEF TlsType
<1> HIDE DEF m
<1>7. /\ q \in TlsType
      /\ q.conn = IF m.references = 1 THEN 0 ELSE m.conn
      /\ m.references = 1 /\ m.completed => q = NoTls
      /\ m.references = 2 => q.references = 1 /\ q.completed = m.completed /\ q.pc = m.pc
  BY <1>1, <1>5, <1>6, ReleaseIs
<1> HIDE DEF q
<1>8. CASE r.references = 1
  <2>1. q = NoTls /\ q.conn = 0
    BY <1>6, <1>7, <1>8
  <2>2. TlsOK(q, op[o])
    BY <2>1, NoneIs DEF TlsOK
  <2>3. live' = live \ ({r.conn} \ {0})
    BY <1>3, <1>8 DEF TlsGone
  <2>4. /\ MildStep /\ \A s \in Slots : Tied(entry[s], entry'[s])
        /\ EntryConns(entry)' = EntryConns(entry) /\ Clients(op)' = Clients(op)
        /\ TlsConns(tls)' = [TlsConns(tls) EXCEPT ![o] = 0]
    <3>1. live' \subseteq Conns
      BY <1>2, <2>3
    <3>2. QED
      BY <1>2, <1>4, <1>7, <2>1, <2>2, <3>1, WorkerMoves
  <2>5. ASSUME CInv PROVE Owning'
    <3>1. Own(EntryConns(entry), Clients(op), [TlsConns(tls) EXCEPT ![o] = 0],
              live \ ({r.conn} \ {0}))
      BY <1>1, <2>5, OwningHolds, DropTls
    <3>2. QED
      BY <2>3, <2>4, <3>1 DEF Owning
  <2>6. QED
    BY <2>4, <2>5, MildSafe
<1>9. CASE r.references = 2
  <2>1. q.references = 1 /\ q.completed /\ q.conn = r.conn /\ q.pc = r.pc
    BY <1>6, <1>7, <1>9
  <2>2. TlsOK(q, op[o])
    BY <1>1, <1>3, <1>9, <2>1 DEF TlsOK, Referenced
  <2>3. live' = live
    BY <1>3, <1>9 DEF TlsGone
  <2>4. /\ MildStep /\ \A s \in Slots : Tied(entry[s], entry'[s])
        /\ EntryConns(entry)' = EntryConns(entry) /\ Clients(op)' = Clients(op)
        /\ TlsConns(tls)' = [TlsConns(tls) EXCEPT ![o] = q.conn]
    BY <1>2, <1>4, <1>7, <2>2, <2>3, WorkerMoves
  <2>5. TlsConns(tls)' = TlsConns(tls)
    BY <1>1, <2>1, <2>4 DEF TlsConns
  <2>6. QED
    BY <2>3, <2>4, <2>5, QuietSafe DEF Quiet, Still
<1>10. QED
  BY <1>1, <1>8, <1>9

LEMMA WorkerSafe == ASSUME IInv, NEW o \in Ids, tls_worker(o) PROVE Safe
<1>1. tls[o].pc \in {"start", "connect", "ready", "failed"}
  BY DEF tls_worker, socket_tls_connect_worker
<1>2. QED
  BY <1>1, WorkerStarts, WorkerShakes, WorkerEnds
-------------------------------------------------------------------------------
(* Accepting, connecting and moving bytes. *)

LEMMA PollAcceptSafe == ASSUME IInv, NEW o \in Ids, poll_accept(o) PROVE Safe
<1> DEFINE a == op[o]
           c == Fresh
           b == [Done(o) EXCEPT !.client = c]
<1>1. /\ UNCHANGED <<entry, handle, dns, tls, faults>> /\ op \in [Ids -> OpType]
      /\ live \subseteq Conns /\ a.phase = "started" /\ ~a.completed /\ a.client = 0
      /\ a.kind = "accept"
  BY DEF poll_accept, Steps, Polls, IInv, Types, OpOK, OpType
<1>2. \/ HaveConn /\ live' = live \union {c} /\ op' = [op EXCEPT ![o] = b]
      \/ /\ \E new \in {Failed(o), Pending(o)} : op' = [op EXCEPT ![o] = new]
         /\ live' = live
  BY DEF poll_accept
<1>3. CASE \E new \in {Failed(o), Pending(o)} : op' = [op EXCEPT ![o] = new] /\ live' = live
  <2>1. PICK new \in {Failed(o), Pending(o)} : op' = [op EXCEPT ![o] = new]
    BY <1>3
  <2>2. Goes(op[o], new) /\ faults' \in Nat
    BY <1>1, <2>1, Helpers DEF IInv, Types
  <2>3. QED
    BY <1>1, <1>3, <2>1, <2>2, OneMoves, QuietSafe
<1>4. CASE HaveConn /\ live' = live \union {c} /\ op' = [op EXCEPT ![o] = b]
  <2>1. c \in Conns /\ c \notin live
    BY <1>1, <1>4, FreshIs
  <2>2. Goes(a, Done(o)) /\ Done(o).completed
    BY Helpers
  <2> DEFINE d == Done(o)
  <2> HIDE DEF c, d
  <2>3. d \in OpType /\ Mild(a, d) /\ d.completed
    BY <2>2 DEF Goes, d
  <2>4. b = [d EXCEPT !.client = c]
    BY DEF d
  <2> HIDE DEF b
  <2>5. b \in OpType
    BY <2>1, <2>3, <2>4, Zenon DEF OpType
  <2>6. b.client = c /\ Mild(a, b) /\ b.completed /\ b.phase = "started"
        /\ b.kind = "accept"
    <3>1. b.client = c /\ b.phase = d.phase /\ b.completed = d.completed
          /\ b.kind = d.kind /\ b.slot = d.slot /\ b.generation = d.generation
      BY <2>3, <2>4 DEF OpType
    <3>2. d.phase = "started"
      BY <1>1, <2>3 DEF Mild
    <3>3. QED
      BY <1>1, <2>3, <3>1, <3>2 DEF Mild, Used
  <2>7. ASSUME NEW u \in Ids
        PROVE  /\ Mild(op[u], op'[u]) /\ ClientOK(op'[u])
               /\ DnsOK(dns'[u], op'[u]) /\ TlsOK(tls'[u], op'[u])
    <3>1. Mild(op[u], op'[u]) /\ ClientOK(op'[u])
      BY <1>1, <1>4, <2>6, OpTyped DEF ClientOK, Goes
    <3>2. DnsOK(dns[u], op[u]) /\ TlsOK(tls[u], op[u])
      BY DEF IInv
    <3>3. QED
      BY <1>1, <3>1, <3>2, MildDns, MildTls
  <2>8. Types'
    BY <1>1, <1>4, <2>1, <2>5 DEF IInv, Types
  <2>9. MildStep /\ \A s \in Slots : Tied(entry[s], entry'[s])
    BY <1>1, <2>7, <2>8, EntryStays DEF MildStep
  <2>10. Clients(op)' = [Clients(op) EXCEPT ![o] = c] /\ Clients(op)[o] = 0
    BY <1>1, <1>4, <2>6 DEF Clients
  <2>11. ASSUME CInv PROVE Owning'
    <3>1. Own(EntryConns(entry), [Clients(op) EXCEPT ![o] = c], TlsConns(tls),
              live \union {c})
      BY <2>1, <2>10, <2>11, OwningHolds, FreshClient
    <3>2. EntryConns(entry)' = EntryConns(entry) /\ TlsConns(tls)' = TlsConns(tls)
      BY <1>1 DEF EntryConns, TlsConns
    <3>3. QED
      BY <1>4, <2>10, <3>1, <3>2 DEF Owning
  <2>12. QED
    BY <2>9, <2>11, MildSafe
<1>5. QED
  BY <1>2, <1>3, <1>4

LEMMA EntryUpdate ==
    ASSUME IInv, NEW s \in Slots, NEW f \in EntryType, entry' = [entry EXCEPT ![s] = f],
           Evolves(s, entry[s], f, op'), entry[s].generation <= f.generation,
           handle' \in [Slots -> Nat],
           \A x \in Slots : handle'[x] <= handle[x] \/ (x = s /\ handle'[x] <= f.generation)
    PROVE  /\ entry' \in [Slots -> EntryType]
           /\ \A x \in Slots : Evolves(x, entry[x], entry'[x], op')
                               /\ handle'[x] <= entry'[x].generation
           /\ EntryConns(entry)' = [EntryConns(entry) EXCEPT ![s] = f.conn]
<1>1. /\ entry \in [Slots -> EntryType] /\ handle \in [Slots -> Nat]
      /\ \A x \in Slots : entry[x].generation \in Nat /\ handle[x] <= entry[x].generation
  BY DEF IInv, Types, EntryType
<1>2. f.generation \in Nat
  BY DEF EntryType
<1>3. ASSUME NEW x \in Slots
      PROVE  Evolves(x, entry[x], entry'[x], op') /\ handle'[x] <= entry'[x].generation
  <2>1. CASE x = s
    <3>1. entry'[x] = f
      BY <1>1, <2>1
    <3>2. handle'[x] \in Nat /\ handle[x] \in Nat
          /\ (handle'[x] <= handle[x] \/ handle'[x] <= f.generation)
          /\ handle[x] <= entry[x].generation /\ entry[x].generation \in Nat
      BY <1>1
    <3>3. handle'[x] <= f.generation
      BY <1>2, <2>1, <3>2
    <3>4. QED
      BY <2>1, <3>1, <3>3
  <2>2. CASE x # s
    <3>1. entry'[x] = entry[x]
      BY <1>1, <2>2
    <3>2. handle'[x] \in Nat /\ handle'[x] <= handle[x] /\ handle[x] \in Nat
          /\ handle[x] <= entry[x].generation /\ entry[x].generation \in Nat
      BY <1>1, <2>2
    <3>3. handle'[x] <= entry[x].generation
      BY <3>2
    <3>4. QED
      BY <3>1, <3>3, StaysIs
  <2>3. QED
    BY <2>1, <2>2
<1>4. EntryConns(entry)' = [EntryConns(entry) EXCEPT ![s] = f.conn]
  BY <1>1 DEF EntryConns
<1>5. QED
  BY <1>1, <1>3, <1>4

LEMMA HandleStays ==
    ASSUME IInv, handle' = handle
    PROVE  handle' \in [Slots -> Nat] /\ \A x \in Slots : handle'[x] <= handle[x]
  BY DEF IInv, Types

LEMMA EntryIs ==
    ASSUME IInv, NEW o \in Ids
    PROVE  op[o].slot \in Slots /\ Entry(o) = entry[op[o].slot] /\ Entry(o) \in EntryType
  BY DEF IInv, Types, OpType, Entry

LEMMA PollConnectTlsSafe == ASSUME IInv, NEW o \in Ids, poll_connect_tls(o) PROVE Safe
<1> DEFINE a == op[o]
           r == tls[o]
           s == op[o].slot
<1>1. /\ UNCHANGED <<handle, dns, live>> /\ op \in [Ids -> OpType] /\ tls \in [Ids -> TlsType]
      /\ live \subseteq Conns /\ a.phase = "started" /\ ~a.completed /\ a.kind = "connect"
      /\ r \in TlsType /\ TlsOK(r, a) /\ dns \in [Ids -> DnsType]
  BY DEF poll_connect_tls, Steps, Polls, IInv, Types
<1>2. /\ Goes(a, Failed(o)) /\ Goes(a, Pending(o)) /\ Goes(a, Done(o)) /\ Done(o).completed
      /\ s \in Slots /\ entry[s] \in EntryType /\ entry[s].used /\ entry[s].protocol = "tls"
  BY Helpers, EntryIs DEF poll_connect_tls, Live
<1> DEFINE new == [NoTls EXCEPT !.references = 2, !.pc = "start"]
           taken == [r EXCEPT !.conn = 0]
           f == [entry[s] EXCEPT !.conn = r.conn]
<1>3. \/ r.pc = "none" /\ tls' = [tls EXCEPT ![o] = new]
         /\ op' = [op EXCEPT ![o] = Pending(o)] /\ UNCHANGED <<entry, faults>>
      \/ /\ op' = [op EXCEPT ![o] = Failed(o)] \/ op' = [op EXCEPT ![o] = Pending(o)]
         /\ UNCHANGED <<entry, tls>> /\ faults' \in Nat
      \/ /\ r.completed /\ r.pc = "ready" /\ entry' = [entry EXCEPT ![s] = f]
         /\ tls' = [tls EXCEPT ![o] = taken]
         /\ op' = [op EXCEPT ![o] = Done(o)] /\ UNCHANGED faults
  BY DEF poll_connect_tls, Fault, Taken, IInv, Types
<1>4. CASE r.pc = "none" /\ tls' = [tls EXCEPT ![o] = new]
           /\ op' = [op EXCEPT ![o] = Pending(o)] /\ UNCHANGED <<entry, faults>>
  <2>1. r.conn = 0
    BY <1>1, <1>4 DEF TlsOK
  <2>2. new \in TlsType
    <3>1. 2 \in 0 .. 2 /\ NoTls \in TlsType
      BY NoneIs
    <3>2. QED
      BY <3>1, Zenon DEF TlsType
  <2>3. new.references = 2 /\ new.pc = "start" /\ ~new.completed /\ new.conn = 0
    BY NoneIs DEF TlsType
  <2> HIDE DEF new
  <2>4. op' \in [Ids -> OpType] /\ \A u \in Ids : Goes(op[u], op'[u])
    BY <1>2, <1>4, OpUpdate
  <2>5. op'[o].phase = "started"
    BY <1>1, <2>4 DEF Goes, Mild
  <2>6. ASSUME NEW u \in Ids
        PROVE  /\ Mild(op[u], op'[u]) /\ ClientOK(op'[u]) /\ op'[u].client = op[u].client
               /\ DnsOK(dns'[u], op'[u]) /\ TlsOK(tls'[u], op'[u])
               /\ tls'[u].conn = tls[u].conn
    <3>1. Mild(op[u], op'[u]) /\ ClientOK(op'[u]) /\ op'[u].client = op[u].client
      BY <2>4, GoesClient, OpTyped DEF Goes
    <3>2. DnsOK(dns[u], op'[u]) /\ TlsOK(tls[u], op'[u])
      BY <3>1, MildDns, MildTls DEF IInv
    <3>3. TlsOK(new, op'[o])
      BY <2>3, <2>5 DEF TlsOK, Referenced
    <3>4. CASE u = o
      BY <1>1, <1>4, <2>1, <2>3, <3>1, <3>2, <3>3, <3>4
    <3>5. CASE u # o
      BY <1>1, <1>4, <3>1, <3>2, <3>5
    <3>6. QED
      BY <3>4, <3>5
  <2>7. Types'
    BY <1>1, <1>4, <2>2, <2>4 DEF IInv, Types
  <2>8. MildStep /\ \A x \in Slots : Tied(entry[x], entry'[x])
    BY <1>1, <1>4, <2>6, <2>7, EntryStays DEF MildStep
  <2>9. Still
    BY <1>1, <1>4, <2>6, ClientsStay, TlsConnsStay DEF Still, EntryConns
  <2>10. QED
    BY <2>8, <2>9, QuietSafe DEF Quiet
<1>5. CASE /\ op' = [op EXCEPT ![o] = Failed(o)] \/ op' = [op EXCEPT ![o] = Pending(o)]
           /\ UNCHANGED <<entry, tls>> /\ faults' \in Nat
  BY <1>1, <1>2, <1>5, OneMoves, QuietSafe
<1>6. CASE /\ r.completed /\ r.pc = "ready" /\ entry' = [entry EXCEPT ![s] = f]
           /\ tls' = [tls EXCEPT ![o] = taken]
           /\ op' = [op EXCEPT ![o] = Done(o)] /\ UNCHANGED faults
  <2>1. taken \in TlsType
    BY <1>1, Zenon DEF TlsType
  <2>2. taken.references = r.references /\ taken.pc = r.pc /\ taken.conn = 0
        /\ taken.completed = r.completed
    BY <1>1 DEF TlsType
  <2>3. r.conn \in Conns \union {0}
    BY <1>1 DEF TlsType
  <2>4. f \in EntryType
    BY <1>2, <2>3, Zenon DEF EntryType
  <2>5. /\ f.conn = r.conn /\ f.used = entry[s].used /\ f.generation = entry[s].generation
        /\ f.reservations = entry[s].reservations /\ f.active = entry[s].active
        /\ f.protocol = entry[s].protocol /\ f.generation \in Nat
    BY <1>2 DEF EntryType
  <2> HIDE DEF f, taken
  <2>6. Evolves(s, entry[s], f, op')
    BY <1>2, <2>5 DEF Evolves
  <2>7. op' \in [Ids -> OpType] /\ \A u \in Ids : Goes(op[u], op'[u])
    BY <1>2, <1>6, OpUpdate
  <2>8. /\ entry' \in [Slots -> EntryType]
        /\ \A x \in Slots : Evolves(x, entry[x], entry'[x], op')
                            /\ handle'[x] <= entry'[x].generation
        /\ EntryConns(entry)' = [EntryConns(entry) EXCEPT ![s] = f.conn]
    <3>1. entry[s].generation <= f.generation
      BY <2>5
    <3>2. QED
      BY <1>1, <1>2, <1>6, <2>4, <2>6, <3>1, HandleStays, EntryUpdate
  <2>9. ASSUME NEW u \in Ids
        PROVE  /\ Mild(op[u], op'[u]) /\ ClientOK(op'[u]) /\ op'[u].client = op[u].client
               /\ DnsOK(dns'[u], op'[u]) /\ TlsOK(tls'[u], op'[u])
    <3>1. Mild(op[u], op'[u]) /\ ClientOK(op'[u]) /\ op'[u].client = op[u].client
      BY <2>7, GoesClient, OpTyped DEF Goes
    <3>2. DnsOK(dns[u], op'[u]) /\ TlsOK(tls[u], op'[u])
      BY <3>1, MildDns, MildTls DEF IInv
    <3>3. TlsOK(r, op'[o]) => TlsOK(taken, op'[o])
      BY <1>6, <2>2 DEF TlsOK
    <3>4. CASE u = o
      BY <1>1, <1>6, <3>1, <3>2, <3>3, <3>4
    <3>5. CASE u # o
      BY <1>1, <1>6, <3>1, <3>2, <3>5
    <3>6. QED
      BY <3>4, <3>5
  <2>10. Types'
    BY <1>1, <1>6, <2>1, <2>7, <2>8 DEF IInv, Types
  <2>11. MildStep
    BY <2>8, <2>9, <2>10 DEF MildStep
  <2>12. Clients(op)' = Clients(op)
         /\ TlsConns(tls)' = [TlsConns(tls) EXCEPT ![o] = 0] /\ TlsConns(tls)[o] = r.conn
    BY <1>1, <1>6, <2>2, <2>9, ClientsStay DEF TlsConns
  <2>13. ASSUME CInv PROVE CInv'
    <3>1. entry[s].conn = 0
      BY <1>1, <1>2, <2>13 DEF CInv, Bare, Connecting, Used
    <3>2. EntryConns(entry)[s] = 0
      BY <1>2, <3>1 DEF EntryConns
    <3>3. Own([EntryConns(entry) EXCEPT ![s] = r.conn], Clients(op),
              [TlsConns(tls) EXCEPT ![o] = 0], live)
      <4> DEFINE E == EntryConns(entry)
                 P == Clients(op)
                 T == TlsConns(tls)
      <4>1. Holding(E, P, T, live) /\ s \in Slots /\ E[s] = 0 /\ T[o] = r.conn
        BY <1>2, <2>12, <2>13, <3>2, OwningHolds
      <4> HIDE DEF s, r, E, P, T
      <4>2. Own([E EXCEPT ![s] = T[o]], P, [T EXCEPT ![o] = 0], live)
        BY <4>1, TlsToEntry
      <4>3. QED
        BY <4>1, <4>2 DEF E, P, T
    <3>4. Owning'
      BY <1>1, <2>5, <2>8, <2>12, <3>3 DEF Owning
    <3>5. Single(op)'
      BY <2>11, <2>13, MildSingle DEF CInv
    <3>6. ASSUME NEW u \in Ids, Connecting(op'[u]), ~op'[u].completed,
                 entry'[op'[u].slot].protocol = "tls"
          PROVE  entry'[op'[u].slot].conn = 0
      <4>1. u # o
        BY <1>1, <1>2, <1>6, <3>6
      <4>2. op'[u] = op[u]
        BY <1>1, <1>6, <4>1
      <4>3. op[u].slot # s
        BY <1>1, <2>13, <3>6, <4>1, <4>2 DEF CInv, Single, Connecting, Used
      <4>4. op[u].slot \in Slots /\ entry'[op[u].slot] = entry[op[u].slot]
        BY <1>6, <4>3, EntryIs DEF IInv, Types
      <4>5. QED
        BY <2>13, <3>6, <4>2, <4>4 DEF CInv, Bare
    <3>7. QED
      BY <3>4, <3>5, <3>6 DEF CInv, Owning, Bare
  <2>14. QED
    BY <2>11, <2>13, MildKeeps DEF Safe
<1>7. QED
  BY <1>3, <1>4, <1>5, <1>6

(* A step of one Future that changes its entry and keeps its connection. *)
LEMMA EntryMoves ==
    ASSUME IInv, NEW s \in Slots, NEW f \in EntryType, entry' = [entry EXCEPT ![s] = f],
           Evolves(s, entry[s], f, op'), f.generation = entry[s].generation,
           f.conn = entry[s].conn, f.protocol = entry[s].protocol,
           UNCHANGED <<handle, live>>
    PROVE  /\ entry' \in [Slots -> EntryType]
           /\ \A x \in Slots : Evolves(x, entry[x], entry'[x], op')
                               /\ handle'[x] <= entry'[x].generation
           /\ EntryConns(entry)' = EntryConns(entry)
           /\ \A x \in Slots : Tied(entry[x], entry'[x])
<1>1. entry \in [Slots -> EntryType]
  BY DEF IInv, Types
<1>2. entry[s].generation <= f.generation
  BY <1>1 DEF EntryType
<1>3. /\ entry' \in [Slots -> EntryType]
      /\ \A x \in Slots : Evolves(x, entry[x], entry'[x], op')
                          /\ handle'[x] <= entry'[x].generation
  BY <1>2, HandleStays, EntryUpdate
<1>4. \A x \in Slots : entry'[x].conn = entry[x].conn /\ Tied(entry[x], entry'[x])
  BY <1>1 DEF Tied
<1>5. QED
  BY <1>3, <1>4, EntryConnsStay

LEMMA PollTransferSafe == ASSUME IInv, NEW o \in Ids, poll_transfer(o) PROVE Safe
<1> DEFINE a == op[o]
           s == op[o].slot
           f == [entry[s] EXCEPT !.connected = FALSE]
<1>1. /\ UNCHANGED <<handle, dns, tls, live, faults>> /\ op \in [Ids -> OpType]
      /\ a.phase = "started" /\ ~a.completed
      /\ s \in Slots /\ entry[s] \in EntryType /\ entry[s].used
  BY EntryIs DEF poll_transfer, Steps, Polls, Live, IInv, Types
<1>2. Goes(a, Failed(o)) /\ Goes(a, Pending(o)) /\ Goes(a, Done(o))
  BY Helpers
<1>3. entry' = entry \/ entry' = [entry EXCEPT ![s] = f]
  <2>1. entry' = entry \/ entry' = [entry EXCEPT ![s].connected = FALSE]
    BY DEF poll_transfer
  <2>2. QED
    BY <1>1, <2>1 DEF IInv, Types
<1>4. PICK b \in {Done(o), Failed(o), Pending(o)} : op' = [op EXCEPT ![o] = b]
  BY DEF poll_transfer
<1>5. Goes(a, b)
  BY <1>2, <1>4
<1>6. CASE entry' = entry
  <2>1. faults' \in Nat
    BY <1>1 DEF IInv, Types
  <2>2. QED
    BY <1>1, <1>4, <1>5, <1>6, <2>1, OneMoves, QuietSafe
<1>7. CASE entry' = [entry EXCEPT ![s] = f]
  <2>1. f \in EntryType
    BY <1>1, Zenon DEF EntryType
  <2>2. /\ f.conn = entry[s].conn /\ f.used = entry[s].used
        /\ f.generation = entry[s].generation
        /\ f.reservations = entry[s].reservations /\ f.active = entry[s].active
        /\ f.protocol = entry[s].protocol
    BY <1>1 DEF EntryType
  <2> HIDE DEF f
  <2>3. Evolves(s, entry[s], f, op')
    BY <1>1, <2>2 DEF Evolves
  <2>4. op' \in [Ids -> OpType] /\ \A u \in Ids : Goes(op[u], op'[u])
    BY <1>4, <1>5, OpUpdate
  <2>5. tls' \in [Ids -> TlsType] /\ \A u \in Ids : SameTls(tls[u], tls'[u])
    BY <1>1, TlsStays
  <2>6. /\ \A u \in Ids : Mild(op[u], op'[u]) /\ ClientOK(op'[u])
        /\ \A u \in Ids : DnsOK(dns'[u], op'[u]) /\ TlsOK(tls'[u], op'[u])
        /\ Clients(op)' = Clients(op) /\ TlsConns(tls)' = TlsConns(tls)
    <3>1. faults' \in Nat
      BY <1>1 DEF IInv, Types
    <3>2. QED
      BY <1>1, <2>4, <2>5, <3>1, FuturesMove
  <2>7. /\ entry' \in [Slots -> EntryType]
        /\ \A x \in Slots : Evolves(x, entry[x], entry'[x], op')
                            /\ handle'[x] <= entry'[x].generation
        /\ EntryConns(entry)' = EntryConns(entry)
        /\ \A x \in Slots : Tied(entry[x], entry'[x])
    BY <1>1, <1>7, <2>1, <2>2, <2>3, EntryMoves
  <2>8. Types'
    BY <1>1, <2>4, <2>5, <2>7 DEF IInv, Types
  <2>9. QED
    BY <1>1, <2>6, <2>7, <2>8, QuietSafe DEF Quiet, MildStep, Still
<1>8. QED
  BY <1>3, <1>6, <1>7

-------------------------------------------------------------------------------
(* Starting. *)

\* A Future starts: only its request may appear, and its lane names it.
LEMMA StartSafe ==
    ASSUME IInv, NEW o \in Ids, NEW b, Goes(op[o], b), op' = [op EXCEPT ![o] = b],
           b.phase = "started", op[o].phase = "queued",
           Live(o), \/ entry' = entry
                    \/ entry' = [entry EXCEPT ![op[o].slot].active[Lane(o)] = o],
           \/ dns' = dns
           \/ dns' = [dns EXCEPT ![o].asked = TRUE, ![o].references = 2],
           UNCHANGED <<handle, tls, live>>, faults' \in Nat
    PROVE  Safe
<1> DEFINE s == op[o].slot
           l == Lane(o)
           A == [entry[s].active EXCEPT ![l] = o]
           f == [entry[s] EXCEPT !.active = A]
           r == [dns[o] EXCEPT !.asked = TRUE, !.references = 2]
<1>1. /\ op \in [Ids -> OpType] /\ s \in Slots /\ entry[s] \in EntryType /\ entry[s].used
      /\ l \in Lanes /\ dns \in [Ids -> DnsType] /\ dns[o] \in DnsType
      /\ entry \in [Slots -> EntryType]
  BY EntryIs, LaneIs DEF Live, Lane, IInv, Types
<1>2. op' \in [Ids -> OpType] /\ \A u \in Ids : Goes(op[u], op'[u])
  BY OpUpdate
<1>3. tls' \in [Ids -> TlsType] /\ \A u \in Ids : SameTls(tls[u], tls'[u])
  BY TlsStays
<1>4. dns[o] = NoDns
  BY DEF IInv, DnsOK, Referenced
<1>5. dns' \in [Ids -> DnsType] /\ \A u \in Ids : DnsOK(dns'[u], op'[u])
  <2>1. \A u \in Ids : DnsOK(dns[u], op'[u])
    BY <1>2, MildDns DEF IInv, Goes
  <2>2. CASE dns' = dns
    BY <1>1, <2>1, <2>2
  <2>3. CASE dns' = [dns EXCEPT ![o].asked = TRUE, ![o].references = 2]
    <3>1. dns' = [dns EXCEPT ![o] = r]
      BY <1>1, <2>3
    <3>2. r \in DnsType
      <4>1. 2 \in 0 .. 2
        OBVIOUS
      <4>2. QED
        BY <1>1, <4>1, Zenon DEF DnsType
    <3>3. r.asked /\ r.references = 2 /\ ~r.completed
      BY <1>1, <1>4, NoneIs DEF DnsType
    <3> HIDE DEF r
    <3>4. op'[o] = b
      BY <1>1
    <3>5. DnsOK(r, op'[o])
      BY <3>3, <3>4 DEF DnsOK, Referenced
    <3>6. QED
      BY <1>1, <2>1, <3>1, <3>2, <3>5
  <2>4. QED
    BY <2>2, <2>3
<1>6. \A u \in Ids : Mild(op[u], op'[u]) /\ ClientOK(op'[u]) /\ op'[u].client = op[u].client
  BY <1>2, GoesClient, OpTyped DEF Goes
<1>7. \A u \in Ids : TlsOK(tls'[u], op'[u])
  BY <1>6, MildTls DEF IInv
<1>8. /\ entry' \in [Slots -> EntryType]
      /\ \A x \in Slots : Evolves(x, entry[x], entry'[x], op')
                          /\ handle'[x] <= entry'[x].generation
      /\ EntryConns(entry)' = EntryConns(entry)
      /\ \A x \in Slots : Tied(entry[x], entry'[x])
  <2>1. CASE entry' = entry
    BY <1>1, <2>1, EntryStays
  <2>2. CASE entry' = [entry EXCEPT ![s].active[l] = o]
    <3>1. entry' = [entry EXCEPT ![s] = f]
      BY <1>1, <2>2 DEF EntryType
    <3>2. A \in [Lanes -> Ids \union {0}]
      BY <1>1 DEF EntryType
    <3> HIDE DEF A
    <3>3. f \in EntryType
      BY <1>1, <3>2, Zenon DEF EntryType
    <3>4. /\ f.conn = entry[s].conn /\ f.used = entry[s].used
          /\ f.generation = entry[s].generation
          /\ f.reservations = entry[s].reservations /\ f.active = A
          /\ f.protocol = entry[s].protocol
      BY <1>1 DEF EntryType
    <3> HIDE DEF f
    <3>5. \A k \in Lanes : A[k] = IF k = l THEN o ELSE entry[s].active[k]
      BY <1>1 DEF A, EntryType
    <3>6. Runs(op', o, s, l)
      BY <1>1, <1>6 DEF Runs, Lane, Mild
    <3>7. Evolves(s, entry[s], f, op')
      BY <1>1, <3>4, <3>5, <3>6 DEF Evolves
    <3>8. QED
      BY <1>1, <3>1, <3>3, <3>4, <3>7, EntryMoves
  <2>3. QED
    BY <2>1, <2>2
<1>9. Types'
  BY <1>2, <1>3, <1>5, <1>8 DEF IInv, Types
<1>10. Clients(op)' = Clients(op) /\ TlsConns(tls)' = TlsConns(tls)
  BY <1>6, ClientsStay DEF TlsConns
<1>11. QED
  BY <1>5, <1>6, <1>7, <1>8, <1>9, <1>10, QuietSafe DEF Quiet, MildStep, Still

LEMMA StartedGoes ==
    ASSUME NEW a \in OpType, a.phase = "queued"
    PROVE  /\ Goes(a, [a EXCEPT !.phase = "started"])
           /\ Goes(a, [a EXCEPT !.phase = "started", !.cancelled = TRUE, !.completed = TRUE])
           /\ Goes(a, [a EXCEPT !.phase = "started", !.completed = TRUE, !.err = TRUE])
<1>1. /\ [a EXCEPT !.phase = "started"] \in OpType
      /\ [a EXCEPT !.phase = "started", !.cancelled = TRUE, !.completed = TRUE] \in OpType
      /\ [a EXCEPT !.phase = "started", !.completed = TRUE, !.err = TRUE] \in OpType
  BY Zenon DEF OpType
<1>2. QED
  BY <1>1 DEF Goes, Mild, Used, OpType

LEMMA GoesOn ==
    ASSUME NEW a, NEW b, NEW c, Goes(a, b), Goes(b, c) PROVE Goes(a, c)
  BY DEF Goes, Mild

LEMMA FutureStartSafe == ASSUME IInv, NEW o \in Ids, socket_future_start(o) PROVE Safe
<1> DEFINE a == op[o]
           now == a.late /\ a.kind = "connect"
           e == IF now THEN Expired(o) ELSE a
           b == [e EXCEPT !.phase = "started"]
           z == [a EXCEPT !.phase = "started", !.cancelled = TRUE, !.completed = TRUE]
<1>1. /\ a \in OpType /\ a.phase = "queued" /\ Live(o) /\ op \in [Ids -> OpType]
      /\ UNCHANGED <<handle, tls, live>> /\ faults' \in Nat
  BY OpTyped DEF socket_future_start, IInv, Types
<1>2. CASE Entry(o).close_pending
  <2>1. UNCHANGED <<entry, dns>> /\ op' = [op EXCEPT ![o] = z]
    BY <1>1, <1>2 DEF socket_future_start
  <2>2. Goes(a, z)
    BY <1>1, StartedGoes
  <2>3. z.phase = "started"
    BY <1>1 DEF OpType
  <2> HIDE DEF z
  <2>4. QED
    BY <1>1, <2>1, <2>2, <2>3, StartSafe
<1>3. CASE ~Entry(o).close_pending
  <2>1. /\ entry' = [entry EXCEPT ![op[o].slot].active[Lane(o)] = o]
        /\ op' = [op EXCEPT ![o] = b]
        /\ dns' = dns \/ dns' = [dns EXCEPT ![o].asked = TRUE, ![o].references = 2]
    <3>1. /\ entry' = [entry EXCEPT ![op[o].slot].active[Lane(o)] = o]
          /\ op' = [op EXCEPT ![o] = b]
          /\ dns' = IF NeedsResolution(o) /\ ~now
                    THEN [dns EXCEPT ![o].asked = TRUE, ![o].references = 2] ELSE dns
      BY <1>1, <1>3 DEF socket_future_start
    <3>2. QED
      BY <3>1
  <2>2. Goes(a, e)
    BY <1>1, Helpers, OpTyped
  <2>3. e \in OpType /\ e.phase = "queued"
    <3>1. e = a \/ e = [a EXCEPT !.completed = TRUE, !.err = TRUE]
      BY DEF Expired, Failed
    <3>2. QED
      BY <1>1, <2>2, <3>1 DEF OpType, Goes
  <2> HIDE DEF e
  <2>4. Goes(e, b) /\ b.phase = "started"
    BY <2>3, StartedGoes DEF OpType
  <2> HIDE DEF b
  <2>5. Goes(a, b)
    BY <2>2, <2>4, GoesOn
  <2>6. QED
    BY <1>1, <2>1, <2>4, <2>5, StartSafe
<1>4. QED
  BY <1>2, <1>3

LEMMA FutureStartFailsSafe ==
    ASSUME IInv, NEW o \in Ids, socket_future_start_fails(o) PROVE Safe
<1> DEFINE a == op[o]
           z == [a EXCEPT !.phase = "started", !.completed = TRUE, !.err = TRUE]
<1>1. /\ a \in OpType /\ a.phase = "queued" /\ Live(o) /\ op \in [Ids -> OpType]
      /\ UNCHANGED <<handle, tls, live, dns>> /\ faults' \in Nat
      /\ entry' = [entry EXCEPT ![op[o].slot].active[Lane(o)] = o]
  BY OpTyped DEF socket_future_start_fails, Fault, IInv, Types
<1>2. op' = [op EXCEPT ![o] = z]
  BY <1>1 DEF socket_future_start_fails
<1>3. Goes(a, z)
  BY <1>1, StartedGoes
<1>4. z.phase = "started"
  BY <1>1 DEF OpType
<1> HIDE DEF z
<1>5. QED
  BY <1>1, <1>2, <1>3, <1>4, StartSafe
-------------------------------------------------------------------------------
(* Closing. *)

\* The connection of an entry is destroyed.
LEMMA DropEntry ==
    ASSUME NEW e, NEW p, NEW t, NEW L, Holding(e, p, t, L), NEW s \in Slots
    PROVE  Own([e EXCEPT ![s] = 0], p, t, L \ ({e[s]} \ {0}))
<1>1. {s} \in SUBSET Slots /\ {} \in SUBSET Ids
  OBVIOUS
<1>2. Own(Without(e, {s}), Without(p, {}), Without(t, {}),
          L \ (Of(e, {s}) \union Of(p, {}) \union Of(t, {})))
  BY <1>1, DropOwn
<1>3. /\ Without(t, {}) = t /\ Without(p, {}) = p
      /\ Without(e, {s}) = [e EXCEPT ![s] = 0]
  BY DEF Without, Holding
<1>4. Of(t, {}) = {} /\ Of(p, {}) = {} /\ Of(e, {s}) = {e[s]}
  BY DEF Of
<1>5. 0 \notin L
  BY Numbers DEF Holding
<1>6. L \ (Of(e, {s}) \union Of(p, {}) \union Of(t, {})) = L \ ({e[s]} \ {0})
  BY <1>4, <1>5
<1>7. QED
  BY <1>2, <1>3, <1>6

\* The Futures of the lanes are cancelled.
LEMMA RequestCancels ==
    ASSUME IInv, NEW s \in Slots, NEW S \in SUBSET Ids,
           op' = [o \in Ids |-> IF o \in S THEN Cancelled(o) ELSE op[o]],
           tls' = [o \in Ids |-> IF o \in S /\ ~op[o].completed
                                 THEN [tls[o] EXCEPT !.cancel = TRUE] ELSE tls[o]]
    PROVE  /\ op' \in [Ids -> OpType] /\ \A u \in Ids : Goes(op[u], op'[u])
           /\ tls' \in [Ids -> TlsType] /\ \A u \in Ids : SameTls(tls[u], tls'[u])
<1>1. \A u \in Ids : Goes(op[u], op'[u])
  BY Helpers, OpTyped
<1>2. op' \in [Ids -> OpType]
  BY <1>1 DEF Goes
<1>3. ASSUME NEW u \in Ids PROVE tls'[u] \in TlsType /\ SameTls(tls[u], tls'[u])
  <2> DEFINE q == [tls[u] EXCEPT !.cancel = TRUE]
  <2>1. tls[u] \in TlsType
    BY DEF IInv, Types
  <2>2. q \in TlsType
    BY <2>1, Zenon DEF TlsType
  <2>3. SameTls(tls[u], q) /\ SameTls(tls[u], tls[u])
    BY <2>1 DEF SameTls, TlsType
  <2>4. tls'[u] = q \/ tls'[u] = tls[u]
    OBVIOUS
  <2>5. QED
    BY <2>1, <2>2, <2>3, <2>4
<1>4. tls' \in [Ids -> TlsType]
  BY <1>3
<1>5. QED
  BY <1>1, <1>2, <1>3, <1>4

LEMMA CloseSafe == ASSUME IInv, NEW s \in Slots, socket_handle_close(s) PROVE Safe
<1> DEFINE h == [handle EXCEPT ![s] = 0]
           e == entry[s]
<1>1. /\ UNCHANGED <<dns, faults>> /\ handle' = h /\ e \in EntryType /\ faults' \in Nat
      /\ dns' \in [Ids -> DnsType] /\ live \subseteq Conns /\ e.generation \in Nat
      /\ entry \in [Slots -> EntryType]
  BY DEF socket_handle_close, IInv, Types, EntryType
<1>2. handle' \in [Slots -> Nat] /\ \A x \in Slots : handle'[x] <= handle[x]
  BY <1>1 DEF IInv, Types
<1>3. CASE UNCHANGED <<entry, op, tls, live>>
  <2>1. /\ op' \in [Ids -> OpType] /\ \A u \in Ids : Goes(op[u], op'[u])
        /\ tls' \in [Ids -> TlsType] /\ \A u \in Ids : SameTls(tls[u], tls'[u])
    BY <1>3, OpTyped, TlsStays DEF IInv, Types
  <2>2. \A x \in Slots : Evolves(x, entry[x], entry'[x], op')
                         /\ handle'[x] <= entry'[x].generation
    <3>1. \A x \in Slots : handle[x] \in Nat /\ handle'[x] \in Nat
                           /\ entry[x].generation \in Nat /\ handle[x] <= entry[x].generation
      BY <1>2 DEF IInv, Types, EntryType
    <3>2. QED
      BY <1>2, <1>3, <3>1, StaysIs
  <2>3. Types'
    BY <1>1, <1>2, <1>3, <2>1 DEF IInv, Types
  <2>4. \A x \in Slots : Tied(entry[x], entry'[x])
    BY <1>3 DEF Tied
  <2>5. EntryConns(entry)' = EntryConns(entry)
    BY <1>3 DEF EntryConns
  <2>6. QED
    BY <1>1, <1>3, <2>1, <2>2, <2>3, <2>4, <2>5, FuturesMove, QuietSafe
       DEF Quiet, MildStep, Still
<1>4. CASE e.used /\ ~e.close_pending /\ RequestClose(s)
  <2> DEFINE S == ActiveOf(s)
             f == [e EXCEPT !.close_pending = TRUE]
             g == Reset(e.generation)
  <2>1. S \in SUBSET Ids
    BY <1>1 DEF ActiveOf, EntryType
  <2>2. /\ op' = [o \in Ids |-> IF o \in S THEN Cancelled(o) ELSE op[o]]
        /\ tls' = [o \in Ids |-> IF o \in S /\ ~op[o].completed
                                 THEN [tls[o] EXCEPT !.cancel = TRUE] ELSE tls[o]]
    BY <1>4 DEF RequestClose
  <2>3. /\ op' \in [Ids -> OpType] /\ \A u \in Ids : Goes(op[u], op'[u])
        /\ tls' \in [Ids -> TlsType] /\ \A u \in Ids : SameTls(tls[u], tls'[u])
    <3> HIDE DEF S
    <3>1. QED
      BY <2>1, <2>2, RequestCancels
  <2>4. /\ \A u \in Ids : Mild(op[u], op'[u]) /\ ClientOK(op'[u])
        /\ \A u \in Ids : DnsOK(dns'[u], op'[u]) /\ TlsOK(tls'[u], op'[u])
        /\ Clients(op)' = Clients(op) /\ TlsConns(tls)' = TlsConns(tls)
    BY <1>1, <2>3, FuturesMove
  <2>5. \/ /\ CloseDue(e) /\ entry' = [entry EXCEPT ![s] = g]
           /\ live' = live \ ({e.conn} \ {0})
        \/ entry' = [entry EXCEPT ![s] = f] /\ live' = live
    BY <1>1, <1>4 DEF RequestClose, Closed, GoneWith
  <2>6. CASE entry' = [entry EXCEPT ![s] = f] /\ live' = live
    <3>1. f \in EntryType
      BY <1>1, Zenon DEF EntryType
    <3>2. /\ f.conn = e.conn /\ f.used = e.used
          /\ f.generation = e.generation
          /\ f.reservations = e.reservations /\ f.active = e.active
          /\ f.protocol = e.protocol
      BY <1>1 DEF EntryType
    <3> HIDE DEF f
    <3>3. Evolves(s, e, f, op')
      BY <1>4, <3>2 DEF Evolves
    <3>4. /\ entry' \in [Slots -> EntryType]
          /\ \A x \in Slots : Evolves(x, entry[x], entry'[x], op')
                              /\ handle'[x] <= entry'[x].generation
          /\ EntryConns(entry)' = [EntryConns(entry) EXCEPT ![s] = f.conn]
      <4>1. entry[s].generation <= f.generation
        BY <1>1, <3>2
      <4>2. QED
        BY <1>2, <2>6, <3>1, <3>3, <4>1, EntryUpdate
    <3>5. EntryConns(entry)' = EntryConns(entry)
      BY <3>2, <3>4 DEF EntryConns
    <3>6. \A x \in Slots : Tied(entry[x], entry'[x])
      BY <1>1, <2>6, <3>2 DEF Tied
    <3>7. Types'
      BY <1>1, <1>2, <2>3, <2>6, <3>4 DEF IInv, Types
    <3>8. QED
      BY <2>4, <2>6, <3>4, <3>5, <3>6, <3>7, QuietSafe DEF Quiet, MildStep, Still
  <2>7. CASE /\ CloseDue(e) /\ entry' = [entry EXCEPT ![s] = g]
             /\ live' = live \ ({e.conn} \ {0})
    <3>1. /\ g \in EntryType /\ ~g.used /\ g.generation = e.generation /\ g.conn = 0
          /\ g.reservations = 0 /\ \A l \in Lanes : g.active[l] = 0
      BY <1>1, ResetIs
    <3>2. g = Reset(g.generation)
      BY <3>1
    <3> HIDE DEF g
    <3>3. e.reservations = 0
      BY <2>7 DEF CloseDue
    <3>4. Evolves(s, e, g, op')
      BY <3>1, <3>2, <3>3 DEF Evolves, Runs
    <3>5. /\ entry' \in [Slots -> EntryType]
          /\ \A x \in Slots : Evolves(x, entry[x], entry'[x], op')
                              /\ handle'[x] <= entry'[x].generation
          /\ EntryConns(entry)' = [EntryConns(entry) EXCEPT ![s] = 0]
      <4>1. entry[s].generation <= g.generation
        BY <1>1, <3>1
      <4>2. g \in EntryType /\ entry' = [entry EXCEPT ![s] = g]
        BY <2>7, <3>1
      <4>3. /\ entry' \in [Slots -> EntryType]
            /\ \A x \in Slots : Evolves(x, entry[x], entry'[x], op')
                                /\ handle'[x] <= entry'[x].generation
            /\ EntryConns(entry)' = [EntryConns(entry) EXCEPT ![s] = g.conn]
        BY <1>2, <3>4, <4>1, <4>2, EntryUpdate
      <4>4. QED
        BY <3>1, <4>3
    <3>6. \A x \in Slots : Tied(entry[x], entry'[x])
      BY <1>1, <2>7, <3>3 DEF Tied
    <3>7. Types'
      <4>1. live' \subseteq Conns
        BY <1>1, <2>7
      <4>2. QED
        BY <1>1, <1>2, <2>3, <3>5, <4>1 DEF IInv, Types
    <3>8. MildStep
      BY <2>4, <3>5, <3>7 DEF MildStep
    <3>9. ASSUME CInv PROVE Owning'
      <4>1. EntryConns(entry)[s] = e.conn
        BY DEF EntryConns
      <4>2. Own([EntryConns(entry) EXCEPT ![s] = 0], Clients(op), TlsConns(tls),
                live \ ({e.conn} \ {0}))
        BY <3>9, <4>1, OwningHolds, DropEntry
      <4>3. QED
        BY <2>4, <2>7, <3>5, <4>2 DEF Owning
    <3>10. QED
      BY <3>6, <3>8, <3>9, MildSafe
  <2>8. QED
    BY <2>5, <2>6, <2>7
<1>5. QED
  BY <1>3, <1>4 DEF socket_handle_close, RequestClose

(* Opening and the end of the runtime. *)

LEMMA OpenSafe ==
    ASSUME IInv, NEW s \in Slots, NEW protocol \in Protocols, socket_open_handle(s, protocol)
    PROVE  Safe
<1> DEFINE e == entry[s]
           n == e.generation + 1
           r == Reset(n)
           c == IF protocol = "tls" THEN 0 ELSE Fresh
           f == [r EXCEPT !.used = TRUE, !.protocol = protocol, !.conn = c]
<1>1. /\ UNCHANGED <<op, dns, tls>> /\ e \in EntryType /\ ~e.used /\ e.generation \in Nat
      /\ live \subseteq Conns /\ entry \in [Slots -> EntryType]
      /\ protocol \in {"tcp", "tls", "listener", "udp"}
  BY SocketsAssumption DEF socket_open_handle, FreeSlot, IInv, Types, EntryType
<1>2. /\ r \in EntryType /\ ~r.used /\ r.generation = n /\ r.conn = 0 /\ n \in Nat
      /\ r.reservations = 0 /\ \A l \in Lanes : r.active[l] = 0
  BY <1>1, ResetIs
<1>3. e.conn = 0 /\ e.reservations = 0 /\ \A l \in Lanes : e.active[l] = 0
  <2>1. e = Reset(e.generation)
    BY <1>1 DEF IInv, EntryOK
  <2>2. QED
    BY <1>1, <2>1, ResetIs
<1>4. \/ /\ (protocol # "tls" => HaveConn)
         /\ entry' = [entry EXCEPT ![s] = f] /\ live' = live \union ({c} \ {0})
         /\ handle' = [handle EXCEPT ![s] = n] /\ UNCHANGED faults
      \/ Fault /\ entry' = [entry EXCEPT ![s] = r] /\ UNCHANGED <<handle, live>>
  BY DEF socket_open_handle
<1>5. faults' \in Nat
  BY <1>4 DEF Fault, IInv, Types
<1>6. /\ op' \in [Ids -> OpType] /\ \A u \in Ids : Goes(op[u], op'[u])
      /\ tls' \in [Ids -> TlsType] /\ \A u \in Ids : SameTls(tls[u], tls'[u])
  BY <1>1, OpTyped, TlsStays DEF IInv, Types
<1>7. /\ \A u \in Ids : Mild(op[u], op'[u]) /\ ClientOK(op'[u])
      /\ \A u \in Ids : DnsOK(dns'[u], op'[u]) /\ TlsOK(tls'[u], op'[u])
      /\ Clients(op)' = Clients(op) /\ TlsConns(tls)' = TlsConns(tls)
  BY <1>1, <1>5, <1>6, FuturesMove
<1>8. ASSUME NEW g \in EntryType, entry' = [entry EXCEPT ![s] = g], g.generation = n,
             g.used \/ g = Reset(g.generation), g.reservations = 0,
             \A l \in Lanes : g.active[l] = 0, live' \subseteq Conns,
             handle' \in [Slots -> Nat],
             \A x \in Slots : handle'[x] <= handle[x] \/ (x = s /\ handle'[x] <= g.generation)
      PROVE  /\ MildStep /\ \A x \in Slots : Tied(entry[x], entry'[x])
             /\ EntryConns(entry)' = [EntryConns(entry) EXCEPT ![s] = g.conn]
  <2>1. Evolves(s, e, g, op')
    BY <1>3, <1>8 DEF Evolves
  <2>2. e.generation <= g.generation
    BY <1>1, <1>8
  <2>3. /\ entry' \in [Slots -> EntryType]
        /\ \A x \in Slots : Evolves(x, entry[x], entry'[x], op')
                            /\ handle'[x] <= entry'[x].generation
        /\ EntryConns(entry)' = [EntryConns(entry) EXCEPT ![s] = g.conn]
    BY <1>8, <2>1, <2>2, EntryUpdate
  <2>4. Types'
    BY <1>1, <1>5, <1>6, <1>8, <2>3 DEF IInv, Types
  <2>5. \A x \in Slots : Tied(entry[x], entry'[x])
    BY <1>1, <1>3, <1>8 DEF Tied
  <2>6. QED
    BY <1>7, <2>3, <2>4, <2>5 DEF MildStep
<1> HIDE DEF r
<1>9. CASE Fault /\ entry' = [entry EXCEPT ![s] = r] /\ UNCHANGED <<handle, live>>
  <2>1. r = Reset(r.generation)
    BY <1>2 DEF r
  <2>2. handle' \in [Slots -> Nat] /\ \A x \in Slots : handle'[x] <= handle[x]
    BY <1>9, HandleStays
  <2>3. /\ MildStep /\ \A x \in Slots : Tied(entry[x], entry'[x])
        /\ EntryConns(entry)' = [EntryConns(entry) EXCEPT ![s] = r.conn]
    BY <1>1, <1>2, <1>8, <1>9, <2>1, <2>2
  <2>4. EntryConns(entry)' = EntryConns(entry)
    BY <1>2, <1>3, <2>3 DEF EntryConns
  <2>5. QED
    BY <1>7, <1>9, <2>3, <2>4, QuietSafe DEF Quiet, Still
<1>10. CASE /\ (protocol # "tls" => HaveConn)
            /\ entry' = [entry EXCEPT ![s] = f] /\ live' = live \union ({c} \ {0})
            /\ handle' = [handle EXCEPT ![s] = n] /\ UNCHANGED faults
  <2>1. c = 0 \/ (c \in Conns /\ c \notin live)
    BY <1>1, <1>10, FreshIs
  <2> HIDE DEF c
  <2>2. f \in EntryType
    <3>1. c \in Conns \union {0}
      BY <2>1
    <3>2. QED
      BY <1>1, <1>2, <3>1, Zenon DEF EntryType
  <2>3. f.used /\ f.conn = c /\ f.generation = n /\ f.reservations = 0
        /\ f.active = r.active
    BY <1>2 DEF EntryType
  <2> HIDE DEF f
  <2>4. live' \subseteq Conns
    BY <1>1, <1>10, <2>1
  <2>5. handle' \in [Slots -> Nat]
        /\ \A x \in Slots : handle'[x] <= handle[x] \/ (x = s /\ handle'[x] <= f.generation)
    <3>1. handle \in [Slots -> Nat]
      BY DEF IInv, Types
    <3>2. QED
      BY <1>2, <1>10, <2>3, <3>1
  <2>6. /\ MildStep /\ \A x \in Slots : Tied(entry[x], entry'[x])
        /\ EntryConns(entry)' = [EntryConns(entry) EXCEPT ![s] = f.conn]
    BY <1>2, <1>8, <1>10, <2>2, <2>3, <2>4, <2>5
  <2>7. ASSUME CInv PROVE Owning'
    <3>1. EntryConns(entry)[s] = 0
      BY <1>3 DEF EntryConns
    <3>2. CASE c = 0
      <4>1. EntryConns(entry)' = EntryConns(entry)
        BY <2>3, <2>6, <3>1, <3>2 DEF EntryConns
      <4>2. live' = live
        BY <1>10, <3>2
      <4>3. QED
        BY <1>7, <2>7, <4>1, <4>2 DEF CInv, Owning
    <3>3. CASE c \in Conns /\ c \notin live
      <4>1. Own([EntryConns(entry) EXCEPT ![s] = c], Clients(op), TlsConns(tls),
                live \union {c})
        BY <2>7, <3>1, <3>3, OwningHolds, FreshEntry
      <4>2. live' = live \union {c}
        BY <1>10, <3>3, Numbers
      <4>3. QED
        BY <1>7, <2>3, <2>6, <4>1, <4>2 DEF Owning
    <3>4. QED
      BY <2>1, <3>2, <3>3
  <2>8. QED
    BY <2>6, <2>7, MildSafe
<1>11. QED
  BY <1>4, <1>9, <1>10

LEMMA DeinitSafe == ASSUME IInv, deinit_socket_runtime PROVE Safe
<1>1. /\ UNCHANGED <<op, dns, tls, faults>> /\ live \subseteq Conns /\ faults' \in Nat
      /\ \A s \in Slots : entry[s] \in EntryType /\ entry[s].generation \in Nat
      /\ \A s \in Slots : entry'[s] = Reset(entry[s].generation) /\ handle'[s] = 0
      /\ entry' = [s \in Slots |-> Reset(entry[s].generation)]
      /\ handle' = [s \in Slots |-> 0]
      /\ live' = live \ UNION {GoneWith(entry[s]) : s \in Slots}
  BY DEF deinit_socket_runtime, Closed, IInv, Types, EntryType
<1>2. \A s \in Slots : entry[s].reservations = 0
  <2>1. ASSUME NEW s \in Slots PROVE Users(op, s) = {}
    BY DEF deinit_socket_runtime, Users, Owns, Used
  <2>2. QED
    BY <2>1, FS_EmptySet DEF IInv, EntryOK
<1>3. ASSUME NEW s \in Slots
      PROVE  /\ entry'[s] \in EntryType /\ entry'[s].conn = 0
             /\ Evolves(s, entry[s], entry'[s], op')
             /\ handle'[s] <= entry'[s].generation /\ Tied(entry[s], entry'[s])
  <2> DEFINE r == Reset(entry[s].generation)
  <2>1. /\ r \in EntryType /\ ~r.used /\ r.generation = entry[s].generation /\ r.conn = 0
        /\ r.reservations = 0 /\ \A l \in Lanes : r.active[l] = 0
    BY <1>1, ResetIs
  <2>2. entry'[s] = r /\ handle'[s] = 0 /\ r = Reset(r.generation)
    BY <1>1, <2>1
  <2> HIDE DEF r
  <2>3. Evolves(s, entry[s], r, op')
    BY <1>2, <2>1, <2>2 DEF Evolves, Runs
  <2>4. Tied(entry[s], r)
    BY <1>2 DEF Tied
  <2>5. QED
    BY <1>1, <2>1, <2>2, <2>3, <2>4
<1>4. /\ op' \in [Ids -> OpType] /\ \A u \in Ids : Goes(op[u], op'[u])
      /\ tls' \in [Ids -> TlsType] /\ \A u \in Ids : SameTls(tls[u], tls'[u])
  BY <1>1, OpTyped, TlsStays DEF IInv, Types
<1>5. /\ \A u \in Ids : Mild(op[u], op'[u]) /\ ClientOK(op'[u])
      /\ \A u \in Ids : DnsOK(dns'[u], op'[u]) /\ TlsOK(tls'[u], op'[u])
      /\ Clients(op)' = Clients(op) /\ TlsConns(tls)' = TlsConns(tls)
  BY <1>1, <1>4, FuturesMove
<1>6. Types'
  BY <1>1, <1>3, <1>4 DEF IInv, Types
<1>7. MildStep
  BY <1>3, <1>5, <1>6 DEF MildStep
<1>8. ASSUME CInv PROVE Owning'
  <2> DEFINE E == EntryConns(entry)
  <2>1. {} \in SUBSET Ids /\ Slots \in SUBSET Slots
    OBVIOUS
  <2>2. Holding(E, Clients(op), TlsConns(tls), live)
    BY <1>8, OwningHolds
  <2>3. Own(Without(E, Slots), Without(Clients(op), {}), Without(TlsConns(tls), {}),
            live \ (Of(E, Slots) \union Of(Clients(op), {}) \union Of(TlsConns(tls), {})))
    <3> HIDE DEF E
    <3>1. QED
      BY <2>1, <2>2, DropOwn
  <2>4. /\ Without(Clients(op), {}) = Clients(op)
        /\ Without(TlsConns(tls), {}) = TlsConns(tls)
        /\ Without(E, Slots) = EntryConns(entry)'
    BY <1>3 DEF Without, Clients, TlsConns, EntryConns
  <2>5. /\ Of(Clients(op), {}) = {} /\ Of(TlsConns(tls), {}) = {}
        /\ Of(E, Slots) = {entry[s].conn : s \in Slots}
    BY DEF Of, EntryConns
  <2>6. 0 \notin live
    BY <1>1, Numbers
  <2>7. live' = live \ {entry[s].conn : s \in Slots}
    BY <1>1, <2>6 DEF GoneWith
  <2> HIDE DEF E
  <2>8. live \ (Of(E, Slots) \union Of(Clients(op), {}) \union Of(TlsConns(tls), {})) = live'
    BY <2>5, <2>7
  <2>9. QED
    BY <1>5, <2>3, <2>4, <2>8 DEF Owning
<1>9. QED
  BY <1>3, <1>7, <1>8, MildSafe

(* Capture. *)

LEMMA AllocateSafe ==
    ASSUME IInv, NEW s \in Slots, NEW kind \in Kinds, NEW timed \in BOOLEAN,
           socket_future_allocate(s, kind, timed)
    PROVE  IInv' /\ (~Overlap /\ CInv => CInv')
<1>1. PICK o \in Ids :
         /\ \A p \in Ids : op[p].phase = "none" <=> p >= o
         /\ op' = [op EXCEPT ![o] = [NoOp EXCEPT !.phase = "queued", !.kind = kind,
                     !.slot = s, !.generation = entry[s].generation, !.late = ~timed]]
  BY DEF socket_future_allocate
<1> DEFINE e == entry[s]
           late == ~timed
           n == e.generation
           b == [NoOp EXCEPT !.phase = "queued", !.kind = kind, !.slot = s,
                             !.generation = n, !.late = late]
           m == e.reservations + 1
           f == [e EXCEPT !.reservations = m]
<1>2. /\ UNCHANGED <<handle, dns, tls, live, faults>> /\ op \in [Ids -> OpType]
      /\ entry \in [Slots -> EntryType] /\ e \in EntryType /\ e.used /\ n \in Nat
      /\ e.reservations \in Nat
  BY DEF socket_future_allocate, Allowed, IInv, Types, EntryType
<1>3. op' = [op EXCEPT ![o] = b] /\ entry' = [entry EXCEPT ![s] = f]
  BY <1>1, <1>2 DEF socket_future_allocate
<1>4. op[o].phase = "none" /\ op[o].client = 0 /\ dns[o] = NoDns /\ tls[o].pc = "none"
  <2>1. op[o].phase = "none"
    BY <1>1, Numbers
  <2>2. OpOK(op[o], entry) /\ DnsOK(dns[o], op[o]) /\ TlsOK(tls[o], op[o])
    BY DEF IInv
  <2>3. tls[o].pc = "none"
    BY <2>1, <2>2 DEF TlsOK, Referenced
  <2>4. QED
    BY <2>1, <2>2, <2>3 DEF OpOK, DnsOK, Referenced
<1>5. b \in OpType
  <2>1. late \in BOOLEAN
    OBVIOUS
  <2> HIDE DEF late, n
  <2>2. QED
    BY <1>2, <2>1, NoneIs, Zenon DEF OpType
<1>6. /\ b.phase = "queued" /\ b.kind = kind /\ b.slot = s /\ b.generation = n
      /\ b.client = 0 /\ ~b.completed
  BY DEF NoOp
<1>7. f \in EntryType
  <2>1. m \in Nat
    BY <1>2
  <2> HIDE DEF m
  <2>2. QED
    BY <1>2, <2>1, Zenon DEF EntryType
<1>8. /\ f.reservations = m /\ f.used /\ f.generation = n /\ f.active = e.active
      /\ f.conn = e.conn /\ f.protocol = e.protocol
  BY <1>2 DEF EntryType
<1> HIDE DEF b, f
<1>9. \A u \in Ids : u # o => op'[u] = op[u]
  BY <1>2, <1>3
<1>10. op'[o] = b
  BY <1>2, <1>3
<1>11. Types'
  BY <1>2, <1>3, <1>5, <1>7 DEF IInv, Types
<1>12. /\ Users(op', s) = Users(op, s) \union {o} /\ o \notin Users(op, s)
       /\ \A x \in Slots : x # s => Users(op', x) = Users(op, x)
  BY <1>4, <1>6, <1>9, <1>10 DEF Users, Used
<1>13. Cardinality(Users(op', s)) = Cardinality(Users(op, s)) + 1
  BY <1>12, UsersAre, FS_AddElement
<1>14. ASSUME NEW x \in Slots
       PROVE  EntryOK(x, entry'[x], op') /\ handle'[x] <= entry'[x].generation
  <2>1. EntryOK(x, entry[x], op) /\ handle[x] <= entry[x].generation
    BY DEF IInv
  <2>2. \A l \in Lanes : Runs(op', entry[x].active[l], x, l)
    BY <1>4, <1>9, <2>1 DEF EntryOK, Runs
  <2>3. CASE x = s
    <3>1. entry'[x] = f
      BY <1>2, <1>3, <2>3
    <3>2. f.reservations = Cardinality(Users(op', s))
      BY <1>8, <1>13, <2>1, <2>3 DEF EntryOK
    <3>3. QED
      BY <1>2, <1>8, <2>1, <2>2, <2>3, <3>1, <3>2 DEF EntryOK
  <2>4. CASE x # s
    <3>1. entry'[x] = entry[x]
      BY <1>2, <1>3, <2>4
    <3>2. QED
      BY <1>2, <1>12, <2>1, <2>2, <2>4, <3>1 DEF EntryOK
  <2>5. QED
    BY <2>3, <2>4
<1>15. \A x \in Slots : entry'[x].used = entry[x].used
                        /\ entry'[x].generation = entry[x].generation
                        /\ entry'[x].conn = entry[x].conn
                        /\ entry'[x].protocol = entry[x].protocol
  BY <1>2, <1>3, <1>8
<1>16. ASSUME NEW u \in Ids
       PROVE  OpOK(op'[u], entry') /\ DnsOK(dns'[u], op'[u]) /\ TlsOK(tls'[u], op'[u])
  <2>1. OpOK(op[u], entry) /\ DnsOK(dns[u], op[u]) /\ TlsOK(tls[u], op[u])
        /\ op[u].slot \in Slots
    BY EntryIs DEF IInv
  <2>2. CASE u = o
    <3>1. OpOK(b, entry')
      BY <1>2, <1>6, <1>15 DEF OpOK
    <3>2. DnsOK(dns[o], b) /\ TlsOK(tls[o], b)
      BY <1>4, <2>1, <2>2 DEF DnsOK, TlsOK
    <3>3. QED
      BY <1>2, <1>10, <2>2, <3>1, <3>2
  <2>3. CASE u # o
    <3>1. OpOK(op[u], entry')
      BY <1>15, <2>1 DEF OpOK
    <3>2. QED
      BY <1>2, <1>9, <2>1, <2>3, <3>1
  <2>4. QED
    BY <2>2, <2>3
<1>17. IInv'
  BY <1>11, <1>14, <1>16 DEF IInv
<1>18. ASSUME ~Overlap, CInv PROVE CInv'
  <2>1. Owning'
    <3>1. \A u \in Ids : op'[u].client = op[u].client
      BY <1>4, <1>6, <1>9, <1>10
    <3>2. Still
      BY <1>2, <1>15, <3>1, ClientsStay, EntryConnsStay DEF Still, TlsConns
    <3>3. QED
      BY <1>18, <3>2, StillOwning DEF CInv, Owning
  <2>2. kind = "connect" => /\ ~\E u \in Ids : Owns(u) /\ op[u].kind = "connect" /\ op[u].slot = s
                            /\ e.protocol = "tls" => e.conn = 0
    BY <1>18 DEF socket_future_allocate, Allowed
  <2>3. Single(op)'
    <3>1. SUFFICES ASSUME NEW u \in Ids, NEW v \in Ids, Connecting(op'[u]),
                          Connecting(op'[v]), op'[u].slot = op'[v].slot
                   PROVE  u = v
      BY DEF Single
    <3>2. CASE u # o /\ v # o
      BY <1>9, <1>18, <3>1, <3>2 DEF CInv, Single
    <3>3. CASE u = o /\ v # o
      BY <1>6, <1>9, <1>10, <2>2, <3>1, <3>3 DEF Connecting, Used, Owns
    <3>4. CASE u # o /\ v = o
      BY <1>6, <1>9, <1>10, <2>2, <3>1, <3>4 DEF Connecting, Used, Owns
    <3>5. QED
      BY <3>2, <3>3, <3>4
  <2>4. Bare(entry, op)'
    <3>1. SUFFICES ASSUME NEW u \in Ids, Connecting(op'[u]), ~op'[u].completed,
                          entry'[op'[u].slot].protocol = "tls"
                   PROVE  entry'[op'[u].slot].conn = 0
      BY DEF Bare
    <3>2. CASE u = o
      BY <1>6, <1>10, <1>15, <2>2, <3>1, <3>2 DEF Connecting
    <3>3. CASE u # o
      BY <1>9, <1>15, <1>18, <3>1, <3>3, EntryIs DEF CInv, Bare
    <3>4. QED
      BY <3>2, <3>3
  <2>5. QED
    BY <2>1, <2>3, <2>4 DEF CInv, Owning
<1>19. QED
  BY <1>17, <1>18

(* The end of a Future. *)

\* What finish leaves an entry as it is.
Keeps(e, f) ==
    /\ f.used = e.used /\ f.generation = e.generation /\ f.protocol = e.protocol
    /\ f.conn = e.conn /\ f.close_pending = e.close_pending
    /\ f.reservations = e.reservations /\ f.active = e.active
\* The entry of a connection that was accepted.
Filled(e, f, c) ==
    /\ f.used /\ f.generation = e.generation + 1 /\ f.conn = c /\ f.reservations = 0
    /\ \A l \in Lanes : f.active[l] = 0

LEMMA FreeIsOne ==
    ASSUME NEW s \in Slots, NEW t \in Slots, FreeSlot(s), FreeSlot(t) PROVE s = t
<1>1. s \in Nat /\ t \in Nat
  BY SocketsAssumption
<1>2. ~(s < t) /\ ~(t < s)
  BY DEF FreeSlot
<1>3. QED
  BY <1>1, <1>2

LEMMA FinishedIs ==
    ASSUME IInv, NEW o \in Ids, Owns(o)
    PROVE  LET s == op[o].slot
               F == Finished(o)
           IN /\ F \in [Slots -> EntryType] /\ Keeps(entry[s], F[s])
              /\ \/ /\ ~Accepted(o)
                    /\ \A u \in Slots : u # s => F[u] = entry[u]
                 \/ /\ Accepted(o)
                    /\ \E t \in Slots :
                         /\ t # s /\ FreeSlot(t) /\ ~entry[t].used
                         /\ Filled(entry[t], F[t], op[o].client)
                         /\ \A u \in Slots : u # s /\ u # t => F[u] = entry[u]
<1> DEFINE s == op[o].slot
           F == Finished(o)
<1>1. /\ s \in Slots /\ entry[s] \in EntryType /\ entry[s].used
      /\ entry \in [Slots -> EntryType]
      /\ (op[o].client # 0 => op[o].kind = "accept")
      /\ op[o].client \in Conns \union {0}
  BY EntryIs DEF IInv, Types, OpOK, Owns, Used, OpType
<1>2. Keeps(entry[s], entry[s])
  BY DEF Keeps
<1>3. CASE Good(o) /\ op[o].kind = "connect"
  <2> DEFINE f == [entry[s] EXCEPT !.connected = TRUE]
  <2>1. F = [entry EXCEPT ![s] = f]
    BY <1>1, <1>3 DEF Finished
  <2>2. f \in EntryType
    BY <1>1, Zenon DEF EntryType
  <2>3. Keeps(entry[s], f)
    BY <1>1 DEF Keeps, EntryType
  <2> HIDE DEF f
  <2>4. ~Accepted(o)
    BY <1>1, <1>3 DEF Accepted
  <2> HIDE DEF F
  <2>5. F \in [Slots -> EntryType] /\ Keeps(entry[s], F[s])
        /\ \A u \in Slots : u # s => F[u] = entry[u]
    BY <1>1, <2>1, <2>2, <2>3
  <2>6. QED
    BY <2>4, <2>5 DEF F
<1>4. CASE Accepted(o)
  <2> DEFINE t == CHOOSE x \in Slots : FreeSlot(x)
             n == entry[t].generation + 1
             r == Reset(n)
             c == op[o].client
             f == [r EXCEPT !.used = TRUE, !.conn = c, !.connected = TRUE]
  <2>1. t \in Slots /\ FreeSlot(t)
    BY <1>4 DEF Accepted
  <2>2. op[o].kind # "connect"
    BY <1>1, <1>4 DEF Accepted
  <2>3. F = [entry EXCEPT ![t] = f]
    BY <1>4, <2>2 DEF Finished, Accepted
  <2> HIDE DEF t, F
  <2>4. ~entry[t].used /\ t # s /\ entry[t] \in EntryType
    BY <1>1, <2>1 DEF FreeSlot
  <2>5. n \in Nat
    BY <2>4 DEF EntryType
  <2>6. /\ r \in EntryType /\ r.generation = n /\ r.reservations = 0
        /\ \A l \in Lanes : r.active[l] = 0
    BY <2>5, ResetIs
  <2> HIDE DEF r
  <2>7. f \in EntryType
    <3> HIDE DEF c
    <3>1. c \in Conns \union {0}
      BY <1>1 DEF c
    <3>2. QED
      BY <2>6, <3>1, Zenon DEF EntryType
  <2>8. /\ f.used /\ f.conn = c /\ f.generation = n /\ f.reservations = 0
        /\ f.active = r.active
    BY <2>6 DEF EntryType
  <2> HIDE DEF f
  <2>9. Filled(entry[t], f, c)
    BY <2>6, <2>8 DEF Filled
  <2>10. F \in [Slots -> EntryType] /\ F[t] = f
         /\ \A u \in Slots : u # t => F[u] = entry[u]
    BY <1>1, <2>1, <2>3, <2>7
  <2>11. Keeps(entry[s], F[s])
    BY <1>1, <1>2, <2>4, <2>10
  <2>12. QED
    BY <1>4, <2>1, <2>4, <2>9, <2>10, <2>11 DEF F
<1>5. CASE ~Accepted(o) /\ ~(Good(o) /\ op[o].kind = "connect")
  <2>1. F = entry
    BY <1>5 DEF Finished, Accepted
  <2>2. QED
    BY <1>1, <1>2, <1>5, <2>1
<1>6. QED
  BY <1>3, <1>4, <1>5

LEMMA GivenIs ==
    ASSUME NEW o \in Ids, NEW e \in EntryType, e.reservations # 0
    PROVE  LET g == Given(o, e) IN
           /\ g \in EntryType
           /\ g.used = e.used /\ g.generation = e.generation /\ g.protocol = e.protocol
           /\ g.close_pending = e.close_pending /\ g.reservations = e.reservations - 1
           /\ g.conn = IF DropsTls(o, e) THEN 0 ELSE e.conn
           /\ DropsTls(o, e) => ~g.close_pending
           /\ \A l \in Lanes : g.active[l] = IF l = Lane(o) /\ e.active[l] = o
                                             THEN 0 ELSE e.active[l]
<1> DEFINE A == [l \in Lanes |-> IF l = Lane(o) /\ e.active[l] = o THEN 0 ELSE e.active[l]]
           n == e.reservations - 1
           f == [e EXCEPT !.active = A, !.reservations = n]
           h == [f EXCEPT !.conn = 0]
<1>1. e.reservations \in Nat /\ n \in Nat
  BY DEF EntryType
<1>2. A \in [Lanes -> Ids \union {0}]
  BY DEF EntryType
<1>3. \A l \in Lanes : A[l] = IF l = Lane(o) /\ e.active[l] = o THEN 0 ELSE e.active[l]
  OBVIOUS
<1>4. Given(o, e) = IF DropsTls(o, f) THEN h ELSE f
  BY DEF Given
<1> HIDE DEF A, n
<1>5. f \in EntryType
  BY <1>1, <1>2, Zenon DEF EntryType
<1>6. /\ f.used = e.used /\ f.generation = e.generation /\ f.protocol = e.protocol
      /\ f.close_pending = e.close_pending /\ f.reservations = n /\ f.conn = e.conn
      /\ f.active = A /\ f.connected = e.connected
  BY DEF EntryType
<1> HIDE DEF f
<1>7. h \in EntryType
  BY <1>5, Zenon DEF EntryType
<1>8. /\ h.used = e.used /\ h.generation = e.generation /\ h.protocol = e.protocol
      /\ h.close_pending = e.close_pending /\ h.reservations = n /\ h.conn = 0
      /\ h.active = A
  BY <1>5, <1>6 DEF EntryType
<1> HIDE DEF h
<1>9. DropsTls(o, f) <=> DropsTls(o, e)
  BY <1>6 DEF DropsTls
<1>10. CASE DropsTls(o, e)
  <2>1. Given(o, e) = h /\ ~e.close_pending
    BY <1>4, <1>9, <1>10 DEF DropsTls
  <2>2. QED
    BY <1>3, <1>7, <1>8, <1>10, <2>1 DEF n
<1>11. CASE ~DropsTls(o, e)
  <2>1. Given(o, e) = f
    BY <1>4, <1>9, <1>11
  <2>2. QED
    BY <1>3, <1>5, <1>6, <1>11, <2>1 DEF n
<1>12. QED
  BY <1>10, <1>11

\* The request of a destroyed Future.
LEMMA DnsLetGo ==
    ASSUME IInv, NEW o \in Ids, Owns(o), op' = [op EXCEPT ![o] = [NoOp EXCEPT !.phase = "gone"]],
           dns' = IF dns[o].references > 0 THEN DropDns(o) ELSE dns
    PROVE  dns' \in [Ids -> DnsType] /\ \A u \in Ids : DnsOK(dns'[u], op'[u])
<1> DEFINE r == dns[o]
           n == r.references - 1
           q == [r EXCEPT !.references = n]
           b == [NoOp EXCEPT !.phase = "gone"]
<1>1. /\ dns \in [Ids -> DnsType] /\ r \in DnsType /\ op \in [Ids -> OpType]
      /\ r.references \in 0 .. 2
  BY DEF IInv, Types, DnsType
<1>2. op'[o] = b /\ b.phase = "gone" /\ \A u \in Ids : u # o => op'[u] = op[u]
  <2>1. b.phase = "gone" /\ op' = [op EXCEPT ![o] = b]
    BY DEF NoOp
  <2> HIDE DEF b
  <2>2. QED
    BY <1>1, <2>1
<1> HIDE DEF b
<1>3. r = NoDns \/ (r.asked /\ Referenced(r.references, r.completed, op[o]))
  BY DEF IInv, DnsOK
<1>4. CASE r.references = 0
  <2>1. r = NoDns
    BY <1>3, <1>4 DEF Referenced
  <2>2. dns' = dns
    BY <1>1, <1>4
  <2>3. QED
    BY <1>1, <1>2, <2>1, <2>2 DEF IInv, DnsOK
<1>5. CASE r.references # 0
  <2>1. r.references \in {1, 2} /\ r.references > 0 /\ n \in {0, 1} /\ n \in 0 .. 2
    BY <1>1, <1>5
  <2>2. r.asked /\ Referenced(r.references, r.completed, op[o])
    BY <1>3, <1>5, NoneIs
  <2>3. (n = 0 => r.completed) /\ (n = 1 => ~r.completed)
    BY <2>1, <2>2 DEF Referenced, Owns
  <2>4. dns' = [dns EXCEPT ![o] = Forget(q, NoDns)]
    BY <2>1 DEF DropDns
  <2> HIDE DEF n
  <2>5. q \in DnsType
    BY <1>1, <2>1, Zenon DEF DnsType
  <2>6. q.references = n /\ q.completed = r.completed /\ q.asked
    BY <1>1, <2>2 DEF DnsType
  <2> HIDE DEF q
  <2> DEFINE w == Forget(q, NoDns)
  <2>7. w \in DnsType /\ DnsOK(w, op'[o])
    BY <1>2, <2>1, <2>3, <2>5, <2>6, NoneIs DEF Forget, DnsOK, Referenced
  <2> HIDE DEF w
  <2>8. dns' = [dns EXCEPT ![o] = w]
    BY <2>4 DEF w
  <2>9. QED
    BY <1>1, <1>2, <2>7, <2>8 DEF IInv
<1>6. QED
  BY <1>4, <1>5

LEMMA TlsLetGo ==
    ASSUME IInv, NEW o \in Ids, Owns(o), op' = [op EXCEPT ![o] = [NoOp EXCEPT !.phase = "gone"]],
           tls' = IF tls[o].references > 0 THEN [tls EXCEPT ![o] = ReleaseTls(@)] ELSE tls
    PROVE  /\ tls' \in [Ids -> TlsType] /\ \A u \in Ids : TlsOK(tls'[u], op'[u])
           /\ TlsConns(tls)' = IF tls[o].references = 1 THEN [TlsConns(tls) EXCEPT ![o] = 0]
                               ELSE TlsConns(tls)
<1> DEFINE r == tls[o]
           q == ReleaseTls(r)
           b == [NoOp EXCEPT !.phase = "gone"]
<1>1. /\ tls \in [Ids -> TlsType] /\ r \in TlsType /\ op \in [Ids -> OpType]
      /\ r.references \in 0 .. 2
  BY DEF IInv, Types, TlsType
<1>2. op'[o] = b /\ b.phase = "gone" /\ \A u \in Ids : u # o => op'[u] = op[u]
  <2>1. b.phase = "gone" /\ op' = [op EXCEPT ![o] = b]
    BY DEF NoOp
  <2> HIDE DEF b
  <2>2. QED
    BY <1>1, <2>1
<1> HIDE DEF b
<1>3. TlsOK(r, op[o])
  BY DEF IInv
<1>4. CASE r.references = 0
  <2>1. r.pc = "none"
    BY <1>3, <1>4 DEF TlsOK, Referenced
  <2>2. tls' = tls
    BY <1>1, <1>4
  <2>3. TlsOK(tls'[o], op'[o])
    BY <1>1, <1>3, <2>1, <2>2 DEF TlsOK
  <2>4. TlsConns(tls)' = TlsConns(tls)
    BY <2>2 DEF TlsConns
  <2>5. QED
    BY <1>1, <1>2, <1>4, <2>2, <2>3, <2>4 DEF IInv
<1>5. CASE r.references # 0
  <2>1. r.references \in {1, 2} /\ r.references > 0
    BY <1>1, <1>5
  <2>2. r.pc # "none" /\ Referenced(r.references, r.completed, op[o])
    BY <1>3, <1>5 DEF TlsOK
  <2>3. (r.references = 1 => r.completed) /\ (r.references = 2 => ~r.completed)
    BY <2>2 DEF Referenced, Owns
  <2>4. /\ q \in TlsType
        /\ q.conn = IF r.references = 1 THEN 0 ELSE r.conn
        /\ r.references = 1 /\ r.completed => q = NoTls
        /\ r.references = 2 => q.references = 1 /\ q.completed = r.completed /\ q.pc = r.pc
    BY <1>1, <2>1, ReleaseIs
  <2>5. tls' = [tls EXCEPT ![o] = q]
    BY <1>1, <2>1
  <2> HIDE DEF q
  <2>6. TlsOK(q, op'[o])
    <3>1. CASE r.references = 1
      BY <2>3, <2>4, <3>1, NoneIs DEF TlsOK
    <3>2. CASE r.references = 2
      BY <1>2, <1>3, <2>2, <2>3, <2>4, <3>2 DEF TlsOK, Referenced
    <3>3. QED
      BY <2>1, <3>1, <3>2
  <2>7. TlsConns(tls)' = [TlsConns(tls) EXCEPT ![o] = q.conn] /\ TlsConns(tls)[o] = r.conn
    BY <1>1, <2>5 DEF TlsConns
  <2>8. TlsConns(tls)' = IF r.references = 1 THEN [TlsConns(tls) EXCEPT ![o] = 0]
                         ELSE TlsConns(tls)
    <3>1. CASE r.references = 1
      BY <2>4, <2>7, <3>1
    <3>2. CASE r.references = 2
      BY <2>4, <2>7, <3>2 DEF TlsConns
    <3>3. QED
      BY <2>1, <3>1, <3>2
  <2>9. tls' \in [Ids -> TlsType] /\ \A u \in Ids : TlsOK(tls'[u], op'[u])
    BY <1>1, <1>2, <2>4, <2>5, <2>6 DEF IInv
  <2>10. QED
    BY <2>8, <2>9
<1>6. QED
  BY <1>4, <1>5

\* What destroy makes of the table.
Ends(g) == g.close_pending /\ CloseDue(g)
Left(g) == IF Ends(g) THEN Reset(g.generation) ELSE g

LEMMA DestroyIs ==
    ASSUME IInv, NEW o \in Ids, socket_future_destroy(o)
    PROVE  LET s == op[o].slot
               F == Finished(o)
               g == Given(o, F[s])
           IN /\ Owns(o) /\ Live(o) /\ op[o].completed /\ s \in Slots
              /\ entry[s].used /\ entry[s].reservations # 0
              /\ entry' = [F EXCEPT ![s] = Left(g)]
              /\ live' = live \ ((IF Accepted(o) THEN {} ELSE {op[o].client} \ {0})
                         \union (IF DropsTls(o, F[s]) THEN GoneWith(F[s]) ELSE {})
                         \union (IF Ends(g) THEN GoneWith(g) ELSE {})
                         \union (IF tls[o].references > 0 THEN TlsGone(tls[o]) ELSE {}))
<1>1. Owns(o) /\ op[o].completed /\ op[o].slot \in Slots
  BY EntryIs DEF socket_future_destroy
<1>2. Live(o) /\ entry[op[o].slot].used
  BY <1>1 DEF IInv, OpOK, Owns, Used, Live, Entry
<1>3. entry[op[o].slot].reservations # 0
  <2>1. entry[op[o].slot].reservations = Cardinality(Users(op, op[o].slot))
    BY <1>1 DEF IInv, EntryOK
  <2>2. Used(op[o])
    BY <1>1 DEF Owns, Used
  <2>3. QED
    BY <2>1, <2>2, NoUsers
<1>4. QED
  BY <1>1, <1>2, <1>3 DEF socket_future_destroy, Closed, Ends, Left

LEMMA DestroyKeeps == ASSUME IInv, NEW o \in Ids, socket_future_destroy(o) PROVE IInv'
<1> DEFINE s == op[o].slot
           F == Finished(o)
           e == F[s]
           g == Given(o, e)
           x == Left(g)
           b == [NoOp EXCEPT !.phase = "gone"]
<1>1. /\ Owns(o) /\ Live(o) /\ op[o].completed /\ s \in Slots
      /\ entry[s].used /\ entry[s].reservations # 0
      /\ entry' = [F EXCEPT ![s] = x]
      /\ live' \subseteq live
  BY DestroyIs
<1>2. /\ F \in [Slots -> EntryType] /\ Keeps(entry[s], F[s])
      /\ \/ /\ ~Accepted(o)
            /\ \A u \in Slots : u # s => F[u] = entry[u]
         \/ /\ Accepted(o)
            /\ \E t \in Slots :
                 /\ t # s /\ FreeSlot(t) /\ ~entry[t].used
                 /\ Filled(entry[t], F[t], op[o].client)
                 /\ \A u \in Slots : u # s /\ u # t => F[u] = entry[u]
  BY <1>1, FinishedIs
<1>3. /\ op \in [Ids -> OpType] /\ live \subseteq Conns /\ handle \in [Slots -> Nat]
      /\ \A u \in Slots : entry[u] \in EntryType /\ entry[u].generation \in Nat
                          /\ entry[u].reservations \in Nat
      /\ faults' \in Nat
  BY DEF IInv, Types, EntryType, socket_future_destroy
<1>4. /\ op' = [op EXCEPT ![o] = b]
      /\ dns' = IF dns[o].references > 0 THEN DropDns(o) ELSE dns
      /\ tls' = IF tls[o].references > 0 THEN [tls EXCEPT ![o] = ReleaseTls(@)] ELSE tls
      /\ handle' = [t \in Slots |-> IF Accepted(o) /\ FreeSlot(t)
                                    THEN entry[t].generation + 1 ELSE handle[t]]
  BY DEF socket_future_destroy
<1>5. b \in OpType /\ b.phase = "gone" /\ b.client = 0
  <2>1. b \in OpType
    BY NoneIs, Zenon DEF OpType
  <2>2. QED
    BY <2>1, NoneIs DEF OpType
<1>6. dns' \in [Ids -> DnsType] /\ \A u \in Ids : DnsOK(dns'[u], op'[u])
  BY <1>1, <1>4, DnsLetGo
<1>7. tls' \in [Ids -> TlsType] /\ \A u \in Ids : TlsOK(tls'[u], op'[u])
  BY <1>1, <1>4, TlsLetGo
<1> HIDE DEF F, b
<1>8. e \in EntryType /\ e.reservations = entry[s].reservations /\ e.reservations # 0
      /\ e.generation = entry[s].generation /\ e.active = entry[s].active /\ e.used
  BY <1>1, <1>2 DEF Keeps
<1>9. /\ g \in EntryType /\ g.used /\ g.generation = entry[s].generation
      /\ g.reservations = entry[s].reservations - 1
      /\ \A l \in Lanes : g.active[l] = IF l = Lane(o) /\ entry[s].active[l] = o
                                        THEN 0 ELSE entry[s].active[l]
  <2> HIDE DEF e
  <2>1. /\ g \in EntryType /\ g.used = e.used /\ g.generation = e.generation
        /\ g.reservations = e.reservations - 1
        /\ \A l \in Lanes : g.active[l] = IF l = Lane(o) /\ e.active[l] = o
                                          THEN 0 ELSE e.active[l]
    BY <1>8, GivenIs
  <2> HIDE DEF g
  <2>2. QED
    BY <1>8, <2>1
<1> HIDE DEF g
<1>10. /\ op'[o] = b /\ \A u \in Ids : u # o => op'[u] = op[u]
       /\ op' \in [Ids -> OpType]
  BY <1>3, <1>4, <1>5
<1>11. /\ Users(op', s) = Users(op, s) \ {o} /\ o \in Users(op, s)
       /\ \A u \in Slots : u # s => Users(op', u) = Users(op, u)
  BY <1>1, <1>5, <1>10 DEF Users, Used, Owns
<1>12. g.reservations = Cardinality(Users(op', s))
  <2>1. Cardinality(Users(op', s)) = Cardinality(Users(op, s)) - 1
    BY <1>11, UsersAre, FS_RemoveElement
  <2>2. entry[s].reservations = Cardinality(Users(op, s))
    BY <1>1 DEF IInv, EntryOK
  <2>3. QED
    BY <1>9, <2>1, <2>2
<1>13. ASSUME NEW u \in Slots, NEW l \in Lanes, NEW y, Runs(op, y, u, l), y # o
       PROVE  Runs(op', y, u, l)
  BY <1>10, <1>13 DEF Runs
<1>14. ASSUME NEW l \in Lanes PROVE Runs(op', g.active[l], s, l)
  <2>1. Runs(op, entry[s].active[l], s, l)
    BY <1>1 DEF IInv, EntryOK
  <2>2. CASE entry[s].active[l] = o
    <3>1. l = Lane(o)
      BY <2>1, <2>2, Numbers DEF Runs, Lane
    <3>2. g.active[l] = 0
      BY <1>9, <2>2, <3>1
    <3>3. QED
      BY <3>2 DEF Runs
  <2>3. CASE entry[s].active[l] # o
    BY <1>1, <1>9, <1>13, <2>1, <2>3
  <2>4. QED
    BY <2>2, <2>3
<1>15. /\ x \in EntryType /\ x.generation = entry[s].generation /\ EntryOK(s, x, op')
       /\ ~Ends(g) => x = g
  <2>1. CASE Ends(g)
    <3> DEFINE r == Reset(g.generation)
    <3>1. g.generation \in Nat
      BY <1>1, <1>3, <1>9
    <3>2. /\ r \in EntryType /\ ~r.used /\ r.generation = g.generation
          /\ r.reservations = 0 /\ \A l \in Lanes : r.active[l] = 0
      BY <3>1, ResetIs
    <3>3. x = r /\ r = Reset(r.generation)
      BY <2>1, <3>2 DEF Left
    <3> HIDE DEF r, x
    <3>4. g.reservations = 0
      BY <2>1 DEF Ends, CloseDue
    <3>5. EntryOK(s, r, op')
      BY <1>12, <3>2, <3>3, <3>4 DEF EntryOK, Runs
    <3>6. QED
      BY <1>9, <2>1, <3>2, <3>3, <3>5
  <2>2. CASE ~Ends(g)
    <3>1. x = g
      BY <2>2 DEF Left
    <3>2. EntryOK(s, g, op')
      BY <1>9, <1>12, <1>14 DEF EntryOK
    <3>3. QED
      BY <1>9, <3>1, <3>2
  <2>3. QED
    BY <2>1, <2>2
<1> HIDE DEF x
<1>16. /\ entry' \in [Slots -> EntryType] /\ entry'[s] = x
       /\ \A u \in Slots : u # s => entry'[u] = F[u]
  BY <1>1, <1>2, <1>15
<1>17. ASSUME NEW u \in Slots, u # s, F[u] = entry[u]
       PROVE  EntryOK(u, entry'[u], op')
  <2>1. EntryOK(u, entry[u], op)
    BY DEF IInv
  <2>2. ASSUME NEW l \in Lanes PROVE Runs(op', entry[u].active[l], u, l)
    <3>1. Runs(op, entry[u].active[l], u, l)
      BY <2>1 DEF EntryOK
    <3>2. entry[u].active[l] # o
      BY <1>17, <3>1, Numbers DEF Runs
    <3>3. QED
      BY <1>13, <3>1, <3>2
  <2>3. QED
    BY <1>11, <1>16, <1>17, <2>1, <2>2 DEF EntryOK
<1>18. ASSUME NEW u \in Slots, NEW c, ~entry[u].used, u # s, Filled(entry[u], F[u], c)
       PROVE  EntryOK(u, entry'[u], op')
  <2>1. EntryOK(u, entry[u], op)
    BY DEF IInv
  <2>2. entry[u].reservations = 0
    BY <1>3, <1>18, <2>1, ResetIs DEF EntryOK
  <2>3. QED
    BY <1>11, <1>16, <1>18, <2>1, <2>2 DEF EntryOK, Filled, Runs
<1>19. ASSUME NEW u \in Slots
       PROVE  /\ EntryOK(u, entry'[u], op')
              /\ entry[u].used /\ u # s => entry'[u] = entry[u]
  BY <1>2, <1>15, <1>16, <1>17, <1>18
<1>20. handle' \in [Slots -> Nat]
  BY <1>3, <1>4
<1>21. ASSUME NEW u \in Slots PROVE handle'[u] <= entry'[u].generation
  <2>1. handle[u] <= entry[u].generation
    BY DEF IInv
  <2>2. CASE u = s
    <3>1. ~FreeSlot(u)
      BY <1>1, <2>2 DEF FreeSlot
    <3>2. QED
      BY <1>4, <1>15, <1>16, <2>1, <2>2, <3>1
  <2>3. CASE u # s /\ F[u] = entry[u]
    <3>1. ~(Accepted(o) /\ FreeSlot(u))
      BY <1>2, <1>3, <2>3, FreeIsOne DEF Filled
    <3>2. QED
      BY <1>4, <1>16, <2>1, <2>3, <3>1
  <2>4. CASE u # s /\ Accepted(o) /\ Filled(entry[u], F[u], op[o].client)
    <3>1. F[u].generation = entry[u].generation + 1
      BY <2>4 DEF Filled
    <3>2. handle'[u] = entry[u].generation + 1 \/ handle'[u] = handle[u]
      BY <1>4
    <3>3. QED
      BY <1>3, <1>16, <2>1, <2>4, <3>1, <3>2
  <2>5. QED
    BY <1>2, <2>2, <2>3, <2>4
<1>22. ASSUME NEW u \in Ids PROVE OpOK(op'[u], entry')
  <2>1. CASE u = o
    BY <1>5, <1>10, <2>1 DEF OpOK, Used
  <2>2. CASE u # o
    <3> DEFINE v == op[u].slot
    <3>1. op'[u] = op[u] /\ OpOK(op[u], entry) /\ v \in Slots
      BY <1>10, <2>2, EntryIs DEF IInv
    <3>2. ASSUME Used(op[u])
          PROVE  entry'[v].used /\ entry'[v].generation = op[u].generation
      <4>1. entry[v].used /\ entry[v].generation = op[u].generation
        BY <3>1, <3>2 DEF OpOK
      <4>2. CASE v # s
        BY <1>19, <3>1, <4>1, <4>2
      <4>3. CASE v = s
        <5>1. Cardinality(Users(op', s)) # 0
          BY <3>1, <3>2, <4>3, NoUsers
        <5>2. ~Ends(g)
          BY <1>12, <5>1 DEF Ends, CloseDue
        <5>3. QED
          BY <1>9, <1>15, <1>16, <4>1, <4>3, <5>2
      <4>4. QED
        BY <4>2, <4>3
    <3>3. QED
      BY <3>1, <3>2 DEF OpOK
  <2>3. QED
    BY <2>1, <2>2
<1>23. Types'
  BY <1>1, <1>3, <1>6, <1>7, <1>10, <1>16, <1>20 DEF Types
<1>24. QED
  BY <1>6, <1>7, <1>19, <1>21, <1>22, <1>23 DEF IInv

\* Destroying what a destroyed Future holds: its client, its TLS request and
\* what its entry had, where these go.
LEMMA DropAll ==
    ASSUME NEW e, NEW p, NEW t, NEW L, Holding(e, p, t, L), NEW s \in Slots, NEW o \in Ids,
           NEW first \in BOOLEAN, NEW second \in BOOLEAN
    PROVE  Own(IF first THEN [e EXCEPT ![s] = 0] ELSE e, [p EXCEPT ![o] = 0],
               IF second THEN [t EXCEPT ![o] = 0] ELSE t,
               L \ ((IF first THEN {e[s]} ELSE {}) \union {p[o]}
                    \union (IF second THEN {t[o]} ELSE {})))
<1> DEFINE S == IF first THEN {s} ELSE {}
           T == IF second THEN {o} ELSE {}
           D == Of(e, S) \union Of(p, {o}) \union Of(t, T)
<1>1. S \in SUBSET Slots /\ {o} \in SUBSET Ids /\ T \in SUBSET Ids
  OBVIOUS
<1>2. Own(Without(e, S), Without(p, {o}), Without(t, T), L \ D)
  <2> HIDE DEF S, T
  <2>1. QED
    BY <1>1, DropOwn
<1>3. /\ Without(e, S) = IF first THEN [e EXCEPT ![s] = 0] ELSE e
      /\ Without(p, {o}) = [p EXCEPT ![o] = 0]
      /\ Without(t, T) = IF second THEN [t EXCEPT ![o] = 0] ELSE t
  BY DEF Without, Holding
<1>4. D = (IF first THEN {e[s]} ELSE {}) \union {p[o]} \union (IF second THEN {t[o]} ELSE {})
  BY DEF Of
<1> HIDE DEF S, T, D
<1>5. QED
  BY <1>2, <1>3, <1>4

LEMMA DestroyOwning ==
    ASSUME IInv, CInv, NEW o \in Ids, socket_future_destroy(o)
    PROVE  Owning'
<1> DEFINE s == op[o].slot
           F == Finished(o)
           e == F[s]
           g == Given(o, e)
           x == Left(g)
           b == [NoOp EXCEPT !.phase = "gone"]
           E == EntryConns(entry)
           P == Clients(op)
           T == TlsConns(tls)
           first == DropsTls(o, e) \/ Ends(g)
           second == tls[o].references = 1
<1>1. /\ Owns(o) /\ Live(o) /\ op[o].completed /\ s \in Slots
      /\ entry[s].used /\ entry[s].reservations # 0
      /\ entry' = [F EXCEPT ![s] = x]
      /\ live' = live \ ((IF Accepted(o) THEN {} ELSE {op[o].client} \ {0})
                         \union (IF DropsTls(o, e) THEN GoneWith(e) ELSE {})
                         \union (IF Ends(g) THEN GoneWith(g) ELSE {})
                         \union (IF tls[o].references > 0 THEN TlsGone(tls[o]) ELSE {}))
  BY DestroyIs
<1>2. /\ F \in [Slots -> EntryType] /\ Keeps(entry[s], F[s])
      /\ \/ /\ ~Accepted(o)
            /\ \A u \in Slots : u # s => F[u] = entry[u]
         \/ /\ Accepted(o)
            /\ \E t \in Slots :
                 /\ t # s /\ FreeSlot(t) /\ ~entry[t].used
                 /\ Filled(entry[t], F[t], op[o].client)
                 /\ \A u \in Slots : u # s /\ u # t => F[u] = entry[u]
  BY <1>1, FinishedIs
<1>3. Holding(E, P, T, live)
  BY OwningHolds
<1>4. /\ op' = [op EXCEPT ![o] = b]
      /\ tls' = IF tls[o].references > 0 THEN [tls EXCEPT ![o] = ReleaseTls(@)] ELSE tls
  BY DEF socket_future_destroy
<1>5. T' = IF second THEN [T EXCEPT ![o] = 0] ELSE T
  BY <1>1, <1>4, TlsLetGo
<1>6. P' = [P EXCEPT ![o] = 0]
  <2>1. b.client = 0 /\ op \in [Ids -> OpType]
    BY NoneIs DEF OpType, IInv, Types
  <2> HIDE DEF b
  <2>2. QED
    BY <1>4, <2>1 DEF Clients
<1> HIDE DEF F, b
<1>7. e \in EntryType /\ e.reservations # 0 /\ e.conn = entry[s].conn
  BY <1>1, <1>2 DEF Keeps
<1>8. /\ g.conn = IF DropsTls(o, e) THEN 0 ELSE e.conn
      /\ g.generation \in Nat /\ (DropsTls(o, e) => ~Ends(g))
  <2> HIDE DEF e
  <2>1. /\ g \in EntryType /\ g.conn = IF DropsTls(o, e) THEN 0 ELSE e.conn
        /\ DropsTls(o, e) => ~g.close_pending
    BY <1>7, GivenIs
  <2> HIDE DEF g
  <2>2. QED
    BY <2>1 DEF EntryType, Ends
<1> HIDE DEF e, g
<1>9. x.conn = IF first THEN 0 ELSE e.conn
  <2>1. CASE Ends(g)
    <3>1. x.conn = 0
      <4>1. x = Reset(g.generation) /\ g.generation \in Nat
        BY <1>8, <2>1 DEF Left
      <4>2. QED
        BY <4>1, ResetIs
    <3>2. QED
      BY <2>1, <3>1
  <2>2. CASE ~Ends(g)
    <3>1. x = g
      BY <2>2 DEF Left
    <3>2. QED
      BY <1>8, <2>2, <3>1
  <2>3. QED
    BY <2>1, <2>2
<1>10. E' = [u \in Slots |-> IF u = s THEN IF first THEN 0 ELSE E[s] ELSE F[u].conn]
  <2> HIDE DEF x, first
  <2>1. \A u \in Slots : entry'[u].conn = IF u = s THEN x.conn ELSE F[u].conn
    BY <1>1, <1>2
  <2>2. QED
    BY <1>7, <1>9, <2>1 DEF EntryConns
<1>11. 0 \notin live
  BY <1>3, Numbers DEF Holding
<1>12. live' = live \ ((IF Accepted(o) THEN {} ELSE {op[o].client})
                       \union (IF first THEN {E[s]} ELSE {})
                       \union (IF second THEN {T[o]} ELSE {}))
  <2>1. (IF DropsTls(o, e) THEN GoneWith(e) ELSE {})
          \union (IF Ends(g) THEN GoneWith(g) ELSE {})
        = (IF first THEN {E[s]} \ {0} ELSE {})
    BY <1>1, <1>7, <1>8 DEF GoneWith, EntryConns
  <2>2. (IF tls[o].references > 0 THEN TlsGone(tls[o]) ELSE {})
        = (IF second THEN {T[o]} \ {0} ELSE {})
    <3>1. tls[o].references \in 0 .. 2
      BY DEF IInv, Types, TlsType
    <3>2. QED
      BY <3>1 DEF TlsGone, TlsConns
  <2> HIDE DEF first, second, E, T
  <2>3. QED
    BY <1>1, <1>11, <2>1, <2>2
<1>13. P[o] = op[o].client /\ first \in BOOLEAN /\ second \in BOOLEAN
  BY DEF Clients, DropsTls, Ends
<1>14. CASE ~Accepted(o)
  <2>1. \A u \in Slots : u # s => F[u] = entry[u]
    BY <1>2, <1>14
  <2>2. E' = IF first THEN [E EXCEPT ![s] = 0] ELSE E
    <3> HIDE DEF first
    <3>1. QED
      BY <1>10, <2>1 DEF EntryConns
  <2> HIDE DEF first, second, E, T, P
  <2>3. Own(IF first THEN [E EXCEPT ![s] = 0] ELSE E, [P EXCEPT ![o] = 0],
            IF second THEN [T EXCEPT ![o] = 0] ELSE T,
            live \ ((IF first THEN {E[s]} ELSE {}) \union {P[o]}
                    \union (IF second THEN {T[o]} ELSE {})))
    <3>1. s \in Slots
      BY <1>1
    <3> HIDE DEF s
    <3>2. QED
      BY <1>3, <1>13, <3>1, DropAll
  <2>4. live \ ((IF first THEN {E[s]} ELSE {}) \union {P[o]}
                    \union (IF second THEN {T[o]} ELSE {})) = live'
    BY <1>12, <1>13, <1>14
  <2>5. Own(E', P', T', live')
    BY <1>5, <1>6, <2>2, <2>3, <2>4
  <2>6. QED
    BY <2>5 DEF Owning, E, P, T
<1>15. CASE Accepted(o)
  <2>1. PICK t \in Slots :
          /\ t # s /\ ~entry[t].used
          /\ Filled(entry[t], F[t], op[o].client)
          /\ \A u \in Slots : u # s /\ u # t => F[u] = entry[u]
    BY <1>2, <1>15
  <2>2. entry[t].conn = 0
    <3>1. entry[t] = Reset(entry[t].generation) /\ entry[t].generation \in Nat
      BY <2>1 DEF IInv, EntryOK, Types, EntryType
    <3>2. QED
      BY <3>1, ResetIs
  <2> DEFINE M == [E EXCEPT ![t] = P[o]]
             Q == [P EXCEPT ![o] = 0]
  <2>3. E[t] = 0
    BY <2>2 DEF EntryConns
  <2>4. Own(M, Q, T, live)
    <3> HIDE DEF E, P, T
    <3>1. QED
      BY <1>3, <2>3, ClientToEntry
  <2>5. Holding(M, Q, T, live)
    <3> HIDE DEF E, P, T
    <3>1. QED
      BY <1>3, <2>4 DEF Holding
  <2>6. M[s] = E[s] /\ Q[o] = 0 /\ [Q EXCEPT ![o] = 0] = [P EXCEPT ![o] = 0]
    BY <1>1, <2>1 DEF EntryConns, Clients
  <2>7. E' = IF first THEN [M EXCEPT ![s] = 0] ELSE M
    <3>1. F[t].conn = P[o]
      BY <1>13, <2>1 DEF Filled
    <3>2. \A u \in Slots : M[u] = IF u = t THEN P[o] ELSE entry[u].conn
      BY DEF EntryConns
    <3>3. M \in [Slots -> {M[u] : u \in Slots}] /\ M[s] = E[s]
      BY <2>1 DEF EntryConns
    <3> HIDE DEF first, P, E, M
    <3>4. \A u \in Slots : u # s => F[u].conn = M[u]
      BY <2>1, <3>1, <3>2
    <3>5. QED
      BY <1>10, <3>3, <3>4
  <2> HIDE DEF first, second, E, T, P, M, Q
  <2>8. Own(IF first THEN [M EXCEPT ![s] = 0] ELSE M, [Q EXCEPT ![o] = 0],
            IF second THEN [T EXCEPT ![o] = 0] ELSE T,
            live \ ((IF first THEN {M[s]} ELSE {}) \union {Q[o]}
                    \union (IF second THEN {T[o]} ELSE {})))
    <3>1. s \in Slots
      BY <1>1
    <3> HIDE DEF s
    <3>2. QED
      BY <1>13, <2>5, <3>1, DropAll
  <2>9. live \ ((IF first THEN {M[s]} ELSE {}) \union {Q[o]}
                    \union (IF second THEN {T[o]} ELSE {})) = live'
    BY <1>11, <1>12, <1>15, <2>6
  <2>10. Own(E', P', T', live')
    BY <1>5, <1>6, <2>6, <2>7, <2>8, <2>9
  <2>11. QED
    BY <2>10 DEF Owning, E, P, T
<1>16. QED
  BY <1>14, <1>15

LEMMA DestroySafe == ASSUME IInv, NEW o \in Ids, socket_future_destroy(o) PROVE Safe
<1> DEFINE s == op[o].slot
           F == Finished(o)
           e == F[s]
           g == Given(o, e)
           b == [NoOp EXCEPT !.phase = "gone"]
<1>1. IInv'
  BY DestroyKeeps
<1>2. ~Used(op'[o]) /\ \A u \in Ids : u # o => op'[u] = op[u]
  <2>1. b.phase = "gone" /\ op' = [op EXCEPT ![o] = b]
    BY DEF NoOp, socket_future_destroy
  <2> HIDE DEF b
  <2>2. QED
    BY <2>1 DEF IInv, Types, Used
<1>3. ASSUME CInv PROVE CInv'
  <2>1. Owning'
    BY <1>3, DestroyOwning
  <2>2. Single(op)'
    BY <1>2, <1>3 DEF CInv, Single, Connecting
  <2>3. Bare(entry, op)'
    <3>1. SUFFICES ASSUME NEW u \in Ids, Connecting(op'[u]), ~op'[u].completed,
                          entry'[op'[u].slot].protocol = "tls"
                   PROVE  entry'[op'[u].slot].conn = 0
      BY DEF Bare
    <3> DEFINE v == op[u].slot
    <3>2. u # o /\ op'[u] = op[u] /\ v \in Slots /\ entry[v].used
      BY <1>2, <3>1, EntryIs DEF Connecting, IInv, OpOK
    <3>3. /\ entry[s].reservations # 0 /\ s \in Slots
          /\ entry' = [F EXCEPT ![s] = Left(g)]
          /\ F \in [Slots -> EntryType] /\ Keeps(entry[s], e)
          /\ v # s => F[v] = entry[v]
      BY <3>2, DestroyIs, FinishedIs
    <3>4. CASE v # s
      BY <1>3, <3>1, <3>2, <3>3, <3>4 DEF CInv, Bare
    <3>5. CASE v = s
      <4> HIDE DEF F
      <4>1. e \in EntryType /\ e.reservations # 0 /\ e.conn = entry[s].conn
            /\ e.protocol = entry[s].protocol
        BY <3>3 DEF Keeps
      <4>2. entry'[s] = Left(g)
        BY <3>3
      <4> HIDE DEF e
      <4>3. g \in EntryType /\ g.protocol = e.protocol
            /\ g.conn = IF DropsTls(o, e) THEN 0 ELSE e.conn
        BY <4>1, GivenIs
      <4> HIDE DEF g
      <4>4. CASE Ends(g)
        BY <4>2, <4>3, <4>4, ResetIs, <3>1, <3>2, <3>5 DEF Left, EntryType
      <4>5. CASE ~Ends(g)
        BY <1>3, <3>1, <3>2, <3>5, <4>1, <4>2, <4>3, <4>5 DEF CInv, Bare, Left
      <4>6. QED
        BY <4>4, <4>5
    <3>6. QED
      BY <3>4, <3>5
  <2>4. QED
    BY <2>1, <2>2, <2>3 DEF CInv, Owning
<1>4. QED
  BY <1>1, <1>3 DEF Safe

LEMMA InitSafe == Init => IInv /\ CInv
<1> SUFFICES ASSUME Init PROVE IInv /\ CInv
  OBVIOUS
<1>1. /\ \A s \in Slots : entry[s] = Reset(0) /\ handle[s] = 0
      /\ \A o \in Ids : op[o] = NoOp /\ dns[o] = NoDns /\ tls[o] = NoTls
      /\ live = {} /\ faults = 0
  BY DEF Init
<1>2. /\ Reset(0) \in EntryType /\ ~Reset(0).used /\ Reset(0).generation = 0
      /\ Reset(0).conn = 0 /\ Reset(0).reservations = 0
      /\ \A l \in Lanes : Reset(0).active[l] = 0
  BY ResetIs
<1>3. Types
  BY <1>1, <1>2, NoneIs DEF Init, Types
<1>4. ASSUME NEW s \in Slots PROVE EntryOK(s, entry[s], op) /\ handle[s] <= entry[s].generation
  <2>1. Users(op, s) = {}
    BY <1>1, NoneIs DEF Users, Used
  <2>2. Cardinality(Users(op, s)) = 0
    BY <2>1, FS_EmptySet
  <2>3. QED
    BY <1>1, <1>2, <2>2 DEF EntryOK, Runs
<1>5. ASSUME NEW o \in Ids PROVE OpOK(op[o], entry) /\ DnsOK(dns[o], op[o]) /\ TlsOK(tls[o], op[o])
  BY <1>1, NoneIs DEF OpOK, DnsOK, TlsOK, Used
<1>6. IInv
  BY <1>3, <1>4, <1>5 DEF IInv
<1>7. CInv
  BY <1>1, <1>2, NoneIs
     DEF CInv, Own, Single, Bare, Connecting, Used, EntryConns, Clients, TlsConns
<1>8. QED
  BY <1>6, <1>7

LEMMA StutterSafe == ASSUME IInv, UNCHANGED vars PROVE Safe
<1>1. faults' \in Nat
  BY DEF vars, IInv, Types
<1>2. \A o \in Ids : Goes(op[o], op'[o])
  BY OpTyped DEF vars
<1>3. op' \in [Ids -> OpType] /\ dns' = dns
  BY DEF vars, IInv, Types
<1>4. tls' \in [Ids -> TlsType] /\ \A u \in Ids : SameTls(tls[u], tls'[u])
  BY TlsStays DEF vars
<1>5. /\ \A o \in Ids : Mild(op[o], op'[o]) /\ ClientOK(op'[o])
      /\ \A o \in Ids : DnsOK(dns'[o], op'[o]) /\ TlsOK(tls'[o], op'[o])
      /\ Clients(op)' = Clients(op) /\ TlsConns(tls)' = TlsConns(tls)
  BY <1>1, <1>2, <1>3, <1>4, FuturesMove
<1>6. Types'
  BY DEF vars, IInv, Types
<1>7. /\ \A s \in Slots : Evolves(s, entry[s], entry'[s], op')
                          /\ handle'[s] <= entry'[s].generation
      /\ EntryConns(entry)' = EntryConns(entry)
      /\ \A s \in Slots : Tied(entry[s], entry'[s])
  BY EntryStays DEF vars
<1>8. live' = live
  BY DEF vars
<1>9. QED
  BY <1>5, <1>6, <1>7, <1>8, QuietSafe DEF Quiet, MildStep, Still

LEMMA PollSafe == ASSUME IInv, NEW o \in Ids, Poll(o) PROVE Safe
<1>1. CASE poll_cancelled(o)
  BY <1>1, PollCancelledOK, QuietSafe
<1>2. CASE poll_resolving(o)
  BY <1>2, PollResolvingOK, QuietSafe
<1>3. CASE poll_connect(o)
  BY <1>3, PollConnectOK, QuietSafe
<1>4. CASE poll_connect_tls(o)
  BY <1>4, PollConnectTlsSafe
<1>5. CASE poll_accept(o)
  BY <1>5, PollAcceptSafe
<1>6. CASE poll_transfer(o)
  BY <1>6, PollTransferSafe
<1>7. QED
  BY <1>1, <1>2, <1>3, <1>4, <1>5, <1>6 DEF Poll

LEMMA StepSafe == ASSUME IInv, [Next]_vars PROVE IInv' /\ (~Overlap /\ CInv => CInv')
<1>1. CASE UNCHANGED vars
  BY <1>1, StutterSafe DEF Safe
<1>2. ASSUME NEW s \in Slots, NEW protocol \in Protocols, socket_open_handle(s, protocol)
      PROVE  Safe
  BY <1>2, OpenSafe
<1>3. ASSUME NEW s \in Slots, socket_handle_close(s) PROVE Safe
  BY <1>3, CloseSafe
<1>4. ASSUME NEW s \in Slots, NEW kind \in {"connect", "accept", "send", "recv", "sendto"},
             NEW timed \in BOOLEAN, socket_future_allocate(s, kind, timed)
      PROVE  IInv' /\ (~Overlap /\ CInv => CInv')
  BY <1>4, AllocateSafe DEF Kinds
<1>5. CASE deinit_socket_runtime
  BY <1>5, DeinitSafe DEF Safe
<1>6. ASSUME NEW o \in Ids,
             \/ socket_future_start(o) \/ socket_future_start_fails(o) \/ Poll(o)
             \/ socket_future_cancel(o) \/ socket_future_destroy(o)
             \/ socket_dns_found(o) \/ tls_worker(o) \/ deadline(o)
      PROVE  Safe
  <2>1. CASE socket_future_start(o)
    BY <2>1, FutureStartSafe
  <2>2. CASE socket_future_start_fails(o)
    BY <2>2, FutureStartFailsSafe
  <2>3. CASE Poll(o)
    BY <2>3, PollSafe
  <2>4. CASE socket_future_cancel(o)
    BY <2>4, CancelOK, QuietSafe
  <2>5. CASE socket_future_destroy(o)
    BY <2>5, DestroySafe
  <2>6. CASE socket_dns_found(o)
    BY <2>6, DnsFoundOK, QuietSafe
  <2>7. CASE tls_worker(o)
    BY <2>7, WorkerSafe
  <2>8. CASE deadline(o)
    BY <2>8, DeadlineOK, QuietSafe
  <2>9. QED
    BY <1>6, <2>1, <2>2, <2>3, <2>4, <2>5, <2>6, <2>7, <2>8
<1>7. Safe => IInv' /\ (~Overlap /\ CInv => CInv')
  BY DEF Safe
<1>8. QED
  BY <1>1, <1>2, <1>3, <1>4, <1>5, <1>6, <1>7 DEF Next

-------------------------------------------------------------------------------
(* What the invariants say. *)

LEMMA InvTypeOK == IInv => TypeOK
  BY DEF IInv, Types, TypeOK, EntryType, OpType, DnsType, TlsType

LEMMA InvRequests == IInv => RequestsOutlive
<1> SUFFICES ASSUME IInv, NEW o \in Ids
             PROVE  /\ dns[o].asked /\ (~dns[o].completed \/ Owns(o)) => dns[o].references > 0
                    /\ tls[o].pc \in {"start", "connect"} => tls[o].references > 0
                    /\ Owns(o) /\ tls[o].pc # "none" => tls[o].references > 0
  BY DEF RequestsOutlive
<1>1. DnsOK(dns[o], op[o]) /\ TlsOK(tls[o], op[o])
  BY DEF IInv
<1>2. dns[o].asked => dns[o].references > 0
  BY <1>1, NoneIs DEF DnsOK, Referenced
<1>3. tls[o].pc # "none" => tls[o].references > 0
  BY <1>1 DEF TlsOK, Referenced
<1>4. QED
  BY <1>2, <1>3

LEMMA InvEntries == IInv => EntryOutlives
<1> SUFFICES ASSUME IInv PROVE EntryOutlives
  OBVIOUS
<1>1. \A o \in Ids : Owns(o) => Live(o)
  BY DEF IInv, OpOK, Owns, Used, Live, Entry
<1>2. ASSUME NEW s \in Slots, entry[s].used
      PROVE  /\ entry[s].reservations = Cardinality({o \in Ids : Owns(o) /\ op[o].slot = s})
             /\ \A l \in Lanes : entry[s].active[l] # 0 =>
                  LET a == op[entry[s].active[l]]
                  IN a.phase = "started" /\ a.slot = s /\ LaneOf(a.kind) = l
  <2>1. EntryOK(s, entry[s], op)
    BY DEF IInv
  <2>2. Users(op, s) = {o \in Ids : Owns(o) /\ op[o].slot = s}
    BY DEF Users, Used, Owns
  <2>3. QED
    BY <2>1, <2>2 DEF EntryOK, Runs
<1>3. QED
  BY <1>1, <1>2 DEF EntryOutlives

LEMMA InvOwned == ASSUME IInv, CInv PROVE ConnectionsOwned
<1> DEFINE A(c) == {s \in Slots : entry[s].conn = c}
           B(c) == {o \in Ids : op[o].client = c}
           C(c) == {o \in Ids : tls[o].conn = c}
<1> SUFFICES ASSUME NEW c \in Conns
             PROVE  Cardinality(A(c)) + Cardinality(B(c)) + Cardinality(C(c))
                    = IF c \in live THEN 1 ELSE 0
  BY DEF ConnectionsOwned
<1>1. c # 0
  BY Numbers
<1>2. /\ \A s \in Slots : entry[s].conn = c =>
            /\ c \in live /\ \A u \in Slots : entry[u].conn = c => u = s
            /\ \A o \in Ids : op[o].client # c /\ tls[o].conn # c
      /\ \A o \in Ids : op[o].client = c =>
            /\ c \in live /\ \A u \in Ids : op[u].client = c => u = o
            /\ \A u \in Ids : tls[u].conn # c
      /\ \A o \in Ids : tls[o].conn = c =>
            c \in live /\ \A u \in Ids : tls[u].conn = c => u = o
      /\ c \in live => \/ \E s \in Slots : entry[s].conn = c
                       \/ \E o \in Ids : op[o].client = c \/ tls[o].conn = c
  BY <1>1 DEF CInv, Own, EntryConns, Clients, TlsConns
<1>3. Cardinality({}) = 0 /\ \A x : Cardinality({x}) = 1
  BY FS_EmptySet, FS_Singleton
<1>4. CASE \E s \in Slots : entry[s].conn = c
  <2>1. PICK s \in Slots : entry[s].conn = c
    BY <1>4
  <2>2. A(c) = {s} /\ B(c) = {} /\ C(c) = {} /\ c \in live
    BY <1>2, <2>1
  <2>3. Cardinality(A(c)) = 1 /\ Cardinality(B(c)) = 0 /\ Cardinality(C(c)) = 0
    BY <1>3, <2>2
  <2> HIDE DEF A, B, C
  <2>4. QED
    BY <2>2, <2>3
<1>5. CASE \E o \in Ids : op[o].client = c
  <2>1. PICK o \in Ids : op[o].client = c
    BY <1>5
  <2>2. A(c) = {} /\ B(c) = {o} /\ C(c) = {} /\ c \in live
    BY <1>2, <2>1
  <2>3. Cardinality(A(c)) = 0 /\ Cardinality(B(c)) = 1 /\ Cardinality(C(c)) = 0
    BY <1>3, <2>2
  <2> HIDE DEF A, B, C
  <2>4. QED
    BY <2>2, <2>3
<1>6. CASE \E o \in Ids : tls[o].conn = c
  <2>1. PICK o \in Ids : tls[o].conn = c
    BY <1>6
  <2>2. A(c) = {} /\ B(c) = {} /\ C(c) = {o} /\ c \in live
    BY <1>2, <2>1
  <2>3. Cardinality(A(c)) = 0 /\ Cardinality(B(c)) = 0 /\ Cardinality(C(c)) = 1
    BY <1>3, <2>2
  <2> HIDE DEF A, B, C
  <2>4. QED
    BY <2>2, <2>3
<1>7. CASE /\ ~\E s \in Slots : entry[s].conn = c
           /\ ~\E o \in Ids : op[o].client = c
           /\ ~\E o \in Ids : tls[o].conn = c
  <2>1. A(c) = {} /\ B(c) = {} /\ C(c) = {} /\ c \notin live
    BY <1>2, <1>7
  <2> HIDE DEF A, B, C
  <2>2. QED
    BY <2>1, FS_EmptySet
<1>8. QED
  BY <1>4, <1>5, <1>6, <1>7

\* The resolver and the worker only touch a request that exists, and a socket
\* outlives its operations: the entry of a captured Future is neither closed nor
\* reused, its reservations are counted and a lane runs one Future (socket.c).
THEOREM RequestsAreSafe == Spec => [](TypeOK /\ RequestsOutlive /\ EntryOutlives)
<1>1. Init => IInv
  BY InitSafe
<1>2. IInv /\ [Next]_vars => IInv'
  BY StepSafe
<1>3. IInv => TypeOK /\ RequestsOutlive /\ EntryOutlives
  BY InvTypeOK, InvRequests, InvEntries
<1>4. QED
  BY <1>1, <1>2, <1>3, PTL DEF Spec

\* Every connection that exists has exactly one owner and nobody owns one that
\* was destroyed, when a script connects a socket once at a time and no TLS
\* socket that still has a context (the pattern left out leaks, `Overlap').
THEOREM SocketsAreSafe == ~Overlap => (Spec => []SocketsSafe)
<1> SUFFICES ASSUME ~Overlap PROVE Spec => []SocketsSafe
  OBVIOUS
<1> DEFINE Inv == IInv /\ CInv
<1>1. Init => Inv
  BY InitSafe
<1>2. Inv /\ [Next]_vars => Inv'
  BY StepSafe
<1>3. Inv => SocketsSafe
  BY InvTypeOK, InvRequests, InvEntries, InvOwned DEF SocketsSafe
<1> HIDE DEF Inv
<1>4. QED
  BY <1>1, <1>2, <1>3, PTL DEF Spec
=============================================================================
