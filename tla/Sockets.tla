------------------------------- MODULE Sockets -------------------------------
(***************************************************************************)
(* TCP, TLS and UDP sockets (socket.c): a table of handles, four lanes of  *)
(* Futures per handle, a DNS request answered on the TCP/IP task and a TLS *)
(* handshake on a worker task.  Both keep a reference of their own to the  *)
(* request they answer, for the Future may be gone by then.  A connection  *)
(* (a descriptor or a TLS context) is a number of `live'.                  *)
(***************************************************************************)
EXTENDS Naturals, FiniteSets

CONSTANTS
    Slots,       \* CONFIG_ESP32_MQUICKJS_SOCKET_MAX_HANDLES
    Protocols,   \* a subset of {"tcp", "tls", "listener", "udp"}
    Overlap,     \* a script connects a socket that is already connecting, or a TLS
                 \* socket again that has lost its peer
    MaxOpens, MaxOps, MaxConns, MaxFaults   \* bounds

ASSUME SocketsAssumption ==
    /\ Slots # {} /\ Slots \subseteq Nat
    /\ Protocols \subseteq {"tcp", "tls", "listener", "udp"}
    /\ {MaxOpens, MaxOps, MaxConns, MaxFaults} \subseteq Nat
    /\ Overlap \in BOOLEAN

VARIABLES
    entry,       \* s_socket.entries
    handle,      \* generation of the live JavaScript handle of a slot, or 0
    op,          \* Futures, in the order of capture
    dns, tls,    \* the DNS and the TLS request of each Future
    live,        \* connections that exist
    faults

vars == <<entry, handle, op, dns, tls, live, faults>>

Ids == 1 .. MaxOps
Conns == 1 .. MaxConns
Lanes == {"control", "accept", "tx", "rx"}

LaneOf(kind) == CASE kind = "connect" -> "control" [] kind = "accept" -> "accept"
                  [] kind \in {"send", "sendto"} -> "tx" [] OTHER -> "rx"
KindsOf(protocol) == CASE protocol = "listener" -> {"accept"}
                       [] protocol = "udp" -> {"sendto", "recv"}
                       [] OTHER -> {"connect", "send", "recv"}

\* socket_reset_entry keeps the generation.
Reset(generation) ==
    [used |-> FALSE, generation |-> generation, protocol |-> "tcp", conn |-> 0,
     connected |-> FALSE, close_pending |-> FALSE, reservations |-> 0,
     active |-> [l \in Lanes |-> 0]]
NoOp == [phase |-> "none", kind |-> "connect", slot |-> CHOOSE s \in Slots : TRUE,
         generation |-> 0, late |-> FALSE, cancelled |-> FALSE, completed |-> FALSE,
         err |-> FALSE, client |-> 0]
NoDns == [asked |-> FALSE, references |-> 0, completed |-> FALSE, ok |-> FALSE]
NoTls == [references |-> 0, completed |-> FALSE, cancel |-> FALSE, conn |-> 0, pc |-> "none"]

Init ==
    /\ entry = [s \in Slots |-> Reset(0)] /\ handle = [s \in Slots |-> 0]
    /\ op = [o \in Ids |-> NoOp] /\ dns = [o \in Ids |-> NoDns] /\ tls = [o \in Ids |-> NoTls]
    /\ live = {} /\ faults = 0

Fault == faults < MaxFaults /\ faults' = faults + 1
Fresh == CHOOSE c \in Conns \ live : \A d \in Conns \ live : c <= d
HaveConn == live # Conns
-------------------------------------------------------------------------------
(* The table. *)

Entry(o) == entry[op[o].slot]
Live(o) == Entry(o).used /\ Entry(o).generation = op[o].generation
Owns(o) == op[o].phase \in {"queued", "started"}
Busy(e) == \E l \in Lanes : e.active[l] # 0

\* socket_close_entry: the TLS connection or the descriptor goes, then the slot.
Closed(e) == Reset(e.generation)
GoneWith(e) == {e.conn} \ {0}

\* socket_allocate_entry: the first free slot.
FreeSlot(s) == ~entry[s].used /\ \A t \in Slots : t < s => entry[t].used

\* socket_open_handle; a TLS socket has no connection before connect.
socket_open_handle(s, protocol) ==
    /\ FreeSlot(s) /\ handle[s] = 0 /\ entry[s].generation < MaxOpens
    /\ \/ /\ protocol # "tls" => HaveConn
          /\ LET c == IF protocol = "tls" THEN 0 ELSE Fresh
             IN /\ entry' = [entry EXCEPT ![s] =
                      [Reset(entry[s].generation + 1)
                          EXCEPT !.used = TRUE, !.protocol = protocol, !.conn = c]]
                /\ live' = live \union ({c} \ {0})
          /\ handle' = [handle EXCEPT ![s] = entry[s].generation + 1]
          /\ UNCHANGED faults
       \/ \* socket, bind, listen or the object failed
          /\ Fault /\ entry' = [entry EXCEPT ![s] = Reset(entry[s].generation + 1)]
          /\ UNCHANGED <<handle, live>>
    /\ UNCHANGED <<op, dns, tls>>

\* socket_future_cancel: ask the background work to stop and wait for it.
\* Mutation: a cancelled Future waits for the request to be freed.
Background_held(o) == dns[o].references > 0 \/ tls[o].references > 0

Background(o) == \/ dns[o].references = 2 /\ ~dns[o].completed
                 \/ tls[o].references = 2 /\ ~tls[o].completed

Cancelled(o) == IF op[o].completed \/ op[o].cancelled THEN op[o]
                ELSE [op[o] EXCEPT !.cancelled = TRUE, !.completed = ~Background(o)]

\* socket_request_close: the active Future of every lane is cancelled.
ActiveOf(s) == {entry[s].active[l] : l \in Lanes} \ {0}

\* Mutation: the entry goes although Futures hold reservations.
CloseDue_idle(e) == ~Busy(e)

CloseDue(e) == ~Busy(e) /\ e.reservations = 0

RequestClose(s) ==
    IF entry[s].close_pending THEN UNCHANGED <<entry, op, tls, live>>
    ELSE /\ op' = [o \in Ids |-> IF o \in ActiveOf(s) THEN Cancelled(o) ELSE op[o]]
         /\ tls' = [o \in Ids |-> IF o \in ActiveOf(s) /\ ~op[o].completed
                                  THEN [tls[o] EXCEPT !.cancel = TRUE] ELSE tls[o]]
         /\ IF CloseDue(entry[s])
            THEN /\ entry' = [entry EXCEPT ![s] = Closed(@)]
                 /\ live' = live \ GoneWith(entry[s])
            ELSE /\ entry' = [entry EXCEPT ![s].close_pending = TRUE]
                 /\ UNCHANGED live

\* close() and the finalizer; a Future roots the handle it works on.
socket_handle_close(s) ==
    /\ handle[s] # 0
    /\ handle' = [handle EXCEPT ![s] = 0]
    /\ IF entry[s].used /\ entry[s].generation = handle[s] THEN RequestClose(s)
       ELSE UNCHANGED <<entry, op, tls, live>>
    /\ UNCHANGED <<dns, faults>>

\* esp32_mquickjs_deinit_socket_runtime, after the Futures are gone.
deinit_socket_runtime ==
    /\ \A o \in Ids : ~Owns(o)
    /\ \E s \in Slots : entry[s].used
    /\ entry' = [s \in Slots |-> Closed(entry[s])]
    /\ live' = live \ UNION {GoneWith(entry[s]) : s \in Slots}
    /\ handle' = [s \in Slots |-> 0]
    /\ UNCHANGED <<op, dns, tls, faults>>
-------------------------------------------------------------------------------
(* Futures: capture, start. *)

\* socket_require_handle and the checks of the prepare functions.
Allowed(s, kind) ==
    /\ handle[s] # 0 /\ entry[s].used /\ entry[s].generation = handle[s]
    /\ ~entry[s].close_pending /\ kind \in KindsOf(entry[s].protocol)
    /\ kind = "connect" =>
          /\ ~entry[s].connected
          /\ \/ Overlap
             \/ /\ ~\E o \in Ids : Owns(o) /\ op[o].kind = "connect" /\ op[o].slot = s
                /\ entry[s].protocol = "tls" => entry[s].conn = 0
    /\ kind = "send" => entry[s].connected

socket_future_allocate(s, kind, timed) ==
    /\ Allowed(s, kind)
    /\ \E o \in Ids :
          /\ \A p \in Ids : op[p].phase = "none" <=> p >= o
          /\ op' = [op EXCEPT ![o] = [NoOp EXCEPT !.phase = "queued", !.kind = kind,
                      !.slot = s, !.generation = entry[s].generation, !.late = ~timed]]
    /\ entry' = [entry EXCEPT ![s].reservations = @ + 1]
    /\ UNCHANGED <<handle, dns, tls, live, faults>>

Lane(o) == LaneOf(op[o].kind)
First(o) == \A p \in Ids \ {o} :
    Owns(p) /\ op[p].slot = op[o].slot /\ op[p].generation = op[o].generation
      /\ Lane(p) = Lane(o) => op[p].phase # "started" /\ p > o

NeedsResolution(o) == op[o].kind \in {"connect", "sendto"}
Done(o) == [op[o] EXCEPT !.completed = TRUE]
Failed(o) == [op[o] EXCEPT !.completed = TRUE, !.err = TRUE]

\* socket_future_complete_nonblocking and the deadline of socket_future_step: a
\* connect fails, a send reports what was sent, the rest come back empty.
Expired(o) == IF op[o].kind = "connect" THEN Failed(o) ELSE Done(o)

\* socket_future_start on an entry that is closing completes as cancelled; a
\* connect without a timeout fails at once, and the other kinds have one look
\* (a poll whose deadline has passed).
socket_future_start(o) ==
    /\ op[o].phase = "queued" /\ ~op[o].completed /\ First(o) /\ Live(o)
    /\ IF Entry(o).close_pending
       THEN /\ op' = [op EXCEPT ![o].phase = "started", ![o].cancelled = TRUE,
                                ![o].completed = TRUE]
            /\ UNCHANGED <<entry, dns>>
       ELSE /\ entry' = [entry EXCEPT ![op[o].slot].active[Lane(o)] = o]
            /\ LET now == op[o].late /\ op[o].kind = "connect"
               IN /\ op' = [op EXCEPT ![o] = [(IF now THEN Expired(o) ELSE op[o])
                                              EXCEPT !.phase = "started"]]
                  /\ dns' = IF NeedsResolution(o) /\ ~now
                            THEN [dns EXCEPT ![o].asked = TRUE, ![o].references = 2] ELSE dns
    /\ UNCHANGED <<handle, tls, live, faults>>

\* The timer or the DNS request could not be made: the caller destroys it.
socket_future_start_fails(o) ==
    /\ op[o].phase = "queued" /\ ~op[o].completed /\ First(o) /\ Live(o)
    /\ ~Entry(o).close_pending /\ Fault
    /\ entry' = [entry EXCEPT ![op[o].slot].active[Lane(o)] = o]
    /\ op' = [op EXCEPT ![o].phase = "started", ![o].completed = TRUE, ![o].err = TRUE]
    /\ UNCHANGED <<handle, dns, tls, live>>
-------------------------------------------------------------------------------
(* Background work. *)

\* socket_dns_request_release; a request that is answered and freed is forgotten.
Forget(r, none) == IF r.references = 0 /\ r.completed THEN none ELSE r
DropDns(o) == LET r == dns[o]
              IN [dns EXCEPT ![o] = Forget([r EXCEPT !.references = r.references - 1], NoDns)]

\* socket_future_publish_resolution on the TCP/IP task.
socket_dns_found(o) ==
    /\ dns[o].asked /\ ~dns[o].completed
    /\ \E ok \in BOOLEAN :
          LET r == dns[o]
          IN dns' = [dns EXCEPT ![o] = Forget([r EXCEPT !.references = r.references - 1,
                                                 !.completed = TRUE, !.ok = ok], NoDns)]
    /\ UNCHANGED <<entry, handle, op, tls, live, faults>>

\* socket_tls_request_release: the last reference destroys what was not taken.
ReleaseTls(r) == Forget([r EXCEPT !.references = r.references - 1,
                                  !.conn = IF r.references = 1 THEN 0 ELSE r.conn], NoTls)
TlsGone(r) == IF r.references = 1 THEN {r.conn} \ {0} ELSE {}

\* socket_tls_connect_worker: the context is made, the handshake runs until it
\* is done, fails, is cancelled or is out of time.
socket_tls_connect_worker(o) ==
    \/ /\ tls[o].pc = "start"
       /\ IF tls[o].cancel \/ ~HaveConn
          THEN tls' = [tls EXCEPT ![o].pc = "failed"] /\ UNCHANGED live
          ELSE tls' = [tls EXCEPT ![o].pc = "connect", ![o].conn = Fresh]
               /\ live' = live \union {Fresh}
    \/ /\ tls[o].pc = "connect"
       /\ \/ ~tls[o].cancel /\ tls' = [tls EXCEPT ![o].pc = "ready"]
          \/ tls' = [tls EXCEPT ![o].pc = "failed"]
       /\ UNCHANGED live
    \/ /\ tls[o].pc \in {"ready", "failed"} /\ ~tls[o].completed
       /\ tls' = [tls EXCEPT ![o] = ReleaseTls([@ EXCEPT !.completed = TRUE])]
       /\ live' = live \ TlsGone(tls[o])
tls_worker(o) ==
    /\ socket_tls_connect_worker(o)
    /\ UNCHANGED <<entry, handle, op, dns, faults>>

\* The deadline passes.
deadline(o) ==
    /\ op[o].phase = "started" /\ ~op[o].late /\ ~op[o].completed
    /\ op' = [op EXCEPT ![o].late = TRUE]
    /\ UNCHANGED <<entry, handle, dns, tls, live, faults>>
-------------------------------------------------------------------------------
(* socket_future_poll and the steps of each kind. *)

Polls(o) == op[o].phase = "started" /\ ~op[o].completed
Pending(o) == IF op[o].late THEN Expired(o) ELSE op[o]
Resolved(o) == NeedsResolution(o) => dns[o].completed

\* A cancelled Future waits for its background work.
poll_cancelled(o) ==
    /\ Polls(o) /\ op[o].cancelled
    /\ op' = [op EXCEPT ![o].completed = ~Background(o)]
    /\ UNCHANGED <<entry, handle, dns, tls, live, faults>>

\* Before the name is resolved only a connect looks at its deadline.
poll_resolving(o) ==
    /\ Polls(o) /\ ~op[o].cancelled /\ NeedsResolution(o)
    /\ \/ /\ ~dns[o].completed /\ op[o].kind = "connect" /\ op[o].late
       \/ dns[o].completed /\ ~dns[o].ok
    /\ op' = [op EXCEPT ![o] = Failed(o)]
    /\ UNCHANGED <<entry, handle, dns, tls, live, faults>>

Steps(o) == /\ Polls(o) /\ ~op[o].cancelled /\ Resolved(o)
            /\ NeedsResolution(o) => dns[o].ok

\* socket_future_step_connect on a plain socket.
poll_connect(o) ==
    /\ Steps(o) /\ op[o].kind = "connect" /\ Live(o) /\ Entry(o).protocol = "tcp"
    /\ \E new \in {Done(o), Failed(o), Pending(o)} :
          op' = [op EXCEPT ![o] = new]
    /\ UNCHANGED <<entry, handle, dns, tls, live, faults>>

\* On a TLS socket: start the worker, then take the context it made.
Taken(o) == [tls EXCEPT ![o].conn = 0]

poll_connect_tls(o) ==
    /\ Steps(o) /\ op[o].kind = "connect" /\ Live(o) /\ Entry(o).protocol = "tls"
    /\ \/ /\ tls[o].references = 0 /\ tls[o].pc = "none"
          /\ \/ /\ tls' = [tls EXCEPT ![o] = [NoTls EXCEPT !.references = 2, !.pc = "start"]]
                /\ op' = [op EXCEPT ![o] = Pending(o)] /\ UNCHANGED faults
             \/ Fault /\ op' = [op EXCEPT ![o] = Failed(o)] /\ UNCHANGED tls
          /\ UNCHANGED entry
       \/ /\ tls[o].references > 0 /\ ~tls[o].completed
          /\ op' = [op EXCEPT ![o] = Pending(o)] /\ UNCHANGED <<entry, tls, faults>>
       \/ /\ tls[o].completed /\ tls[o].pc = "failed"
          /\ op' = [op EXCEPT ![o] = Failed(o)] /\ UNCHANGED <<entry, tls, faults>>
       \/ /\ tls[o].completed /\ tls[o].pc = "ready"
          /\ entry' = [entry EXCEPT ![op[o].slot].conn = tls[o].conn]
          /\ tls' = Taken(o)
          /\ op' = [op EXCEPT ![o] = Done(o)] /\ UNCHANGED faults
    /\ UNCHANGED <<handle, dns, live>>

\* socket_future_step_accept.
poll_accept(o) ==
    /\ Steps(o) /\ op[o].kind = "accept" /\ Live(o)
    /\ \/ /\ HaveConn /\ live' = live \union {Fresh}
          /\ op' = [op EXCEPT ![o] = [Done(o) EXCEPT !.client = Fresh]]
       \/ /\ \E new \in {Failed(o), Pending(o)} : op' = [op EXCEPT ![o] = new]
          /\ UNCHANGED live
    /\ UNCHANGED <<entry, handle, dns, tls, faults>>

\* socket_future_step_send, _receive and _udp_sendto: bytes move, or the peer
\* is gone, or nothing happens yet.
poll_transfer(o) ==
    /\ Steps(o) /\ op[o].kind \in {"send", "recv", "sendto"} /\ Live(o)
    /\ LET stream == Entry(o).protocol # "udp"
           down == [entry EXCEPT ![op[o].slot].connected = FALSE]
       IN IF stream /\ op[o].kind = "recv" /\ ~Entry(o).connected
          THEN op' = [op EXCEPT ![o] = Done(o)] /\ UNCHANGED entry
          ELSE \/ op' = [op EXCEPT ![o] = Done(o)] /\ UNCHANGED entry
               \/ /\ op' = [op EXCEPT ![o] = Failed(o)]
                  /\ entry' = IF stream THEN down ELSE entry
               \/ /\ stream /\ op[o].kind = "recv" /\ entry' = down
                  /\ op' = [op EXCEPT ![o] = Done(o)]
               \/ op[o].kind # "sendto" /\ op' = [op EXCEPT ![o] = Pending(o)] /\ UNCHANGED entry
    /\ UNCHANGED <<handle, dns, tls, live, faults>>

\* Future.cancel, in the lane or running.
socket_future_cancel(o) ==
    /\ Owns(o) /\ ~op[o].completed /\ ~op[o].cancelled
    /\ op' = [op EXCEPT ![o] = Cancelled(o)]
    /\ tls' = [tls EXCEPT ![o].cancel = TRUE]
    /\ UNCHANGED <<entry, handle, dns, live, faults>>
-------------------------------------------------------------------------------
(* socket_future_finish, then socket_future_destroy, of a completed Future. *)

\* What finish leaves in the table: a connect marks the entry, an accept fills
\* a new one unless the table is full.
Good(o) == ~op[o].cancelled /\ ~op[o].err /\ Live(o)

Finished(o) ==
    IF Good(o) /\ op[o].kind = "connect"
    THEN [entry EXCEPT ![op[o].slot].connected = TRUE]
    ELSE IF Good(o) /\ op[o].client # 0 /\ \E s \in Slots : FreeSlot(s)
    THEN LET t == CHOOSE s \in Slots : FreeSlot(s)
         IN [entry EXCEPT ![t] = [Reset(entry[t].generation + 1)
                EXCEPT !.used = TRUE, !.conn = op[o].client, !.connected = TRUE]]
    ELSE entry

Accepted(o) == Good(o) /\ op[o].client # 0 /\ \E s \in Slots : FreeSlot(s)

\* A TLS connect that did not get through closes what the entry has.
DropsTls(o, e) == /\ op[o].kind = "connect" /\ e.protocol = "tls"
                  /\ ~e.connected /\ ~e.close_pending

Given(o, e) ==
    LET f == [e EXCEPT !.active = [l \in Lanes |-> IF l = Lane(o) /\ e.active[l] = o
                                                   THEN 0 ELSE e.active[l]],
                       !.reservations = e.reservations - 1]
    IN IF DropsTls(o, f) THEN [f EXCEPT !.conn = 0] ELSE f

socket_future_destroy(o) ==
    /\ Owns(o) /\ op[o].completed
    /\ LET s == op[o].slot
           e == Finished(o)[s]
           g == Given(o, e)
           closes == g.close_pending /\ CloseDue(g)
       IN /\ entry' = IF ~Live(o) THEN Finished(o)
                      ELSE [Finished(o) EXCEPT ![s] = IF closes THEN Closed(g) ELSE g]
          /\ live' = live \ ((IF Accepted(o) THEN {} ELSE {op[o].client} \ {0})
                         \union (IF Live(o) /\ DropsTls(o, e) THEN GoneWith(e) ELSE {})
                         \union (IF Live(o) /\ closes THEN GoneWith(g) ELSE {})
                         \union (IF tls[o].references > 0 THEN TlsGone(tls[o]) ELSE {}))
          /\ handle' = [t \in Slots |-> IF Accepted(o) /\ FreeSlot(t)
                                        THEN entry[t].generation + 1 ELSE handle[t]]
    /\ dns' = IF dns[o].references > 0 THEN DropDns(o) ELSE dns
    /\ tls' = IF tls[o].references > 0 THEN [tls EXCEPT ![o] = ReleaseTls(@)] ELSE tls
    /\ op' = [op EXCEPT ![o] = [NoOp EXCEPT !.phase = "gone"]]
    /\ UNCHANGED faults
-------------------------------------------------------------------------------
Poll(o) == poll_cancelled(o) \/ poll_resolving(o) \/ poll_connect(o) \/ poll_connect_tls(o)
           \/ poll_accept(o) \/ poll_transfer(o)

Next ==
    \/ \E s \in Slots :
          \/ \E protocol \in Protocols : socket_open_handle(s, protocol)
          \/ socket_handle_close(s)
          \/ \E kind \in {"connect", "accept", "send", "recv", "sendto"}, timed \in BOOLEAN :
                socket_future_allocate(s, kind, timed)
    \/ deinit_socket_runtime
    \/ \E o \in Ids : socket_future_start(o) \/ socket_future_start_fails(o)
          \/ Poll(o) \/ socket_future_cancel(o) \/ socket_future_destroy(o)
          \/ socket_dns_found(o) \/ tls_worker(o) \/ deadline(o)

\* The pump starts, polls and ends Futures; the resolver answers; the worker runs.
Weak(k) == \/ k = 1 /\ \E o \in Ids : socket_future_start(o) \/ socket_future_destroy(o)
           \/ k = 2 /\ \E o \in Ids : socket_dns_found(o)
           \/ k = 3 /\ \E o \in Ids : tls_worker(o)
           \/ k \in 4 .. MaxOps + 3 /\ poll_cancelled(k - 3)
Fairness == \A k \in 1 .. MaxOps + 3 : WF_vars(Weak(k))

Spec == Init /\ [][Next]_vars
FairSpec == Spec /\ Fairness
-------------------------------------------------------------------------------
TypeOK ==
    /\ live \subseteq Conns
    /\ \A s \in Slots : entry[s].reservations \in Nat /\ handle[s] \in 0 .. entry[s].generation
    /\ \A o \in Ids : /\ op[o].phase \in {"none", "queued", "started", "gone"}
                      /\ dns[o].references \in 0 .. 2 /\ tls[o].references \in 0 .. 2

\* Every connection that exists has exactly one owner, a handle, an accept on
\* its way or a TLS request, and nobody owns one that was destroyed.
ConnectionsOwned ==
    LET owners(c) == Cardinality({s \in Slots : entry[s].conn = c})
                     + Cardinality({o \in Ids : op[o].client = c})
                     + Cardinality({o \in Ids : tls[o].conn = c})
    IN \A c \in Conns : owners(c) = IF c \in live THEN 1 ELSE 0

\* The resolver and the worker only touch a request that still exists, whoever
\* of the Future and the background work lets go first.
RequestsOutlive ==
    \A o \in Ids :
        /\ dns[o].asked /\ (~dns[o].completed \/ Owns(o)) => dns[o].references > 0
        /\ tls[o].pc \in {"start", "connect"} => tls[o].references > 0
        /\ Owns(o) /\ tls[o].pc # "none" => tls[o].references > 0

\* A socket outlives its operations: the entry of a captured Future is not
\* closed or reused, its reservations are counted, and a lane runs one Future.
EntryOutlives ==
    /\ \A o \in Ids : Owns(o) => Live(o)
    /\ \A s \in Slots : entry[s].used =>
          /\ entry[s].reservations = Cardinality({o \in Ids : Owns(o) /\ op[o].slot = s})
          /\ \A l \in Lanes : entry[s].active[l] # 0 =>
                LET a == op[entry[s].active[l]]
                IN a.phase = "started" /\ a.slot = s /\ LaneOf(a.kind) = l

SocketsSafe == TypeOK /\ ConnectionsOwned /\ RequestsOutlive /\ EntryOutlives

\* A closed socket is released once its operations have ended, and they do end:
\* nothing else is needed than the pump, the resolver and the worker.
Owed(s) == s \in Slots /\ entry[s].close_pending
Paid(s) == s \in Slots => ~entry[s].close_pending
CloseEnds == \A s \in Slots : Owed(s) ~> Paid(s)
=============================================================================
