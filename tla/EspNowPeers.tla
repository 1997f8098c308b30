----------------------------- MODULE EspNowPeers -----------------------------
(***************************************************************************)
(* The peer table of the ESP-NOW session (espnow.c).  addPeer, update and  *)
(* remove are captured when JavaScript calls them and started, in order,   *)
(* when the control lane reaches them; meanwhile the session may fail, be  *)
(* rebuilt, close and open again, and the driver may refuse a call.        *)
(***************************************************************************)
EXTENDS Naturals, Sequences, FiniteSets, SequencesExt

CONSTANTS Slots, Addresses,
    MaxEncrypted,           \* CONFIG_ESP_WIFI_ESPNOW_MAX_ENCRYPT_NUM
    MaxCalls, MaxOpens, MaxRefusals

VARIABLES
    peers,      \* the session's slots
    native,     \* the driver's table: absent, plain or encrypted
    count, encrypted,       \* peer_count and encrypted_peer_count
    ops,        \* captured operations, in the order of the lane
    refs,       \* EspNowPeer objects
    session,    \* lifecycle and generation
    used        \* peer generations, calls and refusals so far; the driver and the
                \* table were left different by a refused undo
vars == <<peers, native, count, encrypted, ops, refs, session, used>>

Clear == [st |-> "free", gen |-> 0, addr |-> "none", enc |-> FALSE]
Kind(enc) == IF enc THEN "encrypted" ELSE "plain"
Allocated == {s \in DOMAIN peers : peers[s].st = "allocated"}

Init ==
    /\ peers = [s \in 1..Slots |-> Clear]
    /\ native = [a \in Addresses |-> "absent"]
    /\ count = 0 /\ encrypted = 0 /\ ops = <<>> /\ refs = {}
    /\ session = [life |-> "active", gen |-> 1]
    /\ used = [gen |-> 0, calls |-> 0, refusals |-> 0, torn |-> FALSE]

Call == used.calls < MaxCalls /\ session.life = "active"
FirstFree == CHOOSE s \in DOMAIN peers :
    peers[s].st = "free" /\ \A r \in 1..(s - 1) : peers[r].st # "free"

\* addPeer: the limits are checked here, the slot is only reserved.
peer_add_capture(addr, enc) ==
    /\ Call
    /\ \A s \in Allocated : peers[s].addr # addr
    /\ enc => encrypted < MaxEncrypted
    /\ \E s \in DOMAIN peers : peers[s].st = "free"
    /\ LET s == FirstFree
           g == used.gen + 1
       IN  /\ peers' = [peers EXCEPT ![s].st = "reserved", ![s].gen = g]
           /\ ops' = Append(ops, [op |-> "add", slot |-> s, gen |-> g, addr |-> addr,
                                  enc |-> enc, of |-> session.gen])
           /\ used' = [used EXCEPT !.gen = g, !.calls = @ + 1]
    /\ UNCHANGED <<native, count, encrypted, refs, session>>

\* espnow_peer_from_value: the slot a peer object still stands for.
Live(r) == /\ session.life = "active" /\ r.of = session.gen
           /\ peers[r.slot].st = "allocated" /\ peers[r.slot].gen = r.gen

peer_update_capture(r, enc) ==
    /\ Call /\ Live(r)
    /\ ~peers[r.slot].enc /\ enc => encrypted < MaxEncrypted
    /\ ops' = Append(ops, [op |-> "update", slot |-> r.slot, gen |-> r.gen,
                           addr |-> peers[r.slot].addr, enc |-> enc, of |-> r.of])
    /\ used' = [used EXCEPT !.calls = @ + 1]
    /\ UNCHANGED <<peers, native, count, encrypted, refs, session>>

peer_remove_capture(r) ==
    /\ Call /\ Live(r)
    /\ ops' = Append(ops, [op |-> "remove", slot |-> r.slot, gen |-> r.gen,
                           addr |-> peers[r.slot].addr, enc |-> FALSE, of |-> r.of])
    /\ used' = [used EXCEPT !.calls = @ + 1]
    /\ UNCHANGED <<peers, native, count, encrypted, refs, session>>
-------------------------------------------------------------------------------
(* control_start; a refused operation and control_destroy return the slot. *)

Refuse == used.refusals < MaxRefusals
Refused(torn) == used' = [used EXCEPT !.refusals = @ + 1, !.torn = @ \/ torn]
Owns(o, st) == peers[o.slot].st = st /\ peers[o.slot].gen = o.gen
Stale(o) == session.life # "active" \/ o.of # session.gen
Released(o) ==
    IF o.op = "add" /\ o.of = session.gen /\ Owns(o, "reserved")
    THEN [peers EXCEPT ![o.slot] = Clear] ELSE peers

\* The operation is cancelled in the lane, or found stale when it starts.
control_dropped ==
    /\ ops # <<>>
    /\ \E i \in DOMAIN ops :
         /\ peers' = Released(ops[i]) /\ ops' = RemoveAt(ops, i)
    /\ UNCHANGED <<native, count, encrypted, refs, session, used>>

Next1(op) == ops # <<>> /\ Head(ops).op = op /\ ~Stale(Head(ops)) /\ ops' = Tail(ops)

\* The driver takes a peer it does not have, and encrypted ones up to its limit.
Room(a, enc) ==
    enc /\ native[a] # "encrypted" => Cardinality({b \in Addresses : native[b] = "encrypted"}) < MaxEncrypted
DriverAdds(o) == native[o.addr] = "absent" /\ Room(o.addr, o.enc)

\* add: the driver's table, then the rate; a failed rate takes the peer out
\* again, whatever the driver answers.
start_add ==
    /\ Next1("add")
    /\ LET o == Head(ops) IN
       \/ /\ Owns(o, "reserved") /\ DriverAdds(o)
          /\ native' = [native EXCEPT ![o.addr] = Kind(o.enc)]
          /\ peers' = [peers EXCEPT ![o.slot].st = "allocated", ![o.slot].addr = o.addr,
                                    ![o.slot].enc = o.enc]
          /\ count' = count + 1 /\ encrypted' = IF o.enc THEN encrypted + 1 ELSE encrypted
          /\ refs' = refs \union {[slot |-> o.slot, gen |-> o.gen, of |-> o.of]}
          /\ used' = used
       \/ /\ ~(Owns(o, "reserved") /\ DriverAdds(o)) /\ peers' = Released(o)
          /\ UNCHANGED <<native, count, encrypted, refs, used>>
       \/ /\ Owns(o, "reserved") /\ DriverAdds(o) /\ Refuse /\ peers' = Released(o)
          /\ \/ Refused(FALSE) /\ native' = native
             \/ Refused(TRUE) /\ native' = [native EXCEPT ![o.addr] = Kind(o.enc)]
          /\ UNCHANGED <<count, encrypted, refs>>
    /\ UNCHANGED session

\* What update does to encrypted_peer_count.
CountUpdated(was, enc) ==
    IF was = enc THEN encrypted
    ELSE IF enc THEN encrypted + 1
    ELSE IF encrypted > 0 THEN encrypted - 1 ELSE 0

start_update ==
    /\ Next1("update")
    /\ LET o == Head(ops)
           a == peers[o.slot].addr IN
       \/ /\ ~Owns(o, "allocated") /\ UNCHANGED <<peers, native, encrypted, used>>
       \/ /\ Owns(o, "allocated") /\ native[a] # "absent" /\ Room(a, o.enc)
          /\ native' = [native EXCEPT ![a] = Kind(o.enc)]
          /\ peers' = [peers EXCEPT ![o.slot].enc = o.enc]
          /\ encrypted' = CountUpdated(peers[o.slot].enc, o.enc) /\ used' = used
       \/ /\ Owns(o, "allocated") /\ ~(native[a] # "absent" /\ Room(a, o.enc))
          /\ UNCHANGED <<peers, native, encrypted, used>>
       \/ /\ Owns(o, "allocated") /\ native[a] # "absent" /\ Room(a, o.enc) /\ Refuse
          /\ \/ Refused(FALSE) /\ native' = native
             \/ Refused(TRUE) /\ native' = [native EXCEPT ![a] = Kind(o.enc)]
          /\ UNCHANGED <<peers, encrypted>>
    /\ UNCHANGED <<count, refs, session>>

\* close(): the peer the operation was captured for, or nothing.
RemoveAllowed(o) == Owns(o, "allocated")
start_remove ==
    /\ Next1("remove")
    /\ LET o == Head(ops)
           p == peers[o.slot] IN
       \/ ~RemoveAllowed(o) /\ UNCHANGED <<peers, native, count, encrypted, used, refs>>
       \/ /\ RemoveAllowed(o)
          /\ native' = [native EXCEPT ![p.addr] = "absent"]
          /\ peers' = [peers EXCEPT ![o.slot] = Clear]
          /\ count' = (IF count > 0 THEN count - 1 ELSE 0)
          /\ encrypted' = IF p.enc /\ encrypted > 0 THEN encrypted - 1 ELSE encrypted
          /\ refs' = refs \ {[slot |-> o.slot, gen |-> o.gen, of |-> o.of]}
          /\ used' = used
       \/ RemoveAllowed(o) /\ Refuse /\ Refused(FALSE) /\ UNCHANGED <<peers, native, count, encrypted, refs>>
    /\ UNCHANGED session
-------------------------------------------------------------------------------
(* The session around the table. *)

\* A send times out: the driver is deinitialised and forgets its peers.
session_fails ==
    /\ session.life = "active" /\ session' = [session EXCEPT !.life = "failed"]
    /\ native' = [a \in Addresses |-> "absent"]
    /\ UNCHANGED <<peers, count, encrypted, ops, refs, used>>

\* restore_native_session adds the allocated peers again; refused, the driver
\* is deinitialised.
restore_peers ==
    /\ session.life = "failed"
    /\ \/ /\ native' = [a \in Addresses |->
              IF \E s \in Allocated : peers[s].addr = a
              THEN Kind(peers[CHOOSE s \in Allocated : peers[s].addr = a].enc) ELSE "absent"]
          /\ session' = [session EXCEPT !.life = "active"] /\ used' = used
       \/ Refuse /\ Refused(FALSE) /\ UNCHANGED <<native, session>>
    /\ UNCHANGED <<peers, count, encrypted, ops, refs>>

\* reset_session_storage
session_closed ==
    /\ session.life \in {"active", "failed"}
    /\ session' = [session EXCEPT !.life = "closed"]
    /\ peers' = [s \in DOMAIN peers |-> Clear] /\ count' = 0 /\ encrypted' = 0
    /\ native' = [a \in Addresses |-> "absent"]
    /\ used' = [used EXCEPT !.torn = FALSE]
    /\ UNCHANGED <<ops, refs>>

session_reopened ==
    /\ session.life = "closed" /\ session.gen < MaxOpens
    /\ session' = [life |-> "active", gen |-> session.gen + 1]
    /\ UNCHANGED <<peers, native, count, encrypted, ops, refs, used>>

Next ==
    \/ \E a \in Addresses, e \in BOOLEAN : peer_add_capture(a, e)
    \/ \E r \in refs : peer_remove_capture(r) \/ \E e \in BOOLEAN : peer_update_capture(r, e)
    \/ control_dropped \/ start_add \/ start_update \/ start_remove
    \/ session_fails \/ restore_peers \/ session_closed \/ session_reopened
Spec == Init /\ [][Next]_vars
-------------------------------------------------------------------------------
(* Properties. *)

\* The counters are exact, no address has two slots, and every reserved slot
\* has one captured operation that will take or return it: cancelled, stale
\* and refused operations leak nothing, also across a close and an open.
TableExact ==
    /\ count = Cardinality(Allocated)
    /\ encrypted = Cardinality({s \in Allocated : peers[s].enc})
    /\ ~used.torn => encrypted <= MaxEncrypted
    /\ \A s, t \in Allocated : peers[s].addr = peers[t].addr => s = t
    /\ \A s \in DOMAIN peers : peers[s].st = "reserved" =>
         Cardinality({i \in DOMAIN ops : ops[i].op = "add" /\ ops[i].slot = s
                                         /\ ops[i].gen = peers[s].gen /\ ops[i].of = session.gen}) = 1

\* The driver has the peers of the table and no others while the session is
\* active, also after a rebuild, unless it refused to undo an operation.
DriverAgrees ==
    session.life = "active" /\ ~used.torn =>
        \A a \in Addresses :
            native[a] = IF \E s \in Allocated : peers[s].addr = a
                        THEN Kind(peers[CHOOSE s \in Allocated : peers[s].addr = a].enc) ELSE "absent"

PeersInv == TableExact /\ DriverAgrees
==============================================================================
