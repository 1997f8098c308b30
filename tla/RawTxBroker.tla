----------------------------- MODULE RawTxBroker -----------------------------
(***************************************************************************)
(* Raw 802.11 packets in the driver (wifi_raw_tx_broker.c) and the radio's *)
(* submit, retire, shutdown and recovery of them (wifi_radio.c).  A record *)
(* keeps a packet's buffer from its submission until it is retired; the    *)
(* driver answers through a callback of the Wi-Fi task, which is matched   *)
(* to a record by the driver's descriptor, or is the only one's.  Radio    *)
(* calls hold the operation lock, callbacks do not.                        *)
(***************************************************************************)
EXTENDS Naturals, FiniteSets, FiniteSetsExt

CONSTANTS
    Slots,         \* records, 1 .. RAW_TX_SLOTS
    Descriptors,   \* the driver's descriptors
    Exact,         \* ESP32_MQUICKJS_RAW_TX_DESCRIPTOR_IDENTITY
    Spurious,      \* the driver may call back for a descriptor it has recycled
    Fixed,         \* the owner has fixed the channel itself
    MaxPackets, MaxLeases, MaxFaults    \* bounds

VARIABLES
    b,             \* broker: generation, registered, uncertain, unwritten (unregister_written), submitting slot
    recs,          \* records, by slot
    cb,            \* callback between its two critical sections, or NoCall
    radio,         \* generation, power ("off", "stopped", "started"), lifecycle reserved
    rcv,           \* s_raw_tx_recovery: phase and operation
    owner,         \* lease of the client, raw_tx_identity, fixed channel, pinned by raw TX
    tokens,        \* packets the client holds a token of
    faulted,       \* the client has faulted: it submits no more
    seen,          \* the result the client has read before it retires the packet
    told,          \* results the client has passed on, by packet
    call,          \* what the holder of the operation lock is in the middle of
    sdk,           \* packets in the driver: their descriptor, by packet
    said,          \* what the driver said of a packet, by packet
    last, leases, faults

vars == <<b, recs, cb, radio, rcv, owner, tokens, faulted, seen, told, call, sdk, said, last, leases, faults>>

Packets == 1 .. MaxPackets
NoRec == [id |-> 0, lease |-> 0, gen |-> 0, returned |-> FALSE, accepted |-> FALSE, completed |-> FALSE,
          fault |-> FALSE, terminated |-> FALSE, desc |-> 0, result |-> "none", buffer |-> FALSE]
NoCall == [packet |-> 0, desc |-> 0, info |-> "none"]
NoSnap == [packet |-> 0, result |-> "none"]
NoOwner == [lease |-> 0, raw |-> 0, fixed |-> FALSE, pinned |-> FALSE]

Init ==
    /\ b = [gen |-> 0, registered |-> FALSE, uncertain |-> FALSE, unwritten |-> FALSE, submitting |-> 0]
    /\ recs = [s \in Slots |-> NoRec] /\ cb = NoCall
    /\ radio = [gen |-> 1, power |-> "off", lifecycle |-> FALSE] /\ rcv = [phase |-> "none", op |-> 0]
    /\ owner = NoOwner /\ tokens = {} /\ faulted = FALSE /\ seen = NoSnap
    /\ told = [p \in Packets |-> "none"] /\ call = "none"
    /\ sdk = [p \in Packets |-> 0] /\ said = [p \in Packets |-> "none"]
    /\ last = 0 /\ leases = 0 /\ faults = 0

Fault == faults < MaxFaults /\ faults' = faults + 1
Used(s) == recs[s].id # 0
InUse == {s \in Slots : Used(s)}
raw_tx_first == IF InUse = {} THEN 0 ELSE Min(InUse)
raw_tx_find(p) == CHOOSE s \in Slots : recs[s].id = p
Known(p) == \E s \in Slots : recs[s].id = p
Active(s) == Used(s) /\ ~recs[s].terminated
Unlocked == call = "none"

\* Every packet that is still under way can no longer be told from others.
Quarantined(r) == [s \in Slots |-> IF r[s].id # 0 /\ ~r[s].terminated /\ ~r[s].completed
                                   THEN [r[s] EXCEPT !.fault = TRUE] ELSE r[s]]
-------------------------------------------------------------------------------
(* The client: a session or a one-shot send that has the transmit lane. *)

\* esp32_mquickjs_wifi_radio_raw_tx_acquire: starts the driver if it has to.
raw_tx_acquire ==
    /\ Unlocked /\ owner.lease = 0 /\ ~radio.lifecycle /\ leases < MaxLeases
    /\ leases' = leases + 1
    /\ owner' = [lease |-> leases + 1, raw |-> 0, fixed |-> Fixed, pinned |-> FALSE]
    /\ radio' = [radio EXCEPT !.power = "started"] /\ faulted' = FALSE
    /\ UNCHANGED <<b, recs, cb, rcv, tokens, seen, told, call, sdk, said, last, faults>>

\* esp32_mquickjs_wifi_radio_release_and_stop_idle.
release_and_stop ==
    /\ Unlocked /\ owner.lease # 0 /\ tokens = {} /\ seen = NoSnap
    /\ owner' = NoOwner
    /\ radio' = IF radio.lifecycle THEN radio ELSE [radio EXCEPT !.power = "stopped"]
    /\ UNCHANGED <<b, recs, cb, rcv, tokens, faulted, seen, told, call, sdk, said, last, leases, faults>>

\* wifi_radio_raw_tx_unpin.
Unpinned == [owner EXCEPT !.raw = 0, !.fixed = @ /\ ~owner.pinned, !.pinned = FALSE]
Registered == b.registered /\ b.gen = radio.gen /\ ~b.uncertain /\ ~b.unwritten
MayRegister == b.gen = 0 /\ cb = NoCall
NoTerminated == \A s \in Slots : ~recs[s].terminated
Admitted ==
    /\ Unlocked /\ owner.lease # 0 /\ ~faulted /\ radio.power = "started" /\ ~radio.lifecycle
    /\ last < MaxPackets /\ InUse # Slots /\ ~b.uncertain /\ ~b.unwritten /\ NoTerminated

\* esp32_mquickjs_wifi_radio_raw_tx_submit up to the driver's call: the callback
\* is registered, the channel pinned, and a record made.
raw_tx_submit ==
    /\ Admitted /\ (Registered \/ MayRegister)
    /\ LET s == Min(Slots \ InUse) IN
       /\ b' = [b EXCEPT !.gen = radio.gen, !.registered = TRUE, !.submitting = s]
       /\ recs' = [recs EXCEPT ![s] = [NoRec EXCEPT !.id = last + 1, !.lease = owner.lease, !.gen = radio.gen,
                                                    !.buffer = TRUE]]
    /\ owner' = [owner EXCEPT !.pinned = IF owner.raw = 0 THEN ~owner.fixed ELSE @, !.fixed = TRUE]
    /\ last' = last + 1 /\ call' = "submit"
    /\ UNCHANGED <<cb, radio, rcv, tokens, faulted, seen, told, sdk, said, leases, faults>>

\* The callback cannot be registered, or there is no memory for the copy: the
\* client has no token and faults.
raw_tx_submit_fails ==
    /\ Admitted /\ Fault /\ faulted' = TRUE
    /\ \/ /\ MayRegister /\ ~Registered
          /\ b' = [b EXCEPT !.gen = radio.gen, !.uncertain = TRUE] /\ UNCHANGED owner
       \/ /\ Registered /\ UNCHANGED b
          /\ owner' = IF owner.raw = 0 THEN [Unpinned EXCEPT !.fixed = Fixed] ELSE owner
    /\ UNCHANGED <<recs, cb, radio, rcv, tokens, seen, told, call, sdk, said, last, leases>>

Submitted == recs[b.submitting].id
DriverTakes == call = "submit" /\ sdk[Submitted] = 0 /\ recs[b.submitting].desc = 0 /\ said[Submitted] = "none"
\* The driver's task recycles a descriptor when its callback has returned.
FreeDescriptors == {d \in Descriptors : d # cb.desc /\ \A p \in Packets : sdk[p] # d}

\* esp32qjs_raw_tx_alloc: the descriptor the driver has allocated for the packet
\* that is being submitted is bound to its record.
Bound(d) ==
    IF ~Exact THEN <<recs, b>>
    ELSE <<[recs EXCEPT ![b.submitting].desc = d],
           [b EXCEPT !.uncertain = @ \/ \E s \in Slots : recs[s].desc = d]>>

sdk_takes(d) ==
    /\ DriverTakes /\ d \in FreeDescriptors
    /\ recs' = Bound(d)[1] /\ b' = Bound(d)[2]
    /\ sdk' = [sdk EXCEPT ![Submitted] = d]
    /\ UNCHANGED <<cb, radio, rcv, owner, tokens, faulted, seen, told, call, said, last, leases, faults>>

\* The driver refuses the packet, and recycles a descriptor it has allocated.
sdk_refuses ==
    /\ DriverTakes /\ Fault /\ call' = "refused"
    /\ \/ UNCHANGED <<recs, b>>
       \/ \E d \in FreeDescriptors : recs' = Bound(d)[1] /\ b' = Bound(d)[2]
    /\ UNCHANGED <<cb, radio, rcv, owner, tokens, faulted, seen, told, sdk, said, last, leases>>

\* The driver's call returns: the client has its token, accepted or not.
raw_tx_submitted ==
    /\ \/ call = "submit" /\ (sdk[Submitted] # 0 \/ said[Submitted] # "none")
       \/ call = "refused"
    /\ recs' = [recs EXCEPT ![b.submitting].returned = TRUE, ![b.submitting].accepted = (call = "submit"),
                            ![b.submitting].fault = @ \/ (call = "refused" /\ recs[b.submitting].completed)]
    /\ b' = [b EXCEPT !.submitting = 0] /\ call' = "none"
    /\ tokens' = tokens \cup {Submitted} /\ faulted' = (faulted \/ call = "refused")
    /\ owner' = IF owner.raw = 0 THEN [owner EXCEPT !.raw = Submitted] ELSE owner
    /\ UNCHANGED <<cb, radio, rcv, seen, told, sdk, said, last, leases, faults>>

\* The client reads a packet's result; a packet that cannot be told from others
\* faults it.
observe(p) ==
    /\ p \in tokens /\ seen = NoSnap
    /\ LET r == recs[raw_tx_find(p)] IN
       IF r.fault /\ ~r.terminated
       THEN ~faulted /\ faulted' = TRUE /\ UNCHANGED seen
       ELSE /\ r.completed \/ r.terminated
            /\ cb = NoCall /\ UNCHANGED faulted
            /\ seen' = [packet |-> p, result |-> IF r.terminated THEN "terminated" ELSE r.result]
    /\ UNCHANGED <<b, recs, cb, radio, rcv, owner, tokens, told, call, sdk, said, last, leases, faults>>

\* esp32_mquickjs_wifi_raw_tx_broker_retire: when a record may go.
Retirable(r) == cb = NoCall /\ (r.terminated \/ (r.returned /\ r.completed /\ ~r.fault))

\* esp32_mquickjs_wifi_radio_raw_tx_retire.
raw_tx_retire ==
    /\ Unlocked /\ seen # NoSnap
    /\ LET p == seen.packet
           s == raw_tx_find(p)
           left == {t \in Slots \ {s} : Used(t) /\ recs[t].lease = owner.lease}
           held == rcv.op = p /\ ~recs[s].terminated
       IN IF Retirable(recs[s]) /\ ~held
          THEN /\ recs' = [recs EXCEPT ![s] = NoRec]
               /\ tokens' = tokens \ {p} /\ told' = [told EXCEPT ![p] = seen.result]
               /\ owner' = IF left = {} THEN Unpinned ELSE [owner EXCEPT !.raw = recs[Min(left)].id]
          ELSE UNCHANGED <<recs, tokens, told, owner>>
    /\ seen' = NoSnap
    /\ faulted' = (faulted \/ seen.result = "terminated")
    /\ UNCHANGED <<b, cb, radio, rcv, call, sdk, said, last, leases, faults>>
-------------------------------------------------------------------------------
(* The driver's callbacks. *)

\* raw_tx_complete, first critical section.
callback_enter(p, info) ==
    /\ sdk[p] # 0 /\ cb = NoCall /\ radio.power # "off"
    /\ info # "ok" => Fault
    /\ info = "ok" => UNCHANGED faults
    /\ \E x \in {"success", "failed"} : said' = [said EXCEPT ![p] = x]
    /\ cb' = [packet |-> p, desc |-> sdk[p], info |-> info]
    /\ UNCHANGED <<b, recs, radio, rcv, owner, tokens, faulted, seen, told, call, sdk, last, leases>>

\* The driver calls back for a descriptor no packet has any more.
callback_spurious(d) ==
    /\ Spurious /\ cb = NoCall /\ radio.power # "off" /\ d \in FreeDescriptors /\ Fault
    /\ cb' = [packet |-> 0, desc |-> d, info |-> "ok"]
    /\ UNCHANGED <<b, recs, radio, rcv, owner, tokens, faulted, seen, told, call, sdk, said, last, leases>>

\* The record a callback is about, or 0.
Matched ==
    IF ~Exact THEN raw_tx_first
    ELSE IF \E s \in Slots : recs[s].desc = cb.desc THEN CHOOSE s \in Slots : recs[s].desc = cb.desc ELSE 0
Completed(s) ==
    [recs EXCEPT ![s].completed = TRUE, ![s].desc = 0,
                 ![s].result = IF cb.packet = 0 THEN "spurious" ELSE said[cb.packet],
                 ![s].fault = @ \/ (recs[s].returned /\ ~recs[s].accepted)]

\* raw_tx_complete, second critical section.
callback_leave ==
    /\ cb # NoCall /\ cb' = NoCall
    /\ LET s == Matched
           orphan == s = 0 \/ (s # 0 /\ ~Active(s))
           wrong == cb.info # "ok"
           again == ~orphan /\ ~wrong /\ recs[s].completed
           r1 == IF orphan \/ wrong THEN recs
                 ELSE IF again THEN [recs EXCEPT ![s].fault = TRUE] ELSE Completed(s)
           unmatched == Exact /\ ~orphan /\ ~r1[s].completed
           r2 == IF unmatched THEN [r1 EXCEPT ![s].desc = 0, ![s].fault = TRUE] ELSE r1
           uncertain == b.uncertain \/ orphan \/ unmatched
       IN /\ b' = [b EXCEPT !.uncertain = uncertain]
          /\ recs' = IF Exact /\ uncertain THEN Quarantined(r2) ELSE r2
    /\ sdk' = IF cb.packet = 0 THEN sdk ELSE [sdk EXCEPT ![cb.packet] = 0]
    /\ UNCHANGED <<radio, rcv, owner, tokens, faulted, seen, told, call, said, last, leases, faults>>

\* esp32qjs_raw_tx_copy_header: the driver moves a packet to another descriptor.
Moved(p, d) ==
    IF ~\E s \in Slots : recs[s].desc = sdk[p] THEN <<recs, b>>
    ELSE LET s == CHOOSE x \in Slots : recs[x].desc = sdk[p]
             collision == \E x \in Slots : recs[x].desc = d
         IN IF ~collision THEN <<[recs EXCEPT ![s].desc = d], b>>
            ELSE <<Quarantined([recs EXCEPT ![s].desc = 0]), [b EXCEPT !.uncertain = TRUE]>>

sdk_moves(p, d) ==
    /\ Exact /\ sdk[p] # 0 /\ cb.packet # p /\ d \in FreeDescriptors /\ Fault
    /\ recs' = Moved(p, d)[1] /\ b' = Moved(p, d)[2]
    /\ sdk' = [sdk EXCEPT ![p] = d]
    /\ UNCHANGED <<cb, radio, rcv, owner, tokens, faulted, seen, told, call, said, last, leases>>
-------------------------------------------------------------------------------
(* Shutdown of the driver, and its recovery under packets that do not end. *)

\* raw_tx_unregister up to the driver's call.
Unregistrable == b.gen # 0 /\ cb = NoCall /\ b.submitting = 0
shutdown ==
    /\ Unlocked /\ owner.lease = 0 /\ ~radio.lifecycle /\ radio.power = "stopped"
    /\ Unregistrable /\ InUse = {} /\ call' = "unregister"
    /\ UNCHANGED <<b, recs, cb, radio, rcv, owner, tokens, faulted, seen, told, sdk, said, last, leases, faults>>

\* esp32_mquickjs_wifi_radio_begin_raw_tx_recovery.
begin_recovery ==
    /\ Unlocked /\ ~radio.lifecycle /\ radio.power = "started" /\ InUse # {}
    /\ LET r == recs[raw_tx_first] IN
       /\ Active(raw_tx_first) /\ r.returned /\ r.gen = radio.gen /\ owner.raw = r.id /\ owner.lease = r.lease
       /\ rcv' = [phase |-> "begun", op |-> r.id]
    /\ radio' = [radio EXCEPT !.lifecycle = TRUE]
    /\ UNCHANGED <<b, recs, cb, owner, tokens, faulted, seen, told, call, sdk, said, last, leases, faults>>

\* wifi_radio_raw_tx_recovery_owner_locked.
RecoveryOwner ==
    IF radio.power = "off" THEN rcv.phase = "fenced"
    ELSE owner.raw = rcv.op /\ InUse # {} /\ recs[raw_tx_first].id = rcv.op

stop_recovery ==
    /\ Unlocked /\ rcv.phase = "begun" /\ RecoveryOwner
    /\ rcv' = [rcv EXCEPT !.phase = "stopped"] /\ radio' = [radio EXCEPT !.power = "stopped"]
    /\ UNCHANGED <<b, recs, cb, owner, tokens, faulted, seen, told, call, sdk, said, last, leases, faults>>

shutdown_recovery ==
    /\ Unlocked /\ rcv.phase \in {"stopped", "fenced"} /\ b.gen # 0 /\ RecoveryOwner
    /\ Unregistrable /\ call' = "quiesce"
    /\ UNCHANGED <<b, recs, cb, radio, rcv, owner, tokens, faulted, seen, told, sdk, said, last, leases, faults>>

\* esp32_mquickjs_wifi_raw_tx_broker_reset_after_deinit: what is left of the
\* packets has ended with the driver.
Terminated == [s \in Slots |-> IF Used(s) THEN [recs[s] EXCEPT !.terminated = TRUE, !.desc = 0, !.buffer = FALSE]
                               ELSE recs[s]]

\* The driver's unregister returns; then the fence, the deinit and the reset.
unregistered ==
    /\ call \in {"unregister", "quiesce"} /\ call' = "none"
    /\ \/ /\ Fault /\ ~b.unwritten /\ b' = [b EXCEPT !.uncertain = TRUE]
          /\ UNCHANGED <<recs, radio, rcv, sdk>>
       \/ /\ UNCHANGED faults
          /\ LET written == [b EXCEPT !.unwritten = TRUE, !.registered = FALSE, !.uncertain = FALSE] IN
             \/ /\ cb # NoCall /\ b' = written /\ UNCHANGED <<recs, radio, rcv, sdk>>
             \/ /\ cb = NoCall
                /\ b' = [written EXCEPT !.gen = 0, !.unwritten = FALSE]
                /\ recs' = Terminated /\ sdk' = [p \in Packets |-> 0]
                /\ rcv' = IF call = "quiesce" THEN [rcv EXCEPT !.phase = "fenced"] ELSE rcv
                /\ radio' = IF call = "quiesce" THEN [radio EXCEPT !.power = "off"]
                            ELSE [radio EXCEPT !.power = "off", !.gen = @ + 1]
    /\ UNCHANGED <<cb, owner, tokens, faulted, seen, told, said, last, leases>>

\* The shutdown is called again once the owner is gone, and the recovery ends.
finish_recovery ==
    /\ Unlocked /\ rcv.phase = "fenced" /\ b.gen = 0 /\ owner.lease = 0 /\ InUse = {}
    /\ rcv' = [phase |-> "none", op |-> 0]
    /\ radio' = [gen |-> radio.gen + 1, power |-> "off", lifecycle |-> FALSE]
    /\ UNCHANGED <<b, recs, cb, owner, tokens, faulted, seen, told, call, sdk, said, last, leases, faults>>

Next ==
    \/ raw_tx_acquire \/ release_and_stop \/ raw_tx_submit \/ raw_tx_submit_fails
    \/ sdk_refuses \/ raw_tx_submitted \/ raw_tx_retire \/ callback_leave
    \/ \E d \in Descriptors : sdk_takes(d) \/ callback_spurious(d)
    \/ \E p \in Packets : observe(p) \/ (\E i \in {"ok", "wrong"} : callback_enter(p, i))
    \/ \E p \in Packets, d \in Descriptors : sdk_moves(p, d)
    \/ shutdown \/ begin_recovery \/ stop_recovery \/ shutdown_recovery \/ unregistered \/ finish_recovery

Spec == Init /\ [][Next]_vars
-------------------------------------------------------------------------------
\* A client is told of a packet what the driver has said of this packet, or
\* that it was ended with the driver: no result of another packet, none of a
\* recycled descriptor, none that was read too early.
ResultsOwn ==
    /\ \A p \in Packets : told[p] \notin {"none", "terminated"} => told[p] = said[p]
    /\ \A s \in Slots : (Used(s) /\ recs[s].completed /\ recs[s].returned /\ ~recs[s].fault) =>
                            recs[s].result = said[recs[s].id]

\* The buffer of a packet is there as long as the driver has the packet.
BuffersHeld == \A p \in Packets : sdk[p] # 0 => (Known(p) /\ recs[raw_tx_find(p)].buffer)

\* The client has a token of every record, and the channel stays fixed as long
\* as it has one.
PinExact ==
    Unlocked =>
        /\ tokens = {recs[s].id : s \in InUse}
        /\ owner.raw # 0 <=> tokens # {}
        /\ owner.raw # 0 => (owner.raw \in tokens /\ owner.fixed)
        /\ (owner.lease # 0 /\ tokens = {}) => (owner.fixed = Fixed /\ ~owner.pinned)

\* A new driver starts without records or callbacks of the one before, and a
\* recovery keeps the operation it was begun for until the driver is gone.
GenerationsApart ==
    /\ \A s \in InUse : recs[s].gen = radio.gen
    /\ radio.power = "started" => (\A s \in InUse : ~recs[s].terminated)
    /\ rcv.phase \in {"begun", "stopped"} => (Known(rcv.op) /\ owner.lease # 0)

RawTxBrokerSafe == ResultsOwn /\ BuffersHeld /\ PinExact /\ GenerationsApart
===============================================================================
