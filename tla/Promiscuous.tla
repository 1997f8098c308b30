----------------------------- MODULE Promiscuous -----------------------------
(***************************************************************************)
(* Promiscuous reception: the owners among the radio's leases              *)
(* (wifi_radio.c), the subscriber slots that the receive callback walks on *)
(* the Wi-Fi task (wifi_promiscuous_broker.c) and the driver's filters,    *)
(* callback and enable switch, written one by one with a rollback list     *)
(* (wifi_promiscuous_driver.c).                                            *)
(***************************************************************************)
EXTENDS Naturals, Sequences, FiniteSets

CONSTANTS
    Clients,     \* radio leases
    Plain,       \* those that enable reception without a subscriber
    Filter,      \* packet types each subscriber asks for
    Slots,       \* WIFI_PROMISCUOUS_MAX_SUBSCRIBERS
    Baseline,    \* packet types the driver's filter has before anyone asks
    MaxFaults    \* bound

VARIABLES
    owner,       \* leases[].promiscuous_identity and promiscuous_closing
    slot,        \* s_promiscuous.slots
    fault,       \* the radio's fault stage is a promiscuous one
    claimed, pending, current, rollback,   \* s_promiscuous_driver
    hw,          \* what the Wi-Fi driver has
    dispatch,    \* the receive callback: slots it still has to serve, or none
    faults

vars == <<owner, slot, fault, claimed, pending, current, rollback, hw, dispatch, faults>>

Fields == {"control", "packet", "callback", "enable"}
NoSlot == [phase |-> "free", client |-> CHOOSE c \in Clients : TRUE, entered |-> FALSE]
Settings(types, receive, enabled) ==
    [control |-> types \intersect {"ctrl"}, packet |-> types, callback |-> receive,
     enable |-> enabled]
Off == Settings(Baseline, FALSE, FALSE)
Returned == [busy |-> FALSE, todo |-> {}]

Init ==
    /\ owner = [c \in Clients |-> "none"] /\ slot = [i \in Slots |-> NoSlot]
    /\ fault = FALSE /\ claimed = FALSE /\ pending = FALSE /\ current = Off /\ rollback = <<>>
    /\ hw = Off /\ dispatch = Returned /\ faults = 0

Fault == faults < MaxFaults /\ faults' = faults + 1
SlotOf(c) == {i \in Slots : slot[i].phase # "free" /\ slot[i].client = c}
-------------------------------------------------------------------------------
(* The driver's settings. *)

\* wifi_radio_promiscuous_demand and wifi_promiscuous_driver_demand, from the
\* owners that are not closing, then the target of driver_apply.
Target(open) ==
    LET receivers == open \ Plain
        types == UNION {Filter[c] : c \in receivers}
    IN IF open = {} THEN Off
       ELSE IF receivers = {} THEN Settings(Baseline, FALSE, TRUE)
       ELSE Settings(types \union (IF open \intersect Plain # {} THEN Baseline ELSE {}), TRUE, TRUE)

\* Filters before the callback before the switch, the reverse to disable.
Order(target) == LET up == <<"control", "packet", "callback", "enable">>
                 IN IF target.enable THEN up ELSE <<up[4], up[3], up[2], up[1]>>
Changes(target) == SelectSeq(Order(target), LAMBDA f : target[f] # current[f])

Set(settings, fields, value) ==
    [f \in Fields |-> IF f \in fields THEN value[f] ELSE settings[f]]
Rng(s) == {s[k] : k \in 1 .. Len(s)}

\* wifi_promiscuous_driver_recover undoes the list from its end; it stops at
\* the entry it cannot write, and the rest waits for the next call.
\* Mutation: the entry that could not be written is forgotten.
Left_next(list, n) == SubSeq(list, 1, n - 1)

Left(list, n) == SubSeq(list, 1, n)
Undone(settings, list, n) == Set(settings, Rng(SubSeq(list, n + 1, Len(list))), current)

Recovered == /\ hw' = Undone(hw, rollback, 0) /\ rollback' = <<>> /\ pending' = FALSE
             /\ claimed' = current.enable /\ UNCHANGED <<current, faults>>
RecoverFails == /\ rollback # <<>> /\ Fault
                /\ \E n \in 1 .. Len(rollback) :
                      /\ hw' = Undone(hw, rollback, n) /\ rollback' = Left(rollback, n)
                      /\ pending' = TRUE
                /\ UNCHANGED <<current, claimed>>

\* wifi_promiscuous_driver_apply succeeds; recovery has been done before.
Applied(target, base) ==
    /\ hw' = Set(base, Rng(Changes(target)), target) /\ current' = target
    /\ rollback' = <<>> /\ pending' = FALSE /\ claimed' = target.enable
    /\ UNCHANGED faults

\* It fails at its k-th write, whether or not the write took effect, and rolls
\* back: completely, or down to the n entries that resist as well.
ApplyFails(target, base) ==
    LET list == Changes(target) IN
    /\ Fault
    /\ \/ /\ hw' = base /\ UNCHANGED current /\ rollback' = <<>> /\ pending' = FALSE
          /\ claimed' = current.enable
       \/ \E k \in 1 .. Len(list) : \E n \in 1 .. k : \E took \in BOOLEAN :
             LET done == SubSeq(list, 1, IF took THEN k ELSE k - 1)
             IN /\ faults + 1 < MaxFaults
                /\ hw' = Undone(Set(base, Rng(done), target), SubSeq(list, 1, k), n)
                /\ rollback' = Left(list, n) /\ pending' = TRUE
                /\ UNCHANGED current /\ claimed' = TRUE
-------------------------------------------------------------------------------
(* The owners: wifi_radio_acquire_promiscuous and release_promiscuous. *)

Open == {c \in Clients : owner[c] = "open"}

\* esp32_mquickjs_wifi_promiscuous_reserve takes the first free slot.
Reserved(c, phase) ==
    [i \in Slots |-> IF /\ c \notin Plain /\ slot[i].phase = "free"
                        /\ \A j \in Slots : j < i => slot[j].phase # "free"
                     THEN [phase |-> phase, client |-> c, entered |-> FALSE] ELSE slot[i]]

\* A slot is reserved, the driver set up, then the slot becomes active.
acquire_promiscuous(c) ==
    /\ owner[c] = "none" /\ ~fault
    /\ c \in Plain \/ \E i \in Slots : slot[i].phase = "free"
    /\ \/ /\ Applied(Target(Open \union {c}), hw)
          /\ owner' = [owner EXCEPT ![c] = "open"] /\ slot' = Reserved(c, "active")
          /\ UNCHANGED fault
       \/ /\ ApplyFails(Target(Open \union {c}), hw)
          /\ fault' = pending'
          /\ owner' = [owner EXCEPT ![c] = IF pending' THEN "closing" ELSE "none"]
          /\ slot' = IF pending' THEN Reserved(c, "closing") ELSE slot
    /\ UNCHANGED dispatch

\* begin_close: the callback admits the slot no more.
Closing(c) == [i \in Slots |-> IF i \in SlotOf(c) THEN [slot[i] EXCEPT !.phase = "closing"] ELSE slot[i]]

\* finish_close: refused while the callback is inside the subscriber.
Draining(c) == \E i \in SlotOf(c) : slot[i].entered

release_fails(c) ==
    /\ owner[c] # "none"
    /\ owner' = [owner EXCEPT ![c] = "closing"] /\ slot' = Closing(c)
    /\ fault' = TRUE
    /\ \/ RecoverFails
       \/ ApplyFails(Target(Open \ {c}), Undone(hw, rollback, 0))
    /\ UNCHANGED dispatch

release_promiscuous(c) ==
    /\ owner[c] # "none"
    /\ Applied(Target(Open \ {c}), Undone(hw, rollback, 0))
    /\ IF Draining(c)
       THEN /\ owner' = [owner EXCEPT ![c] = "closing"] /\ slot' = Closing(c)
            /\ UNCHANGED fault
       ELSE /\ owner' = [owner EXCEPT ![c] = "none"]
            /\ slot' = [i \in Slots |-> IF i \in SlotOf(c) THEN NoSlot ELSE slot[i]]
            /\ fault' = FALSE
    /\ UNCHANGED dispatch
-------------------------------------------------------------------------------
(* wifi_promiscuous_dispatch, on the Wi-Fi task. *)

dispatch_enter ==
    /\ hw.enable /\ hw.callback /\ ~dispatch.busy
    /\ LET active == {i \in Slots : slot[i].phase = "active"}
       IN /\ dispatch' = [busy |-> TRUE, todo |-> active]
          /\ slot' = [i \in Slots |-> IF i \in active THEN [slot[i] EXCEPT !.entered = TRUE] ELSE slot[i]]
    /\ UNCHANGED <<owner, fault, claimed, pending, current, rollback, hw, faults>>

\* One subscriber's sink, then its retain is dropped.
dispatch_sink(i) ==
    /\ dispatch.busy /\ i \in dispatch.todo /\ \A j \in dispatch.todo : i <= j
    /\ dispatch' = [dispatch EXCEPT !.todo = @ \ {i}]
    /\ slot' = [slot EXCEPT ![i].entered = FALSE]
    /\ UNCHANGED <<owner, fault, claimed, pending, current, rollback, hw, faults>>

dispatch_return ==
    /\ dispatch.busy /\ dispatch.todo = {} /\ dispatch' = Returned
    /\ UNCHANGED <<owner, slot, fault, claimed, pending, current, rollback, hw, faults>>
-------------------------------------------------------------------------------
Next ==
    \/ \E c \in Clients : acquire_promiscuous(c) \/ release_fails(c) \/ release_promiscuous(c)
    \/ dispatch_enter \/ dispatch_return \/ \E i \in Slots : dispatch_sink(i)

Spec == Init /\ [][Next]_vars
-------------------------------------------------------------------------------
TypeOK ==
    /\ \A c \in Clients : owner[c] \in {"none", "open", "closing"}
    /\ pending <=> rollback # <<>>
    /\ pending => fault

\* A subscriber the callback has entered keeps its slot, and its owner keeps
\* the radio: no session memory goes while its sink may run.
EnteredKept ==
    \A i \in dispatch.todo : slot[i].phase \in {"active", "closing"} /\ slot[i].entered
                             /\ owner[slot[i].client] # "none"

\* Owners and slots agree: an open subscriber is admitted, a closing one is
\* not, and a client that owns nothing has left no slot behind.
SlotsExact ==
    /\ \A c \in Clients \ Plain : Cardinality(SlotOf(c)) = IF owner[c] = "none" THEN 0 ELSE 1
    /\ \A i \in Slots : slot[i].phase # "free" =>
          (slot[i].phase = "active") = (owner[slot[i].client] = "open")

\* Unless a rollback is still owed, the driver has exactly what was last
\* applied: every open owner's packets pass, and with the last owner gone the
\* settings found at the start are back.
DriverExact ==
    ~pending =>
        /\ hw = current
        /\ \A c \in Open : hw.enable /\ (c \notin Plain => hw.callback /\ Filter[c] \subseteq hw.packet)
        /\ (\A c \in Clients : owner[c] = "none") => hw = Off /\ ~claimed

PromiscuousSafe == TypeOK /\ EnteredKept /\ SlotsExact /\ DriverExact
=============================================================================
