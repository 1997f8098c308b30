----------------------------- MODULE RadioChannel -----------------------------
(***************************************************************************)
(* The radio's channel (wifi_radio.c): leases may fix it, the driver may   *)
(* move it (a connection, a channel switch), and two tasks observe it: the *)
(* caller that holds the operation mutex and the event handler.  Each      *)
(* observation reads a revision, asks the driver and commits only if the   *)
(* revision has not moved.                                                 *)
(***************************************************************************)
EXTENDS Naturals, FiniteSets

CONSTANTS
    Clients,     \* radio leases
    Channels,    \* primary channels, numbers above 0
    Overlap,     \* the event handler may observe the channel while a call does
    MaxMoves, MaxCalls, MaxFaults   \* bounds

VARIABLES
    lease,       \* fixed channel (0: none) and latched conflict of each lease
    cache,       \* primary_channel, channel_generation, observation revision and error
    actual,      \* the channel of the driver
    linked,      \* a connection or an access point holds the channel
    operation,   \* s_radio.operation: a scan or a connect
    posted,      \* channel events in the event loop
    handler,     \* the event handler: its observation, or idle
    call,        \* set_channel or a channel read, step by step
    moves, calls, faults

vars == <<lease, cache, actual, linked, operation, posted, handler, call, moves, calls, faults>>

NoLease == [channel |-> 0, conflict |-> FALSE]
NoSight == [pc |-> "idle", revision |-> 0, seen |-> 0]
NoCall == [pc |-> "idle", client |-> CHOOSE c \in Clients : TRUE, channel |-> 0, revision |-> 0,
           seen |-> 0]

Init ==
    /\ lease = [c \in Clients |-> NoLease]
    /\ cache = [primary |-> 0, generation |-> 0, revision |-> 0, error |-> FALSE]
    /\ actual \in Channels /\ linked = FALSE /\ operation = FALSE /\ posted = 0
    /\ handler = NoSight /\ call = NoCall /\ moves = 0 /\ calls = 0 /\ faults = 0

Fault == faults < MaxFaults /\ faults' = faults + 1
-------------------------------------------------------------------------------
(* wifi_radio_refresh_channel: what an observation commits. *)

Current(sight) == sight.revision = cache.revision

Seen(sight) ==
    IF ~Current(sight) THEN cache
    ELSE IF sight.seen = 0 THEN [cache EXCEPT !.revision = @ + 1, !.error = TRUE]
    ELSE [primary |-> sight.seen, revision |-> cache.revision + 1, error |-> FALSE,
          generation |-> IF cache.generation = 0 \/ cache.primary # sight.seen
                         THEN cache.generation + 1 ELSE cache.generation]

\* Mutation: a drift back to the fixed channel clears the conflict.
Latched_again(sight) ==
    [c \in Clients |-> IF Current(sight) /\ sight.seen # 0 /\ lease[c].channel # 0
                       THEN [lease[c] EXCEPT !.conflict = lease[c].channel # sight.seen] ELSE lease[c]]

Latched(sight) ==
    [c \in Clients |-> IF Current(sight) /\ sight.seen # 0 /\ lease[c].channel \notin {0, sight.seen}
                       THEN [lease[c] EXCEPT !.conflict = TRUE] ELSE lease[c]]

\* The driver moves by itself and tells (HOME_CHANNEL_CHANGE, STA_CONNECTED,
\* AP_START); a disconnect leaves the channel where it is.
driver_moves(c, link) ==
    /\ moves < MaxMoves /\ moves' = moves + 1
    /\ c # actual \/ link # linked
    /\ actual' = c /\ linked' = link
    /\ posted' = IF c # actual \/ link THEN posted + 1 ELSE posted
    /\ UNCHANGED <<lease, cache, operation, handler, call, calls, faults>>

\* wifi_radio_channel_event
event_reads ==
    /\ posted > 0 /\ handler.pc = "idle" /\ posted' = posted - 1
    /\ Overlap \/ call.pc = "idle"
    /\ handler' = [pc |-> "read", revision |-> cache.revision, seen |-> actual]
    /\ UNCHANGED <<lease, cache, actual, linked, operation, call, moves, calls, faults>>

event_commits ==
    /\ handler.pc = "read" /\ handler' = NoSight
    /\ cache' = Seen(handler) /\ lease' = Latched(handler)
    /\ UNCHANGED <<actual, linked, operation, posted, call, moves, calls, faults>>
-------------------------------------------------------------------------------
(* The callers, one at a time under the operation mutex. *)

Fixed == {c \in Clients : lease[c].channel # 0}
Conflicted == {c \in Clients : lease[c].conflict}

\* wifi_radio_set_channel_locked: the checks before the driver is asked.
Admitted(c, channel) ==
    /\ ~operation /\ ~lease[c].conflict
    /\ \A d \in Fixed \ {c} : lease[d].channel = channel /\ ~lease[d].conflict

set_channel(c, channel) ==
    /\ call.pc = "idle" /\ (Overlap \/ handler.pc = "idle") /\ calls < MaxCalls /\ calls' = calls + 1
    /\ Admitted(c, channel)
    /\ \/ call' = [pc |-> "read", client |-> c, channel |-> channel, revision |-> cache.revision,
                   seen |-> actual] /\ UNCHANGED faults
       \/ Fault /\ call' = [pc |-> "read", client |-> c, channel |-> channel,
                            revision |-> cache.revision, seen |-> 0]
    /\ UNCHANGED <<lease, cache, actual, linked, operation, posted, handler, moves>>

\* esp32_mquickjs_wifi_radio_get_channel: an observation and nothing else.
get_channel ==
    /\ call.pc = "idle" /\ (Overlap \/ handler.pc = "idle") /\ calls < MaxCalls /\ calls' = calls + 1
    /\ call' = [NoCall EXCEPT !.pc = "read", !.revision = cache.revision, !.seen = actual]
    /\ UNCHANGED <<lease, cache, actual, linked, operation, posted, handler, moves, faults>>

\* The observation commits, and its result decides: a conflict it found, a
\* failed read, or a connection that holds another channel refuse the write.
Writable(channel) ==
    /\ ~Seen(call).error /\ \A c \in Clients : ~Latched(call)[c].conflict
    /\ linked => actual = channel /\ Seen(call).primary = channel

set_channel_observes ==
    /\ call.pc = "read"
    /\ cache' = Seen(call) /\ lease' = Latched(call)
    /\ call' = IF call.channel # 0 /\ Writable(call.channel)
               THEN [call EXCEPT !.pc = "write", !.seen = Seen(call).primary] ELSE NoCall
    /\ UNCHANGED <<actual, linked, operation, posted, handler, moves, calls, faults>>

\* esp_wifi_set_channel, unless the radio was seen there; the revision is read
\* before it.
set_channel_writes ==
    /\ call.pc = "write"
    /\ \/ /\ call' = [call EXCEPT !.pc = "commit", !.revision = cache.revision]
          /\ actual' = IF call.seen = call.channel THEN actual ELSE call.channel
          /\ UNCHANGED faults
       \/ call.seen # call.channel /\ Fault /\ call' = NoCall /\ UNCHANGED actual
    /\ UNCHANGED <<lease, cache, linked, operation, posted, handler, moves, calls>>

Overtaken == call.revision # cache.revision /\ (cache.primary # call.channel \/ cache.error)

set_channel_commits ==
    /\ call.pc = "commit" /\ call' = NoCall
    /\ IF Overtaken \/ lease[call.client].conflict THEN UNCHANGED <<cache, lease>>
       ELSE /\ cache' = [primary |-> call.channel, revision |-> cache.revision + 1, error |-> FALSE,
                         generation |-> IF cache.primary # call.channel THEN cache.generation + 1
                                        ELSE cache.generation]
            /\ lease' = [lease EXCEPT ![call.client].channel = call.channel]
    /\ UNCHANGED <<actual, linked, operation, posted, handler, moves, calls, faults>>

\* wifi_radio_release_channel_locked, and the release of the lease.
release_channel(c) ==
    /\ call.pc = "idle" /\ lease[c] # NoLease
    /\ lease' = [lease EXCEPT ![c] = NoLease]
    /\ UNCHANGED <<cache, actual, linked, operation, posted, handler, call, moves, calls, faults>>

\* begin_operation and end_operation (scan, connect).
begin_operation ==
    /\ call.pc = "idle" /\ ~operation /\ Fixed = {} /\ calls < MaxCalls /\ calls' = calls + 1
    /\ operation' = TRUE
    /\ UNCHANGED <<lease, cache, actual, linked, posted, handler, call, moves, faults>>

end_operation ==
    /\ call.pc = "idle" /\ operation /\ operation' = FALSE
    /\ UNCHANGED <<lease, cache, actual, linked, posted, handler, call, moves, calls, faults>>
-------------------------------------------------------------------------------
Next ==
    \/ \E ch \in Channels, link \in BOOLEAN : driver_moves(ch, link)
    \/ event_reads \/ event_commits
    \/ \E c \in Clients, ch \in Channels : set_channel(c, ch)
    \/ get_channel \/ set_channel_observes \/ set_channel_writes \/ set_channel_commits
    \/ \E c \in Clients : release_channel(c)
    \/ begin_operation \/ end_operation

Spec == Init /\ [][Next]_vars
-------------------------------------------------------------------------------
TypeOK ==
    /\ \A c \in Clients : lease[c].channel \in Channels \union {0}
    /\ cache.primary \in Channels \union {0} /\ actual \in Channels

\* Once every channel event has been handled, an owner that fixed the channel
\* is on it, or its conflict is latched: no drift is overlooked.
DriftLatched ==
    posted = 0 /\ handler.pc = "idle" /\ call.pc = "idle" =>
        \A c \in Fixed : lease[c].channel = actual \/ lease[c].conflict

\* Owners agree on one channel, and nobody scans or connects off it.
OwnersAgree ==
    /\ \A c, d \in Fixed : lease[c].channel = lease[d].channel \/ lease[c].conflict \/ lease[d].conflict
    /\ operation => Fixed = {}

ChannelSafe == TypeOK /\ DriftLatched /\ OwnersAgree

\* A latched conflict stays until its owner gives the channel back, also when
\* the driver returns to it.
Latches == \A c \in Clients : lease[c].conflict => lease'[c].conflict \/ lease'[c] = NoLease
ConflictStays == [][Latches]_vars
=============================================================================
