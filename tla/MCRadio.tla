---------------------------- MODULE MCRadio ----------------------------
(**************************************************************************)
(* The wireless components: the radio service (leases of the driver, the  *)
(* promiscuous receiver and its subscribers, channel ownership), the      *)
(* frames of the monitor, raw transmission (the broker of the driver's    *)
(* callbacks, sessions, periodic jobs and single sends), ESP-NOW with its *)
(* peer table, and Bluetooth LE (adapter, connections, GATT client and    *)
(* server). Each behaviour is of one of them.                             *)
(**************************************************************************)
EXTENDS MonitorFrames, FiniteSets, Sequences

VARIABLES
    unit,  \* the component this behaviour is of
    x1, x2, x3, x4, x5, x6, x7, x8, x9, x10, x11, x12, x13, x14, x15, x16, x17, x18, x19,
    x20, x21  \* its variables

\* A peer with three services, and one with a single characteristic.
PeerTable == << [start |-> 1, end |-> 6, chars |-> <<[decl |-> 2, value |-> 3, dscs |-> <<4>>],
                                                     [decl |-> 5, value |-> 6, dscs |-> <<>>]>>],
                [start |-> 7, end |-> 7, chars |-> <<>>],
                [start |-> 8, end |-> 11, chars |-> <<[decl |-> 9, value |-> 10, dscs |-> <<11>>]>>] >>
SmallTable == << [start |-> 1, end |-> 4, chars |-> <<[decl |-> 2, value |-> 3, dscs |-> <<4>>]>>] >>
Tables(s, c, d) == [services |-> s, characteristics |-> c, descriptors |-> d]

\* How often a behaviour may open, send, queue a batch and fail.
Often(o, s, b, f) == [opens |-> o, sends |-> s, batches |-> b, faults |-> f]
LimitSets == {Often(1, 1, 0, 1), Often(1, 0, 1, 1), Often(1, 1, 1, 0), Often(1, 0, 2, 0),
              Often(2, 1, 0, 0), Often(1, 2, 0, 0)}

Radio == INSTANCE WifiRadio WITH
    Interfaces <- {"sta", "ap"}, Clients <- {"a", "b"},
    ModeOf <- [c \in {"a", "b"} |-> IF c = "a" THEN {"sta"} ELSE {"ap"}],
    Identities <- 6, Generations <- 2, MaxFaults <- 3, radio <- x1, events <- x2,
    handle <- x3, using <- x4, handler <- x5, call <- x6, driver <- x7, loop <- x8,
    faults <- x9

Receiver == INSTANCE Promiscuous WITH
    Clients <- {"m", "n", "p"}, Plain <- {"p"}, Slots <- {1, 2}, Baseline <- {"data"},
    Filter <- [c \in {"m", "n", "p"} |-> IF c = "m" THEN {"mgmt"} ELSE {"ctrl"}],
    MaxFaults <- 3, owner <- x1, slot <- x2, fault <- x3, claimed <- x4, pending <- x5,
    current <- x6, rollback <- x7, hw <- x8, dispatch <- x9, faults <- x10

Channel == INSTANCE RadioChannel WITH
    Clients <- {"a", "b"}, Channels <- {1, 6}, Overlap <- FALSE, MaxMoves <- 3,
    MaxCalls <- 3, MaxFaults <- 1, lease <- x1, cache <- x2, actual <- x3, linked <- x4,
    operation <- x5, posted <- x6, handler <- x7, call <- x8, moves <- x9, calls <- x10,
    faults <- x11

Tagged == INSTANCE RawTxBroker WITH
    Descriptors <- {1, 2}, Fixed <- FALSE, MaxPackets <- 3, MaxLeases <- 2, MaxFaults <- 1,
    Slots <- {1, 2}, Exact <- TRUE, Spurious <- TRUE, b <- x1, recs <- x2, cb <- x3,
    radio <- x4, rcv <- x5, owner <- x6, tokens <- x7, faulted <- x8, seen <- x9,
    told <- x10, call <- x11, sdk <- x12, said <- x13, last <- x14, leases <- x15,
    faults <- x16

Shared == INSTANCE RawTxBroker WITH
    Descriptors <- {1, 2, 3}, Fixed <- FALSE, MaxPackets <- 3, MaxLeases <- 2,
    MaxFaults <- 2, Slots <- {1}, Exact <- FALSE, Spurious <- FALSE, b <- x1,
    recs <- x2, cb <- x3, radio <- x4, rcv <- x5, owner <- x6, tokens <- x7,
    faulted <- x8, seen <- x9, told <- x10, call <- x11, sdk <- x12, said <- x13,
    last <- x14, leases <- x15, faults <- x16

Queued == INSTANCE RawTxSession WITH
    Sessions <- {1}, Rated <- {}, Capacity <- 2, CapacityBytes <- 3, Window <- 2,
    DropOldest <- TRUE, Batches <- {<<1>>, <<1, 2>>}, Polls <- TRUE, MaxPackets <- 2,
    MaxFutures <- 1, MaxFaults <- 1, ses <- x1, q <- x2, fut <- x3, lane <- x4, w <- x5,
    nat <- x6, pump <- x7, fate <- x8, faults <- x9

Fair == INSTANCE RawTxSession WITH
    Sessions <- {1, 2}, Rated <- {1}, Capacity <- 3, CapacityBytes <- 4, Window <- 1,
    DropOldest <- TRUE, Batches <- {<<1>>}, Polls <- TRUE, MaxPackets <- 1,
    MaxFutures <- 0, MaxFaults <- 0, ses <- x1, q <- x2, fut <- x3, lane <- x4, w <- x5,
    nat <- x6, pump <- x7, fate <- x8, faults <- x9

Periodic == INSTANCE RawTxPeriodic WITH
    Interval <- 1, Count <- 0, CountMax <- 1, StopWhenBusy <- FALSE, StopOnError <- TRUE,
    MaxTime <- 1, MaxFaults <- 1, now <- x1, led <- x2, job <- x3, w <- x4, cb <- x5,
    svc <- x6, own <- x7, res <- x8, session <- x9, later <- x10, faults <- x11

Single == INSTANCE RawTxSend WITH
    Sends <- {1, 2, 3}, Capacity <- 2, MaxOthers <- 2, MaxFaults <- 2, st <- x1, ret <- x2,
    lane <- x3, nat <- x4, w <- x5, cw <- x6, others <- x7, lost <- x8, faults <- x9

Now == INSTANCE EspNow WITH
    Capacity <- 2, DropOldest <- TRUE, Limits <- LimitSets, life <- x1, tx <- x2, drv <- x3,
    own <- x4, q <- x5, qdone <- x6, active_send <- x7, pending_tracked_send <- x8,
    snd <- x9, worker <- x10, cb <- x11, rx <- x12, recovery <- x13, rebuild <- x14,
    closer <- x15, cleanup_scheduled <- x16, active_close <- x17,
    reaper_registered <- x18, handle <- x19, n <- x20, hist <- x21

Peers == INSTANCE EspNowPeers WITH
    Slots <- 2, Addresses <- {"a1", "a2"}, MaxEncrypted <- 1, MaxCalls <- 3, MaxOpens <- 2,
    MaxRefusals <- 1, peers <- x1, native <- x2, count <- x3, encrypted <- x4,
    ops <- x5, refs <- x6, session <- x7, used <- x8

Ble == INSTANCE BleConnection WITH
    Slots <- {0, 1}, Handles <- {1, 2}, Kinds <- {"connect", "gatt", "pair", "close"},
    Reuse <- FALSE, Drops <- {"open"}, QueueLength <- 1, MaxOps <- 2, MaxLinks <- 2,
    MaxFaults <- 1, slot <- x1, op <- x2, link <- x3, attempt <- x4, procs <- x5,
    incoming <- x6, advertiser <- x7, held <- x8, rejected <- x9, orphan <- x10,
    generation <- x11, links <- x12, faults <- x13

Adapter == INSTANCE BleAdapter WITH
    Roles <- {"scan", "advertise"}, Kinds <- {"scan", "advertise", "role_close", "close"},
    Capacity <- 1, Overlap <- FALSE, Timeouts <- {"open", "scan", "scan_close"},
    MaxOps <- 4, MaxEvents <- 2, MaxFaults <- 1, life <- x1, gen <- x2, port <- x3,
    host <- x4, synced <- x5, role <- x6, ident <- x7, native <- x8, cb <- x9,
    op <- x10, job <- x11, orphan <- x12, held <- x13, stolen <- x14, events <- x15,
    faults <- x16

Discovery == INSTANCE BleGatt WITH
    Capacity <- 1, Overlap <- FALSE, Share <- FALSE, MaxFaults <- 1, Remote <- PeerTable,
    Limit <- Tables(3, 3, 4), Kinds <- {"discover", "read", "write_no_rsp", "close"},
    Subs <- {1}, MaxOps <- 3, MaxLinks <- 2, MaxValues <- 0, slot <- x1, table <- x2,
    sub <- x3, op <- x4, proc <- x5, enabled <- x6, rx <- x7, told <- x8, subs <- x9,
    values <- x10, links <- x11, faults <- x12

Notices == INSTANCE BleGatt WITH
    Capacity <- 1, Overlap <- FALSE, Share <- FALSE, MaxFaults <- 1, Remote <- SmallTable,
    Limit <- Tables(1, 1, 0), Kinds <- {"discover", "subscribe", "unsubscribe"},
    Subs <- {1, 2}, MaxOps <- 4, MaxLinks <- 1, MaxValues <- 2, slot <- x1, table <- x2,
    sub <- x3, op <- x4, proc <- x5, enabled <- x6, rx <- x7, told <- x8, subs <- x9,
    values <- x10, links <- x11, faults <- x12

Notifier == INSTANCE BleServer WITH
    Conns <- {1, 2}, Capacity <- 1, MaxLinks <- 2, MaxFaults <- 1, Subscribes <- FALSE,
    MaxOps <- 2, MaxWrites <- 1, conn <- x1, op <- x2, active <- x3, busy <- x4,
    free <- x5, queue <- x6, value <- x7, acked <- x8, sequence <- x9, given <- x10,
    writes <- x11, links <- x12, faults <- x13

Writes == INSTANCE BleServer WITH
    Conns <- {1, 2}, Capacity <- 1, MaxLinks <- 3, MaxFaults <- 1, Subscribes <- TRUE,
    MaxOps <- 0, MaxWrites <- 2, conn <- x1, op <- x2, active <- x3, busy <- x4,
    free <- x5, queue <- x6, value <- x7, acked <- x8, sequence <- x9, given <- x10,
    writes <- x11, links <- x12, faults <- x13

\* The variables a component of n variables does not have.
Blank(n) ==
    /\ n < 8 => x1 = 0 /\ x2 = 0 /\ x3 = 0 /\ x4 = 0 /\ x5 = 0 /\ x6 = 0 /\ x7 = 0
                /\ x8 = 0
    /\ n < 9 => x9 = 0
    /\ n < 10 => x10 = 0
    /\ n < 11 => x11 = 0
    /\ n < 12 => x12 = 0
    /\ n < 13 => x13 = 0
    /\ n < 16 => x14 = 0 /\ x15 = 0 /\ x16 = 0
    /\ n < 21 => x17 = 0 /\ x18 = 0 /\ x19 = 0 /\ x20 = 0 /\ x21 = 0
Still(n) ==
    /\ UNCHANGED unit
    /\ n < 8 => UNCHANGED <<x1, x2, x3, x4, x5, x6, x7, x8>>
    /\ n < 9 => UNCHANGED x9
    /\ n < 10 => UNCHANGED x10
    /\ n < 11 => UNCHANGED x11
    /\ n < 12 => UNCHANGED x12
    /\ n < 13 => UNCHANGED x13
    /\ n < 16 => UNCHANGED <<x14, x15, x16>>
    /\ n < 21 => UNCHANGED <<x17, x18, x19, x20, x21>>

MCVars == <<unit, frameVars, x1, x2, x3, x4, x5, x6, x7, x8, x9, x10, x11, x12, x13, x14, x15, x16, x17,
    x18, x19, x20, x21>>

MCInit ==
    /\ FramesInit
    /\ \/ unit = "monitor" /\ Blank(0)
       \/ unit = "radio" /\ Radio!Init /\ Blank(9)
       \/ unit = "receiver" /\ Receiver!Init /\ Blank(10)
       \/ unit = "channel" /\ Channel!Init /\ Blank(11)
       \/ unit = "tagged" /\ Tagged!Init /\ Blank(16)
       \/ unit = "shared" /\ Shared!Init /\ Blank(16)
       \/ unit = "queued" /\ Queued!Init /\ Blank(9)
       \/ unit = "fair" /\ Fair!Init /\ Blank(9)
       \/ unit = "periodic" /\ Periodic!Init /\ Blank(11)
       \/ unit = "single" /\ Single!Init /\ Blank(9)
       \/ unit = "espnow" /\ Now!Init /\ Blank(21)
       \/ unit = "peers" /\ Peers!Init /\ Blank(8)
       \/ unit = "ble" /\ Ble!Init /\ Blank(13)
       \/ unit = "adapter" /\ Adapter!Init /\ Blank(16)
       \/ unit = "discovery" /\ Discovery!Init /\ Blank(12)
       \/ unit = "notices" /\ Notices!Init /\ Blank(12)
       \/ unit = "notifier" /\ Notifier!Init /\ Blank(13)
       \/ unit = "writes" /\ Writes!Init /\ Blank(13)
    /\ unit # "monitor" => \A c \in Callers : at[c] = CHOOSE e \in Tokens : TRUE

MCNext ==
    \/ unit = "monitor" /\ FramesNext /\ Still(0)
    \/ unit = "radio" /\ Radio!Next /\ Still(9) /\ UNCHANGED frameVars
    \/ unit = "receiver" /\ Receiver!Next /\ Still(10) /\ UNCHANGED frameVars
    \/ unit = "channel" /\ Channel!Next /\ Still(11) /\ UNCHANGED frameVars
    \/ unit = "tagged" /\ Tagged!Next /\ Still(16) /\ UNCHANGED frameVars
    \/ unit = "shared" /\ Shared!Next /\ Still(16) /\ UNCHANGED frameVars
    \/ unit = "queued" /\ Queued!Next /\ Still(9) /\ UNCHANGED frameVars
    \/ unit = "fair" /\ Fair!Next /\ Still(9) /\ UNCHANGED frameVars
    \/ unit = "periodic" /\ Periodic!Next /\ Still(11) /\ UNCHANGED frameVars
    \/ unit = "single" /\ Single!Next /\ Still(9) /\ UNCHANGED frameVars
    \/ unit = "espnow" /\ Now!Next /\ Still(21) /\ UNCHANGED frameVars
    \/ unit = "peers" /\ Peers!Next /\ Still(8) /\ UNCHANGED frameVars
    \/ unit = "ble" /\ Ble!Next /\ Still(13) /\ UNCHANGED frameVars
    \/ unit = "adapter" /\ Adapter!Next /\ Still(16) /\ UNCHANGED frameVars
    \/ unit = "discovery" /\ Discovery!Next /\ Still(12) /\ UNCHANGED frameVars
    \/ unit = "notices" /\ Notices!Next /\ Still(12) /\ UNCHANGED frameVars
    \/ unit = "notifier" /\ Notifier!Next /\ Still(13) /\ UNCHANGED frameVars
    \/ unit = "writes" /\ Writes!Next /\ Still(13) /\ UNCHANGED frameVars

MCSpec == MCInit /\ [][MCNext]_MCVars
-------------------------------------------------------------------------------
\* The radio is settled when no call is under way, clients that use it are
\* served, the driver is up only for an owner, and a fixed owner whose
\* channel the driver has left is latched as in conflict.
RadioSafe ==
    /\ unit = "radio" => Radio!RadioSafe
    /\ unit = "channel" => Channel!ChannelSafe

\* A subscriber that was entered stays until its sink has returned, slots are
\* exact, and the driver has the settings the open subscribers ask for.
PromiscuousSafe ==
    /\ unit = "receiver" => Receiver!PromiscuousSafe

\* Every packet is settled once and by its own callback, batches stay whole,
\* grants and windows are exact, and records outlive the timers, workers and
\* callbacks that reach them.
RawTxSafe ==
    /\ unit = "tagged" => Tagged!RawTxBrokerSafe
    /\ unit = "shared" => Shared!RawTxBrokerSafe
    /\ unit = "queued" => Queued!RawTxSessionSafe
    /\ unit = "fair" => Fair!RawTxSessionSafe
    /\ unit = "periodic" => Periodic!PeriodicSafe
    /\ unit = "single" => Single!RawTxSendSafe

\* A send is completed by its own driver callback, only batches that have not
\* started are evicted, callbacks find the session alive, a closed session
\* has given everything back, and the table of peers agrees with the driver.
NowSafe ==
    /\ unit = "espnow" => Now!NowSafe
    /\ unit = "peers" => Peers!PeersInv

\* No callback of the host meets freed memory, slots and host agree on the
\* links, tables and subscriptions are those of the current discovery,
\* indications are confirmed once each, and nothing leaks.
BleSafe ==
    /\ unit = "ble" => Ble!BleSafe
    /\ unit = "adapter" => Adapter!BleAdapterSafe
    /\ unit = "discovery" => Discovery!GattSafe
    /\ unit = "notices" => Notices!GattSafe
    /\ unit = "notifier" => Notifier!ServerSafe
    /\ unit = "writes" => Writes!ServerSafe

\* A latched conflict stays until its owner gives the channel up or takes it
\* again.
ConflictStays == [][
    /\ unit = "channel" => Channel!Latches]_MCVars

===============================================================================
