---------------------------- MODULE MCProgress ----------------------------
(***********************************************************************)
(* What must end: the task of the managed runtime against the calls of *)
(* the host, and the components that release slots, buses, ports and   *)
(* sessions only when their operations are over, on instances small    *)
(* enough for liveness. Each behaviour is of one of them.              *)
(***********************************************************************)
EXTENDS RuntimeLifecycle, Naturals, FiniteSets, Sequences

VARIABLES
    unit,  \* the component this behaviour is of
    x1, x2, x3, x4, x5, x6, x7, x8, x9, x10, x11, x12, x13, x14, x15, x16, x17, x18, x19,
    x20, x21  \* its variables

Stream == INSTANCE Streams WITH
    Slots <- {0}, StreamKinds <- {"file"}, RespondBusy <- FALSE, MaxOpens <- 1, MaxOps <- 2,
    MaxObjects <- 2, MaxSpans <- 1, MaxFaults <- 1, slot <- x1, objects <- x2, op <- x3,
    unannounced <- x4, n <- x5

Spi == INSTANCE SpiBus WITH
    Devices <- {0}, Depth <- 2, Kinds <- {"direct", "transfer"}, Sizes <- {3},
    MaxOpens <- 2, MaxOps <- 2, MaxFaults <- 1, bus <- x1, dev <- x2, refs <- x3,
    op <- x4, hw <- x5, at <- x6, generation <- x7, faults <- x8

Watched == INSTANCE UartPort WITH
    Cores <- 1, Idle <- FALSE, MinBytes <- 1, Capacity <- 1, MaxBytes <- 2, TxSize <- 1,
    MaxOpens <- 1, MaxFaults <- 1, MaxEvents <- 1, Kinds <- {"read"}, MaxWatches <- 1,
    MaxRx <- 2, MaxOps <- 1, port <- x1, watch <- x2, task <- x3, driver <- x4,
    queue <- x5, stale <- x6, op <- x7, js <- x8, ref <- x9, count <- x10

Lanes == INSTANCE UartPort WITH
    Cores <- 1, Idle <- FALSE, MinBytes <- 1, Capacity <- 1, MaxBytes <- 2, TxSize <- 1,
    MaxOpens <- 2, MaxFaults <- 1, MaxEvents <- 1, Kinds <- {"read", "write", "flush"},
    MaxWatches <- 0, MaxRx <- 1, MaxOps <- 1, port <- x1, watch <- x2, task <- x3,
    driver <- x4, queue <- x5, stale <- x6, op <- x7, js <- x8, ref <- x9, count <- x10

Tls == INSTANCE Sockets WITH
    Slots <- {0}, Overlap <- FALSE, MaxOpens <- 1, MaxOps <- 1, MaxConns <- 1,
    MaxFaults <- 1, Protocols <- {"tls", "tcp", "listener", "udp"}, entry <- x1,
    handle <- x2, op <- x3, dns <- x4, tls <- x5, live <- x6, faults <- x7

Now == INSTANCE EspNow WITH
    Capacity <- 1, DropOldest <- TRUE,
    Limits <- {[opens |-> 1, sends |-> 1, batches |-> 0, faults |-> 0]}, life <- x1,
    tx <- x2, drv <- x3, own <- x4, q <- x5, qdone <- x6, active_send <- x7,
    pending_tracked_send <- x8, snd <- x9, worker <- x10, cb <- x11, rx <- x12,
    recovery <- x13, rebuild <- x14, closer <- x15, cleanup_scheduled <- x16,
    active_close <- x17, reaper_registered <- x18, handle <- x19, n <- x20, hist <- x21

Ble == INSTANCE BleConnection WITH
    Slots <- {0}, Handles <- {1}, Kinds <- {"connect", "close"}, Reuse <- FALSE,
    Drops <- {}, QueueLength <- 1, MaxOps <- 2, MaxLinks <- 1, MaxFaults <- 1,
    slot <- x1, op <- x2, link <- x3, attempt <- x4, procs <- x5, incoming <- x6,
    advertiser <- x7, held <- x8, rejected <- x9, orphan <- x10, generation <- x11,
    links <- x12, faults <- x13

Radio == INSTANCE WifiRadio WITH
    Interfaces <- {"sta", "ap"}, Clients <- {"a", "b"},
    ModeOf <- [c \in {"a", "b"} |-> IF c = "a" THEN {"sta"} ELSE {"ap"}],
    Identities <- 6, Generations <- 2, MaxFaults <- 2, radio <- x1, events <- x2,
    handle <- x3, using <- x4, handler <- x5, call <- x6, driver <- x7, loop <- x8,
    faults <- x9

Notifier == INSTANCE BleServer WITH
    Conns <- {1, 2}, Capacity <- 1, MaxLinks <- 2, MaxFaults <- 1, Subscribes <- FALSE,
    MaxOps <- 1, MaxWrites <- 0, conn <- x1, op <- x2, active <- x3, busy <- x4,
    free <- x5, queue <- x6, value <- x7, acked <- x8, sequence <- x9, given <- x10,
    writes <- x11, links <- x12, faults <- x13

Packets == INSTANCE RawTxSession WITH
    Sessions <- {1}, Rated <- {}, Capacity <- 2, CapacityBytes <- 2, Window <- 1,
    DropOldest <- TRUE, Batches <- {<<1>>}, Polls <- FALSE, MaxPackets <- 2,
    MaxFutures <- 0, MaxFaults <- 0, ses <- x1, q <- x2, fut <- x3, lane <- x4, w <- x5,
    nat <- x6, pump <- x7, fate <- x8, faults <- x9

Single == INSTANCE RawTxSend WITH
    Sends <- {1, 2}, Capacity <- 1, MaxOthers <- 1, MaxFaults <- 1, st <- x1, ret <- x2,
    lane <- x3, nat <- x4, w <- x5, cw <- x6, others <- x7, lost <- x8, faults <- x9

\* The variables a component of n variables does not have.
Blank(n) ==
    /\ n < 5 => x1 = 0 /\ x2 = 0 /\ x3 = 0 /\ x4 = 0 /\ x5 = 0
    /\ n < 7 => x6 = 0 /\ x7 = 0
    /\ n < 8 => x8 = 0
    /\ n < 9 => x9 = 0
    /\ n < 10 => x10 = 0
    /\ n < 13 => x11 = 0 /\ x12 = 0 /\ x13 = 0
    /\ n < 21 => x14 = 0 /\ x15 = 0 /\ x16 = 0 /\ x17 = 0 /\ x18 = 0 /\ x19 = 0 /\ x20 = 0
                /\ x21 = 0
Still(n) ==
    /\ UNCHANGED unit
    /\ n < 5 => UNCHANGED <<x1, x2, x3, x4, x5>>
    /\ n < 7 => UNCHANGED <<x6, x7>>
    /\ n < 8 => UNCHANGED x8
    /\ n < 9 => UNCHANGED x9
    /\ n < 10 => UNCHANGED x10
    /\ n < 13 => UNCHANGED <<x11, x12, x13>>
    /\ n < 21 => UNCHANGED <<x14, x15, x16, x17, x18, x19, x20, x21>>

MCVars == <<unit, vars, x1, x2, x3, x4, x5, x6, x7, x8, x9, x10, x11, x12, x13, x14, x15, x16, x17, x18,
    x19, x20, x21>>

MCInit ==
    /\ Init
    /\ \/ unit = "lifecycle" /\ Blank(0)
       \/ unit = "streams" /\ Stream!Init /\ Blank(5)
       \/ unit = "spi" /\ Spi!Init /\ Blank(8)
       \/ unit = "watch" /\ Watched!Init /\ Blank(10)
       \/ unit = "lanes" /\ Lanes!Init /\ Blank(10)
       \/ unit = "tls" /\ Tls!Init /\ Blank(7)
       \/ unit = "espnow" /\ Now!Init /\ Blank(21)
       \/ unit = "ble" /\ Ble!Init /\ Blank(13)
       \/ unit = "radio" /\ Radio!Init /\ Blank(9)
       \/ unit = "notifier" /\ Notifier!Init /\ Blank(13)
       \/ unit = "packets" /\ Packets!Init /\ Blank(9)
       \/ unit = "single" /\ Single!Init /\ Blank(9)

MCNext ==
    \/ unit = "lifecycle" /\ Next /\ Still(0)
    \/ unit = "streams" /\ Stream!Next /\ Still(5) /\ UNCHANGED vars
    \/ unit = "spi" /\ Spi!Next /\ Still(8) /\ UNCHANGED vars
    \/ unit = "watch" /\ Watched!Next /\ Still(10) /\ UNCHANGED vars
    \/ unit = "lanes" /\ Lanes!Next /\ Still(10) /\ UNCHANGED vars
    \/ unit = "tls" /\ Tls!Next /\ Still(7) /\ UNCHANGED vars
    \/ unit = "espnow" /\ Now!Next /\ Still(21) /\ UNCHANGED vars
    \/ unit = "ble" /\ Ble!Next /\ Still(13) /\ UNCHANGED vars
    \/ unit = "radio" /\ Radio!Next /\ Still(9) /\ UNCHANGED vars
    \/ unit = "notifier" /\ Notifier!Next /\ Still(13) /\ UNCHANGED vars
    \/ unit = "packets" /\ Packets!Next /\ Still(9) /\ UNCHANGED vars
    \/ unit = "single" /\ Single!Next /\ Still(9) /\ UNCHANGED vars

\* One component runs in a behaviour, so its k-th fair action is taken together
\* with the k-th of the others.
WeakStep(k) ==
    \/ unit = "streams" /\ Stream!Weak(k) /\ Still(5) /\ UNCHANGED vars
    \/ unit = "spi" /\ Spi!Weak(k) /\ Still(8) /\ UNCHANGED vars
    \/ unit = "watch" /\ Watched!Weak(k) /\ Still(10) /\ UNCHANGED vars
    \/ unit = "lanes" /\ Lanes!Weak(k) /\ Still(10) /\ UNCHANGED vars
    \/ unit = "tls" /\ Tls!Weak(k) /\ Still(7) /\ UNCHANGED vars
    \/ unit = "espnow" /\ Now!Weak(k) /\ Still(21) /\ UNCHANGED vars
    \/ unit = "ble" /\ Ble!Weak(k) /\ Still(13) /\ UNCHANGED vars
    \/ unit = "radio" /\ Radio!Weak(k) /\ Still(9) /\ UNCHANGED vars
    \/ unit = "notifier" /\ Notifier!Weak(k) /\ Still(13) /\ UNCHANGED vars
    \/ unit = "packets" /\ Packets!Weak(k) /\ Still(9) /\ UNCHANGED vars
    \/ unit = "single" /\ Single!Weak(k) /\ Still(9) /\ UNCHANGED vars

StrongStep(k) ==
    \/ unit = "spi" /\ Spi!Strong(k) /\ Still(8) /\ UNCHANGED vars
    \/ unit = "watch" /\ Watched!Strong(k) /\ Still(10) /\ UNCHANGED vars
    \/ unit = "lanes" /\ Lanes!Strong(k) /\ Still(10) /\ UNCHANGED vars
    \/ unit = "espnow" /\ Now!Strong(k) /\ Still(21) /\ UNCHANGED vars

MCSpec == MCInit /\ [][MCNext]_MCVars
    /\ (\A k \in 1 .. 4 : WF_vars(unit = "lifecycle" /\ Weak(k))) /\ (\A k \in 1 .. 4 : WF_MCVars(WeakStep(k))) /\ \A k \in 1 .. 3 : SF_MCVars(StrongStep(k))
-------------------------------------------------------------------------------
\* Stops of the runtime end, and requests for a restart or reboot are
\* performed.
RequestsEnd == \A k \in 0 .. 2 :
    (\/ unit = "lifecycle" /\ Owed(k))
    ~> (/\ unit = "lifecycle" => Paid(k))

\* A stream whose last object is gone is freed; closed SPI devices and buses,
\* UART ports and sockets are released once their operations have ended;
\* close() of a port returns; and a watcher of a port is told of buffered
\* data.
PeripheralsEnd == \A k \in 0 .. 3 :
    (\/ unit = "streams" /\ Stream!Owed(k)
     \/ unit = "spi" /\ Spi!Owed(k)
     \/ unit = "watch" /\ Watched!Owed(k)
     \/ unit = "lanes" /\ Lanes!Owed(k)
     \/ unit = "tls" /\ Tls!Owed(k))
    ~> (/\ unit = "streams" => Stream!Paid(k)
        /\ unit = "spi" => Spi!Paid(k)
        /\ unit = "watch" => Watched!Paid(k)
        /\ unit = "lanes" => Lanes!Paid(k)
        /\ unit = "tls" => Tls!Paid(k))

\* A close of the ESP-NOW session ends; a cancelled BLE connect frees its
\* slot; indications end; a start or stop of the radio that waits for driver
\* events ends; queued raw packets are sent without help of the script's
\* loop, and abandoned sends are freed.
WirelessEnds == \A k \in 0 .. 2 :
    (\/ unit = "espnow" /\ Now!Owed(k)
     \/ unit = "ble" /\ Ble!Owed(k)
     \/ unit = "notifier" /\ Notifier!Owed(k)
     \/ unit = "radio" /\ Radio!Owed(k)
     \/ unit = "packets" /\ Packets!Owed(1, k)
     \/ unit = "single" /\ Single!Owed(k))
    ~> (/\ unit = "espnow" => Now!Paid(k)
        /\ unit = "ble" => Ble!Paid(k)
        /\ unit = "notifier" => Notifier!Paid(k)
        /\ unit = "radio" => Radio!Paid(k)
        /\ unit = "packets" => Packets!Paid(1, k)
        /\ unit = "single" => Single!Paid(k))

===============================================================================
