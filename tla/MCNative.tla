---------------------------- MODULE MCNative ----------------------------
(**************************************************************************)
(* Native memory and the peripherals: the lock-free lease of every native *)
(* pool, the pool of CSI frames and the session that opens and retires    *)
(* it, the SPI and I2C buses, I2S and RMT channels, the camera, USB       *)
(* serial, and a UART port with watchers or with reads, writes and        *)
(* flushes in its lanes. Each behaviour is of one of them.                *)
(**************************************************************************)
EXTENDS NativeLease, Sequences

VARIABLES
    unit,  \* the component this behaviour is of
    x1, x2, x3, x4, x5, x6, x7, x8, x9, x10, x11, x12, x13, x14, x15, x16, x17, x18  \* its variables

Frames == INSTANCE CsiFrames WITH
    Slots <- {0, 1}, Wifi <- "wifi", Runtime <- "runtime", Worker <- "worker", MaxRefs <- 1,
    QueueLen <- 1, IdMax <- 3, used <- x1, slot <- x2, lease <- x3, res <- x4,
    entry <- x5, session <- x6, queue <- x7, held <- x8, pc <- x9, at <- x10

Session == INSTANCE CsiSession WITH
    Runtime <- "runtime", Worker <- "worker", lifecycle <- x1, resources <- x2, pool <- x3,
    accepting <- x4, callbacks <- x5, csi_enabled <- x6, callback_registered <- x7,
    promiscuous <- x8, radio <- x9, queue <- x10, queue_retained <- x11,
    close_requested <- x12, cleanup_scheduled <- x13, handle <- x14,
    reaper_registered <- x15, pc <- x16, op <- x17, restarted <- x18

Spi == INSTANCE SpiBus WITH
    Devices <- {0, 1}, Depth <- 2, Kinds <- {"direct", "transfer"}, Sizes <- {0, 3},
    MaxOpens <- 3, MaxOps <- 2, MaxFaults <- 1, bus <- x1, dev <- x2, refs <- x3,
    op <- x4, hw <- x5, at <- x6, generation <- x7, faults <- x8

I2c == INSTANCE I2cBus WITH
    MaxOpens <- 2, MaxDevices <- 2, MaxOps <- 3, MaxFaults <- 1, bus <- x1, dev <- x2,
    refs <- x3, op <- x4, worker <- x5, count <- x6

I2s == INSTANCE I2sChannel WITH
    Directions <- {"rx", "tx"}, MaxOpens <- 2, MaxOps <- 2, MaxFaults <- 1, port <- x1,
    obj <- x2, op <- x3, ready <- x4, count <- x5

Rmt == INSTANCE RmtChannel WITH
    Buffers <- {1, 2}, MaxOpens <- 2, MaxOps <- 2, MaxFaults <- 2, ch <- x1, obj <- x2,
    buf <- x3, op <- x4, hw <- x5, abort <- x6, count <- x7

Camera == INSTANCE CameraDevice WITH
    Overlap <- FALSE, MaxOpens <- 2, MaxOps <- 3, MaxFrames <- 2, MaxSources <- 2,
    MaxFaults <- 1, cam <- x1, obj <- x2, src <- x3, views <- x4, op <- x5,
    driver <- x6, count <- x7

Usb == INSTANCE UsbSerial WITH
    Length <- 2, Room <- 1, Reopen <- FALSE, MaxOpens <- 2, MaxOps <- 2, MaxFaults <- 1,
    s <- x1, handle <- x2, asked <- x3, op <- x4, leases <- x5, stdout <- x6,
    line <- x7, wire <- x8, count <- x9

Watched == INSTANCE UartPort WITH
    Cores <- 1, Idle <- FALSE, MinBytes <- 1, Capacity <- 1, MaxBytes <- 2, TxSize <- 1,
    MaxOpens <- 2, MaxFaults <- 1, MaxEvents <- 1, Kinds <- {"read"}, MaxWatches <- 2,
    MaxRx <- 2, MaxOps <- 1, port <- x1, watch <- x2, task <- x3, driver <- x4,
    queue <- x5, stale <- x6, op <- x7, js <- x8, ref <- x9, count <- x10

Lanes == INSTANCE UartPort WITH
    Cores <- 1, Idle <- FALSE, MinBytes <- 1, Capacity <- 1, MaxBytes <- 2, TxSize <- 1,
    MaxOpens <- 2, MaxFaults <- 1, MaxEvents <- 2, Kinds <- {"read", "write", "flush"},
    MaxWatches <- 0, MaxRx <- 1, MaxOps <- 2, port <- x1, watch <- x2, task <- x3,
    driver <- x4, queue <- x5, stale <- x6, op <- x7, js <- x8, ref <- x9, count <- x10

\* The variables a component of n variables does not have.
Blank(n) ==
    /\ n < 5 => x1 = 0 /\ x2 = 0 /\ x3 = 0 /\ x4 = 0 /\ x5 = 0
    /\ n < 6 => x6 = 0
    /\ n < 7 => x7 = 0
    /\ n < 8 => x8 = 0
    /\ n < 9 => x9 = 0
    /\ n < 10 => x10 = 0
    /\ n < 18 => x11 = 0 /\ x12 = 0 /\ x13 = 0 /\ x14 = 0 /\ x15 = 0 /\ x16 = 0 /\ x17 = 0
                /\ x18 = 0
Still(n) ==
    /\ UNCHANGED unit
    /\ n < 5 => UNCHANGED <<x1, x2, x3, x4, x5>>
    /\ n < 6 => UNCHANGED x6
    /\ n < 7 => UNCHANGED x7
    /\ n < 8 => UNCHANGED x8
    /\ n < 9 => UNCHANGED x9
    /\ n < 10 => UNCHANGED x10
    /\ n < 18 => UNCHANGED <<x11, x12, x13, x14, x15, x16, x17, x18>>

MCVars == <<unit, vars, x1, x2, x3, x4, x5, x6, x7, x8, x9, x10, x11, x12, x13, x14, x15, x16, x17, x18>>

MCInit ==
    /\ Init
    /\ \/ unit = "lease" /\ Blank(0)
       \/ unit = "frames" /\ Frames!Init /\ Blank(10)
       \/ unit = "session" /\ Session!Init /\ Blank(18)
       \/ unit = "spi" /\ Spi!Init /\ Blank(8)
       \/ unit = "i2c" /\ I2c!Init /\ Blank(6)
       \/ unit = "i2s" /\ I2s!Init /\ Blank(5)
       \/ unit = "rmt" /\ Rmt!Init /\ Blank(7)
       \/ unit = "camera" /\ Camera!Init /\ Blank(7)
       \/ unit = "usb" /\ Usb!Init /\ Blank(9)
       \/ unit = "watch" /\ Watched!Init /\ Blank(10)
       \/ unit = "lanes" /\ Lanes!Init /\ Blank(10)

MCNext ==
    \/ unit = "lease" /\ Next /\ Still(0)
    \/ unit = "frames" /\ Frames!Next /\ Still(10) /\ UNCHANGED vars
    \/ unit = "session" /\ Session!Next /\ Still(18) /\ UNCHANGED vars
    \/ unit = "spi" /\ Spi!Next /\ Still(8) /\ UNCHANGED vars
    \/ unit = "i2c" /\ I2c!Next /\ Still(6) /\ UNCHANGED vars
    \/ unit = "i2s" /\ I2s!Next /\ Still(5) /\ UNCHANGED vars
    \/ unit = "rmt" /\ Rmt!Next /\ Still(7) /\ UNCHANGED vars
    \/ unit = "camera" /\ Camera!Next /\ Still(7) /\ UNCHANGED vars
    \/ unit = "usb" /\ Usb!Next /\ Still(9) /\ UNCHANGED vars
    \/ unit = "watch" /\ Watched!Next /\ Still(10) /\ UNCHANGED vars
    \/ unit = "lanes" /\ Lanes!Next /\ Still(10) /\ UNCHANGED vars

MCSpec == MCInit /\ [][MCNext]_MCVars
-------------------------------------------------------------------------------
\* The count of leased frames never falls below the frames that are out, a
\* pool is freed only when nobody can reach it, and no pool is retired under
\* the receive callback.
CsiSafe ==
    /\ unit = "frames" => Frames!FramesCounted
    /\ unit = "frames" => Frames!PoolOutlivesUse
    /\ unit = "session" => Session!CallbackKeepsPool

\* Buffers, symbols and frames stay while the hardware uses them, a transfer
\* is finished as a whole and once, reservations and leases follow the
\* driver, and closed buses, channels and cameras hold nothing.
BusesSafe ==
    /\ unit = "spi" => Spi!SpiSafe
    /\ unit = "i2c" => I2c!I2cSafe
    /\ unit = "i2s" => I2s!I2sSafe
    /\ unit = "rmt" => Rmt!RmtSafe
    /\ unit = "camera" => Camera!CameraSafe

\* The watch task keeps its port, notices are coalesced, lanes are exact, and
\* frames of USB serial are not torn.
PortsSafe ==
    /\ unit = "watch" => Watched!UartSafe
    /\ unit = "lanes" => Lanes!UartSafe
    /\ unit = "usb" => Usb!UsbSafe

\* A slot is taken for a new frame only when its last user is gone, and an
\* open starts with nothing left over from the session before it.
CsiSteps == [][
    /\ unit = "frames" => Frames!Recycles
    /\ unit = "session" => Session!Opens]_MCVars

===============================================================================
