---------------------------- MODULE MCServices ----------------------------
(************************************************************************)
(* The components that serve scripts over a network or a file system:   *)
(* files, streams, sockets (TLS clients and listeners, then TCP clients *)
(* and UDP), WebSockets, and the HTTP client and server. Each behaviour *)
(* is of one of them.                                                   *)
(************************************************************************)
EXTENDS Sockets, Sequences

VARIABLES
    unit,  \* the component this behaviour is of
    x1, x2, x3, x4, x5, x6, x7, x8, x9, x10, x11, x12, x13  \* its variables

Stream == INSTANCE Streams WITH
    Slots <- {0, 1}, StreamKinds <- {"file", "memory"}, RespondBusy <- FALSE, MaxOpens <- 2,
    MaxOps <- 2, MaxObjects <- 2, MaxSpans <- 1, MaxFaults <- 1, slot <- x1,
    objects <- x2, op <- x3, unannounced <- x4, n <- x5

Replace == INSTANCE FileSystem WITH
    Attempts <- 2, MaxBytes <- 2, MaxEntries <- 2, Slots <- 2, Kinds <- {"write", "rename"},
    Watched <- {<<"d">>}, MaxOps <- 2, MaxFaults <- 1, MaxCrashes <- 1, MaxLoads <- 0,
    phase <- x1, table <- x2, vfs <- x3, disk <- x4, temps <- x5, counter <- x6,
    op <- x7, sources <- x8, loads <- x9, loadRoot <- x10, torn <- x11, faults <- x12,
    crashes <- x13

Change == INSTANCE FileSystem WITH
    Attempts <- 2, MaxBytes <- 2, MaxEntries <- 2, Slots <- 2,
    Kinds <- {"append", "read", "remove", "open_w"}, Watched <- {<<"d">>}, MaxOps <- 2,
    MaxFaults <- 1, MaxCrashes <- 0, MaxLoads <- 0, phase <- x1, table <- x2, vfs <- x3,
    disk <- x4, temps <- x5, counter <- x6, op <- x7, sources <- x8, loads <- x9,
    loadRoot <- x10, torn <- x11, faults <- x12, crashes <- x13

Browse == INSTANCE FileSystem WITH
    Attempts <- 2, MaxBytes <- 2, MaxEntries <- 2, Slots <- 2,
    Kinds <- {"mkdir", "list", "open_r", "open_a", "read"}, Watched <- {<<>>, <<"d">>},
    MaxOps <- 1, MaxFaults <- 0, MaxCrashes <- 0, MaxLoads <- 2, phase <- x1,
    table <- x2, vfs <- x3, disk <- x4, temps <- x5, counter <- x6, op <- x7,
    sources <- x8, loads <- x9, loadRoot <- x10, torn <- x11, faults <- x12,
    crashes <- x13

Plain == INSTANCE Sockets WITH
    Slots <- {0, 1}, Overlap <- FALSE, MaxOpens <- 1, MaxOps <- 2, MaxConns <- 2,
    MaxFaults <- 1, Protocols <- {"tcp", "udp"}, entry <- x1, handle <- x2, op <- x3,
    dns <- x4, tls <- x5, live <- x6, faults <- x7

Web == INSTANCE WebSocket WITH
    Capacity <- 1, Lengths <- {0, 2}, MaxOpens <- 1, MaxOps <- 1, MaxMessages <- 2,
    MaxEvents <- 3, MaxFaults <- 1, w <- x1, pool <- x2, frag <- x3, cb <- x4,
    queue <- x5, told <- x6, handle <- x7, asked <- x8, worker <- x9, op <- x10,
    net <- x11, count <- x12

Client == INSTANCE HttpClient WITH
    MaxActive <- 1, BodyLimit <- 5, Growth <- 2, Chunks <- {1, 3}, Teardown <- FALSE,
    MaxOps <- 2, MaxFaults <- 2, op <- x1, active <- x2, pending <- x3, clients <- x4,
    sources <- x5, faults <- x6

Server == INSTANCE HttpServer WITH
    Servers <- {0, 1}, Requests <- {0, 1}, Overlap <- FALSE, MaxOpens <- 1,
    MaxExchanges <- 3, MaxOps <- 2, MaxFaults <- 1, server <- x1, object <- x2,
    task <- x3, request <- x4, queue <- x5, script <- x6, op <- x7, ex <- x8,
    answers <- x9, down <- x10, faults <- x11

\* The variables a component of n variables does not have.
Blank(n) ==
    /\ n < 5 => x1 = 0 /\ x2 = 0 /\ x3 = 0 /\ x4 = 0 /\ x5 = 0
    /\ n < 6 => x6 = 0
    /\ n < 7 => x7 = 0
    /\ n < 11 => x8 = 0 /\ x9 = 0 /\ x10 = 0 /\ x11 = 0
    /\ n < 12 => x12 = 0
    /\ n < 13 => x13 = 0
Still(n) ==
    /\ UNCHANGED unit
    /\ n < 5 => UNCHANGED <<x1, x2, x3, x4, x5>>
    /\ n < 6 => UNCHANGED x6
    /\ n < 7 => UNCHANGED x7
    /\ n < 11 => UNCHANGED <<x8, x9, x10, x11>>
    /\ n < 12 => UNCHANGED x12
    /\ n < 13 => UNCHANGED x13

MCVars == <<unit, vars, x1, x2, x3, x4, x5, x6, x7, x8, x9, x10, x11, x12, x13>>

MCInit ==
    /\ Init
    /\ \/ unit = "tls" /\ Blank(0)
       \/ unit = "streams" /\ Stream!Init /\ Blank(5)
       \/ unit = "replace" /\ Replace!Init /\ Blank(13)
       \/ unit = "change" /\ Change!Init /\ Blank(13)
       \/ unit = "browse" /\ Browse!Init /\ Blank(13)
       \/ unit = "plain" /\ Plain!Init /\ Blank(7)
       \/ unit = "web" /\ Web!Init /\ Blank(12)
       \/ unit = "client" /\ Client!Init /\ Blank(6)
       \/ unit = "server" /\ Server!Init /\ Blank(11)

MCNext ==
    \/ unit = "tls" /\ Next /\ Still(0)
    \/ unit = "streams" /\ Stream!Next /\ Still(5) /\ UNCHANGED vars
    \/ unit = "replace" /\ Replace!Next /\ Still(13) /\ UNCHANGED vars
    \/ unit = "change" /\ Change!Next /\ Still(13) /\ UNCHANGED vars
    \/ unit = "browse" /\ Browse!Next /\ Still(13) /\ UNCHANGED vars
    \/ unit = "plain" /\ Plain!Next /\ Still(7) /\ UNCHANGED vars
    \/ unit = "web" /\ Web!Next /\ Still(12) /\ UNCHANGED vars
    \/ unit = "client" /\ Client!Next /\ Still(6) /\ UNCHANGED vars
    \/ unit = "server" /\ Server!Next /\ Still(11) /\ UNCHANGED vars

MCSpec == MCInit /\ [][MCNext]_MCVars
-------------------------------------------------------------------------------
\* A worker's file stays open under it and slots are accounted for; a file
\* that is replaced has its old or its new content at every crash, results
\* are what the steps did, and watchers are told of changes.
FilesSafe ==
    /\ unit = "streams" => Stream!StreamsSafe
    /\ unit = "replace" => Replace!FileSystemSafe
    /\ unit = "change" => Change!FileSystemSafe
    /\ unit = "browse" => Browse!FileSystemSafe

\* Every connection of TCP and UDP sockets has one owner, and a socket and
\* its DNS requests outlive the operations that use them; the messages of a
\* WebSocket are whole and in order, and its slots return to the pool.
NetworkSafe ==
    /\ unit = "plain" => Plain!SocketsSafe
    /\ unit = "web" => Web!WebSocketSafe

\* Each exchange is held by one slot and answered once, a worker keeps the
\* exchange or request it works for, bodies stay within their limit, and
\* sources are closed.
HttpSafe ==
    /\ unit = "server" => Server!HttpServerSafe
    /\ unit = "client" => Client!HttpClientSafe

===============================================================================
