---------------------------- MODULE MultiStream ----------------------------
(***************************************************************************)
(* multi_stream_main.cpp: main() starts one stream_worker() thread per     *)
(* stream, each worker makes its own channel, and the channels compete for *)
(* the TCP ports and the descriptor numbers of one process.  A channel's   *)
(* constructor always starts an MJPEG streamer on the default port;        *)
(* init_for_multi_stream() stops it and starts another one on the port of  *)
(* the stream.                                                             *)
(*                                                                         *)
(* Of a streamer only its HTTP server's threads and sockets and the join   *)
(* of its encoder are modelled here: SimpleHTTPServer and MJPEGStreamer    *)
(* have the rest.  A socket is known by its port, since no two are bound   *)
(* to one port at a time.  Port p stands for 8090 + p - 1.  Ports are      *)
(* taken by channels of this process only: socket(), bind() and listen()   *)
(* have no other reason to fail.                                           *)
(***************************************************************************)
EXTENDS Integers, FiniteSets

CONSTANT NumStreams             \* length of stream_configs, 8 in the code

ASSUME NumStreamsAssumption == NumStreams \in Nat \ {0}

Streams == 1..NumStreams

\* Descriptor numbers of listening sockets.  No stream has two open at once, so
\* with one for each a socket may get any closed number or one never used.
Numbers == 1..NumStreams

NoFd == 0
NoPort == 0
Nobody == 0

VARIABLES
    spawned,        \* number of worker_threads
    pc,             \* where each worker is
    holder,         \* which stream's socket is bound to each port
    fdTable,        \* which port's socket each descriptor number stands for
    serverFd,       \* server_fd_ of each stream's server, NoFd if it has none
    server,         \* what each stream's server thread does
    readFd,         \* the number it is about to call accept() with
    acceptOn,       \* the port whose socket it is in accept() on
    visitors,       \* history: streams whose thread is in accept() and got there
                    \* when its own server had no descriptor any more
    asleep,         \* streams whose encoder missed the wakeup of its stop()
    g_channels,     \* the channels the signal handler knows
    stopRequested,  \* channels whose should_stop_processing is set
    process         \* "running", "signalled" (in signal_process) or "exited"

vars == <<spawned, pc, holder, fdTable, serverFd, server, readFd, acceptOn,
          visitors, asleep, g_channels, stopRequested, process>>
main == <<spawned, g_channels, stopRequested, process>>
sockets == <<holder, fdTable, serverFd, server, readFd, acceptOn, visitors>>

-----------------------------------------------------------------------------
\* mjpeg_port of a stream's StreamConfig, in the order of stream_configs.
Port(s) == s

\* The default argument of init_mjpeg_streaming.
DefaultPort == 1

Ports == {Port(s) : s \in Streams} \cup {DefaultPort}

Goto(s, where) == pc' = [pc EXCEPT ![s] = where]

\* The port whose socket a number stands for now.
SocketOf(n) == IF n = NoFd THEN NoPort ELSE fdTable[n]

\* A socket is bound as long as a descriptor or a thread in accept(), of
\* whatever server, refers to it.
Referred(p, fds, accepts) ==
    \/ \E n \in Numbers : fds[n] = p
    \/ \E s \in Streams : accepts[s] = p

StillHeld(fds, accepts) ==
    [p \in Ports |-> IF Referred(p, fds, accepts) THEN holder[p] ELSE Nobody]

\* A new socket on port p with some free number, and a server thread.
Listen(s, p) ==
    /\ holder' = [holder EXCEPT ![p] = s]
    /\ \E n \in Numbers :
           /\ fdTable[n] = NoPort
           /\ fdTable' = [fdTable EXCEPT ![n] = p]
           /\ serverFd' = [serverFd EXCEPT ![s] = n]
    /\ server' = [server EXCEPT ![s] = "loop"]
    /\ UNCHANGED <<readFd, acceptOn, visitors>>

\* Fault: a port can be bound twice.
BindShared(s, p) == Listen(s, p)

\* SimpleHTTPServer::start on a free port.
Bind(s, p) ==
    /\ holder[p] = Nobody
    /\ Listen(s, p)

\* SimpleHTTPServer::stop up to its join: should_stop_, close() and -1 in
\* server_fd_.  To read the number in between is to have read it before.
CloseSocket(s) ==
    /\ fdTable' = [fdTable EXCEPT ![serverFd[s]] = NoPort]
    /\ serverFd' = [serverFd EXCEPT ![s] = NoFd]
    /\ holder' = StillHeld(fdTable', acceptOn)
    /\ UNCHANGED <<server, readFd, acceptOn, visitors>>

\* The server's should_stop_.
Stopping(s) == server[s] # "none" /\ serverFd[s] = NoFd

\* queue_cv_.notify_all() of MJPEGStreamer::stop.  The encoder may be about to
\* wait, and miss it.
NotifyEncoder(s) == asleep' \in {asleep, asleep \cup {s}}

-----------------------------------------------------------------------------
Init ==
    /\ spawned = 0
    /\ pc = [s \in Streams |-> "unborn"]
    /\ holder = [p \in Ports |-> Nobody]
    /\ fdTable = [n \in Numbers |-> NoPort]
    /\ serverFd = [s \in Streams |-> NoFd]
    /\ server = [s \in Streams |-> "none"]
    /\ readFd = [s \in Streams |-> NoFd]
    /\ acceptOn = [s \in Streams |-> NoPort]
    /\ visitors = {}
    /\ asleep = {}
    /\ g_channels = {}
    /\ stopRequested = {}
    /\ process = "running"

-----------------------------------------------------------------------------
(* main and signal_process.                                                *)

\* The next worker thread.  The delay before it orders nothing.
Spawn ==
    /\ spawned < NumStreams
    /\ spawned' = spawned + 1
    /\ Goto(spawned + 1, "construct")
    /\ UNCHANGED <<sockets, asleep, g_channels, stopRequested, process>>

\* main joins every worker and returns.
MainReturns ==
    /\ spawned = NumStreams
    /\ \A s \in Streams : pc[s] = "ended"
    /\ process' = "exited"
    /\ UNCHANGED <<spawned, pc, sockets, asleep, g_channels, stopRequested>>

\* SIGINT: every channel of g_channels is asked to stop.
Signal ==
    /\ process = "running"
    /\ process' = "signalled"
    /\ stopRequested' = stopRequested \cup g_channels
    /\ UNCHANGED <<spawned, pc, sockets, asleep, g_channels>>

\* sleep(3) is over: exit(0).
Exit ==
    /\ process = "signalled"
    /\ process' = "exited"
    /\ UNCHANGED <<spawned, pc, sockets, asleep, g_channels, stopRequested>>

-----------------------------------------------------------------------------
(* stream_worker.                                                          *)

\* The constructor starts a streamer on the default port.
ConstructBinds(s) ==
    /\ pc[s] = "construct"
    /\ Bind(s, DefaultPort)
    /\ Goto(s, "stopDefault")
    /\ UNCHANGED <<main, asleep>>

\* The default port is taken: MJPEGStreamer::start stops what it started, which
\* is the encoder, and the constructor drops the streamer.
ConstructFails(s) ==
    /\ pc[s] = "construct"
    /\ holder[DefaultPort] # Nobody
    /\ NotifyEncoder(s)
    /\ Goto(s, "joinDefaultEncoder")
    /\ UNCHANGED <<main, sockets>>

\* The MPP encoder failed: the constructor has no streamer at all.
ConstructNothing(s) ==
    /\ pc[s] = "construct"
    /\ Goto(s, "init")
    /\ UNCHANGED <<main, sockets, asleep>>

\* Fault: init_for_multi_stream leaves the default streamer alone.
StopDefaultSkipped(s) ==
    /\ pc[s] = "stopDefault"
    /\ Goto(s, "init")
    /\ UNCHANGED <<main, sockets, asleep>>

\* init_for_multi_stream first stops the default streamer.
StopDefault(s) ==
    /\ pc[s] = "stopDefault"
    /\ CloseSocket(s)
    /\ Goto(s, "joinDefault")
    /\ UNCHANGED <<main, asleep>>

\* server_thread_.join() returns, and MJPEGStreamer::stop goes on to its encoder.
JoinServer(s) ==
    /\ pc[s] \in {"joinDefault", "joinOwn"}
    /\ server[s] = "done"
    /\ server' = [server EXCEPT ![s] = "none"]
    /\ NotifyEncoder(s)
    /\ Goto(s, IF pc[s] = "joinDefault" THEN "joinDefaultEncoder" ELSE "joinOwnEncoder")
    /\ UNCHANGED <<main, holder, fdTable, serverFd, readFd, acceptOn, visitors>>

\* encoder_thread_.join() returns: of the default streamer, of one that found
\* its port taken, or of the one that is stopped at the end.
JoinEncoder(s) ==
    /\ s \notin asleep
    /\ \/ pc[s] = "joinDefaultEncoder" /\ Goto(s, "init")
       \/ pc[s] = "dropOwn" /\ Goto(s, "decode")
       \/ pc[s] = "joinOwnEncoder" /\ Goto(s, "ended")
    /\ UNCHANGED <<main, sockets, asleep>>

\* init_mjpeg_streaming fails: the worker returns.
InitFails(s) ==
    /\ pc[s] = "init"
    /\ Goto(s, "ended")
    /\ UNCHANGED <<main, sockets, asleep>>

\* start_mjpeg_streaming succeeds.
StartBinds(s) ==
    /\ pc[s] = "init"
    /\ Bind(s, Port(s))
    /\ Goto(s, "decode")
    /\ UNCHANGED <<main, asleep>>

\* start_mjpeg_streaming finds the port taken: it stops the encoder and drops
\* the streamer, and init_for_multi_stream returns true all the same.
StartFails(s) ==
    /\ pc[s] = "init"
    /\ holder[Port(s)] # Nobody
    /\ NotifyEncoder(s)
    /\ Goto(s, "dropOwn")
    /\ UNCHANGED <<main, sockets>>

\* Fault: the streamer is not stopped when its channel goes.
DecodeEndsUnstopped(s) ==
    /\ pc[s] = "decode"
    /\ Goto(s, "ended")
    /\ UNCHANGED <<main, sockets, asleep>>

\* decode_continuous returns, and the destructor stops the streamer there is.
DecodeEnds(s) ==
    /\ pc[s] = "decode"
    /\ IF server[s] = "none"
       THEN Goto(s, "ended") /\ UNCHANGED sockets
       ELSE Goto(s, "joinOwn") /\ CloseSocket(s)
    /\ UNCHANGED <<main, asleep>>

-----------------------------------------------------------------------------
(* server_worker, the peers, and the encoder.                              *)

\* while (!should_stop_)
ServerLoop(s) ==
    /\ server[s] = "loop"
    /\ server' = [server EXCEPT ![s] = IF Stopping(s) THEN "done" ELSE "read"]
    /\ UNCHANGED <<main, pc, holder, fdTable, serverFd, readFd, acceptOn, visitors, asleep>>

\* The argument of accept() is read from server_fd_.
ReadFd(s) ==
    /\ server[s] = "read"
    /\ server' = [server EXCEPT ![s] = "call"]
    /\ readFd' = [readFd EXCEPT ![s] = serverFd[s]]
    /\ UNCHANGED <<main, pc, holder, fdTable, serverFd, acceptOn, visitors, asleep>>

\* accept() on -1, or on a number that is no listening socket now, fails.
AcceptFails(s) ==
    /\ server[s] = "call"
    /\ SocketOf(readFd[s]) = NoPort
    /\ server' = [server EXCEPT ![s] = "loop"]
    /\ readFd' = [readFd EXCEPT ![s] = NoFd]
    /\ UNCHANGED <<main, pc, holder, fdTable, serverFd, acceptOn, visitors, asleep>>

\* accept() blocks on the socket the number stands for now, its own server's or
\* another's.
AcceptBlocks(s) ==
    /\ server[s] = "call"
    /\ SocketOf(readFd[s]) # NoPort
    /\ server' = [server EXCEPT ![s] = "accepting"]
    /\ readFd' = [readFd EXCEPT ![s] = NoFd]
    /\ acceptOn' = [acceptOn EXCEPT ![s] = SocketOf(readFd[s])]
    /\ visitors' = IF serverFd[s] = NoFd THEN visitors \cup {s} ELSE visitors
    /\ UNCHANGED <<main, pc, holder, fdTable, serverFd, asleep>>

\* accept() returns a peer that connected to the port, or gives up.  With it may
\* go a socket that was closed meanwhile.
AcceptReturns(s) ==
    /\ server[s] = "accepting"
    /\ server' = [server EXCEPT ![s] = "loop"]
    /\ acceptOn' = [acceptOn EXCEPT ![s] = NoPort]
    /\ visitors' = visitors \ {s}
    /\ holder' = StillHeld(fdTable, acceptOn')
    /\ UNCHANGED <<main, pc, fdTable, serverFd, readFd, asleep>>

\* The wait of an encoder that missed its wakeup returns all by itself.
EncoderWakes(s) ==
    /\ s \in asleep
    /\ asleep' = asleep \ {s}
    /\ UNCHANGED <<main, pc, sockets>>

-----------------------------------------------------------------------------
Worker(s) ==
    \/ ConstructBinds(s) \/ ConstructFails(s) \/ ConstructNothing(s)
    \/ StopDefault(s) \/ JoinServer(s) \/ JoinEncoder(s)
    \/ InitFails(s) \/ StartBinds(s) \/ StartFails(s) \/ DecodeEnds(s)

ServerStep(s) == ServerLoop(s) \/ ReadFd(s) \/ AcceptFails(s) \/ AcceptBlocks(s)

\* Nothing happens in the process any more once it has exited.
Next ==
    \/ /\ process # "exited"
       /\ \/ Spawn \/ MainReturns \/ Signal \/ Exit
          \/ \E s \in Streams :
                 Worker(s) \/ ServerStep(s) \/ AcceptReturns(s) \/ EncoderWakes(s)
    \/ process = "exited" /\ UNCHANGED vars

Spec == Init /\ [][Next]_vars

\* What every worker does outside decode_continuous, and its server thread, are
\* scheduled, and the signal handler's sleep ends.  Nobody has to connect, no
\* encoder has to wake up by itself, and no video has to end.
FairSpec ==
    /\ Spec
    /\ WF_vars(process # "exited" /\ Spawn)
    /\ WF_vars(Exit)
    /\ \A s \in Streams :
           /\ WF_vars(process # "exited" /\ pc[s] # "decode" /\ Worker(s))
           /\ WF_vars(process # "exited" /\ ServerStep(s))

-----------------------------------------------------------------------------
(* Properties.                                                             *)

PCs == {"unborn", "construct", "stopDefault", "joinDefault", "joinDefaultEncoder", "init",
        "dropOwn", "decode", "joinOwn", "joinOwnEncoder", "ended"}

HeldBy(s) == {p \in Ports : holder[p] = s}

\* Ports of a stream whose socket another stream's server thread is in accept() on.
Guests(s) == {p \in HeldBy(s) : \E t \in Streams \ {s} : acceptOn[t] = p}

\* Every variable has its type.
TypeOK ==
    /\ spawned \in 0..NumStreams
    /\ pc \in [Streams -> PCs]
    /\ holder \in [Ports -> Streams \cup {Nobody}]
    /\ fdTable \in [Numbers -> Ports \cup {NoPort}]
    /\ serverFd \in [Streams -> Numbers \cup {NoFd}]
    /\ server \in [Streams -> {"none", "loop", "read", "call", "accepting", "done"}]
    /\ readFd \in [Streams -> Numbers \cup {NoFd}]
    /\ acceptOn \in [Streams -> Ports \cup {NoPort}]
    /\ visitors \in SUBSET Streams
    /\ asleep \in SUBSET Streams
    /\ g_channels \in SUBSET Streams
    /\ stopRequested \in SUBSET Streams
    /\ process \in {"running", "signalled", "exited"}

\* A channel that decodes listens on its own port and no other, and so does its
\* thread: what it took while it was constructed is back before
\* init_for_multi_stream is done, unless another stream's thread came to sit in
\* accept() on it.  Only the stream with the default port can come away with
\* none, whoever the others met during construction.
DecodesOnOwnPort ==
    \A s \in Streams : pc[s] = "decode" =>
        /\ \/ SocketOf(serverFd[s]) = Port(s)
           \/ serverFd[s] = NoFd /\ Port(s) = DefaultPort
        /\ acceptOn[s] \in {NoPort, Port(s)}
        /\ HeldBy(s) \subseteq {Port(s)} \cup Guests(s)

\* A worker that ended has joined its own server thread, and a stream without
\* one holds no descriptor, and no port but where the thread of another stream
\* is in accept() that is itself being joined: nobody's port or thread is left
\* behind for good.
EndedHoldsNothing ==
    \A s \in Streams :
        /\ pc[s] = "ended" => server[s] = "none"
        /\ server[s] = "none" => serverFd[s] = NoFd /\ HeldBy(s) = Guests(s)
        /\ \A p \in Guests(s), t \in Streams \ {s} :
               acceptOn[t] = p => pc[t] \in {"joinDefault", "joinOwn"}

\* The server of each stream implements the abstract holder of a port, its own
\* or the default one: the streams compete for ports and for descriptor numbers,
\* and yet none takes a port from another or keeps one by itself.
Server(s) ==
    INSTANCE PortServer WITH
        Ports    <- {Port(s), DefaultPort},
        bound    <- HeldBy(s),
        open     <- {SocketOf(serverFd[s])} \ {NoPort},
        waits    <- HeldBy(s) \cap {acceptOn[s]},
        guests   <- Guests(s),
        stopping <- Stopping(s),
        thread   <- IF server[s] \in {"none", "done"} THEN server[s] ELSE "running"

ImplementPortServers ==
    /\ \A s \in Streams : Server(s)!Init
    /\ [][\A s \in Streams : [Server(s)!Next]_(Server(s)!vars)]_vars

\* Joined by its own worker, a server thread sits in accept() on its own
\* server's socket, which is closed: without a client it stays there.
Stuck(s) == pc[s] = "joinDefault" /\ acceptOn[s] # NoPort /\ s \notin visitors

\* The same on the socket that got the number of its own.
StuckElsewhere(s) == pc[s] = "joinDefault" /\ s \in visitors

\* Two streams never wait for a default streamer at once that sleeps on its own
\* socket: a socket that is closed under accept() stays bound, and so no other
\* constructor gets the port.
AtMostOneStuck == \A s, t \in Streams : Stuck(s) /\ Stuck(t) => s = t

\* The join of an encoder that missed its wakeup, before the decoding.
EncoderMissed(s) == pc[s] \in {"joinDefaultEncoder", "dropOwn"} /\ s \in asleep

Past(s) == pc[s] \in {"decode", "joinOwn", "joinOwnEncoder", "ended"}

\* With no client at all, every worker comes through the start of its channel,
\* to decode or to give up, unless it waits for an encoder that missed its wakeup
\* or for a thread on another stream's socket, or is the one that waits for a
\* thread on its own.
AllButOneStart ==
    <>[](\/ process = "exited"
         \/ Cardinality({s \in Streams : Past(s) \/ StuckElsewhere(s) \/ EncoderMissed(s)})
                >= NumStreams - 1)

\* "MJPEG streams will be available on ports 8090-8097"
\* (multi_stream_main.cpp:112): a channel that decodes serves its port.
StreamsGetTheirPorts == \A s \in Streams : pc[s] = "decode" => holder[Port(s)] = s
=============================================================================
