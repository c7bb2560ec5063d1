-------------------------- MODULE SimpleHTTPServer --------------------------
(***************************************************************************)
(* One SimpleHTTPServer (src/src/mjpeg_streamer.cpp) from start() to its   *)
(* destruction, with its threads:                                          *)
(*   - the owner, which calls start() and stop() and then destroys it;     *)
(*   - server_worker(), which accepts connections in a loop;               *)
(*   - one detached handle_client() thread per accepted connection.        *)
(* server_fd_ is a plain int the owner writes and the server thread reads: *)
(* its descriptor number may mean nothing, or the listening socket of      *)
(* another channel of the process, by the time accept() is called.         *)
(* A listening socket that a thread is blocked on in accept() outlives     *)
(* close(): the system keeps it until that accept() returns, so close()    *)
(* does not wake the thread.                                               *)
(* Nobody waits for the detached threads: one that is still streaming when *)
(* the server has been destroyed reads its members in freed memory.  What  *)
(* it does then is undefined; the model follows it no further.             *)
(* Here only this server's thread may end up on another channel's socket;  *)
(* MultiStream has the threads of other channels that end up on its own.   *)
(***************************************************************************)
EXTENDS Integers, FiniteSets

CONSTANTS Clients,        \* connections made to this server's port
          OtherClients,   \* connections made to another channel's port
          Backlog         \* 10 in the code: connections waiting for accept()

ASSUME ServerAssumption ==
    /\ Clients \cap OtherClients = {}
    /\ Backlog \in Nat \ {0}

VARIABLES
    running,       \* running_
    shouldStop,    \* should_stop_
    serverFd,      \* server_fd_: "none" for -1, "fd" for the number socket() gave
    fdTable,       \* what that number means to the system
    ownerPc,       \* where the owner is
    serverPc,      \* where server_worker is
    acceptOn,      \* the socket accept() was called with
    client,        \* where each connection is
    late           \* connections accepted since should_stop_ was set

vars == <<running, shouldStop, serverFd, fdTable, ownerPc, serverPc, acceptOn,
          client, late>>

AllClients == Clients \cup OtherClients

\* The socket a connection was made to.
SocketOf(c) == IF c \in Clients THEN "server" ELSE "other"

Pending(socket) == {c \in AllClients : client[c] = "pending" /\ SocketOf(c) = socket}

\* A socket takes connections while a descriptor or a blocked accept() holds it.
Listening(socket) ==
    \/ fdTable = socket
    \/ serverPc = "blocked" /\ acceptOn = socket

\* Connections nobody accepts are reset when the socket goes.
ResetPending ==
    [c \in AllClients |-> IF c \in Pending("server") THEN "gone" ELSE client[c]]

\* What becomes of the connections when the server thread leaves accept():
\* closed before, the listening socket goes with the last call that held it.
LeaveAccept ==
    IF acceptOn = "server" /\ fdTable # "server" THEN ResetPending ELSE client

-----------------------------------------------------------------------------
Init ==
    /\ running = FALSE
    /\ shouldStop = FALSE
    /\ serverFd = "none"
    /\ fdTable = "free"
    /\ ownerPc = "init"
    /\ serverPc = "unstarted"
    /\ acceptOn = "none"
    /\ client = [c \in AllClients |-> "away"]
    /\ late = 0

-----------------------------------------------------------------------------
(* The owner.                                                              *)

\* start(): socket, bind and listen succeed and server_thread_ is created.
Start ==
    /\ ownerPc = "init"
    /\ ~running
    /\ serverFd' = "fd"
    /\ fdTable' = "server"
    /\ shouldStop' = FALSE
    /\ running' = TRUE
    /\ serverPc' = "loop"
    /\ ownerPc' = "started"
    /\ UNCHANGED <<acceptOn, client, late>>

\* start() fails: socket() gives -1, or bind() or listen() fails and the
\* descriptor is closed but its number stays in server_fd_.
StartFails ==
    /\ ownerPc = "init"
    /\ ~running
    /\ serverFd' \in {"none", "fd"}
    /\ ownerPc' = "failed"
    /\ UNCHANGED <<running, shouldStop, fdTable, serverPc, acceptOn, client, late>>

\* Fault: stop() does not look at running_ and closes a stale number.
StopIdleCloses ==
    /\ ownerPc = "failed"
    /\ shouldStop' = TRUE
    /\ ownerPc' = IF serverFd = "none" THEN "stopped" ELSE "close"
    /\ UNCHANGED <<running, serverFd, fdTable, serverPc, acceptOn, client, late>>

\* stop() of a server that does not run returns at once.
StopIdle ==
    /\ ownerPc = "failed"
    /\ ~running
    /\ ownerPc' = "stopped"
    /\ UNCHANGED <<running, shouldStop, serverFd, fdTable, serverPc, acceptOn,
                   client, late>>

\* stop() up to should_stop_ = true.
Stop ==
    /\ ownerPc = "started"
    /\ running
    /\ shouldStop' = TRUE
    /\ ownerPc' = "close"
    /\ UNCHANGED <<running, serverFd, fdTable, serverPc, acceptOn, client, late>>

\* close(server_fd_).  Nothing is reset while accept() holds the socket.
CloseFd ==
    /\ ownerPc = "close"
    /\ serverFd # "none"
    /\ fdTable' = "free"
    /\ client' = IF serverPc = "blocked" /\ acceptOn = "server" THEN client ELSE ResetPending
    /\ ownerPc' = "clearFd"
    /\ UNCHANGED <<running, shouldStop, serverFd, serverPc, acceptOn, late>>

\* server_fd_ = -1
ClearFd ==
    /\ ownerPc = "clearFd"
    /\ serverFd' = "none"
    /\ ownerPc' = "join"
    /\ UNCHANGED <<running, shouldStop, fdTable, serverPc, acceptOn, client, late>>

\* Fault: the server thread is detached instead of joined.
JoinNothing ==
    /\ ownerPc = "join"
    /\ ownerPc' = "setStopped"
    /\ UNCHANGED <<running, shouldStop, serverFd, fdTable, serverPc, acceptOn,
                   client, late>>

\* server_thread_.join() returns.
JoinServer ==
    /\ ownerPc = "join"
    /\ serverPc = "done"
    /\ ownerPc' = "setStopped"
    /\ UNCHANGED <<running, shouldStop, serverFd, fdTable, serverPc, acceptOn,
                   client, late>>

SetStopped ==
    /\ ownerPc = "setStopped"
    /\ running' = FALSE
    /\ ownerPc' = "stopped"
    /\ UNCHANGED <<shouldStop, serverFd, fdTable, serverPc, acceptOn, client, late>>

\* The streamer's unique_ptr destroys the server, detached threads or not.
Destroy ==
    /\ ownerPc = "stopped"
    /\ ownerPc' = "destroyed"
    /\ UNCHANGED <<running, shouldStop, serverFd, fdTable, serverPc, acceptOn,
                   client, late>>

-----------------------------------------------------------------------------
(* server_worker().                                                        *)

\* Fault: the worker loops until the descriptor is gone.
SrvLoopOnFd ==
    /\ serverPc = "loop"
    /\ serverPc' = IF shouldStop /\ serverFd = "none" THEN "done" ELSE "read"
    /\ UNCHANGED <<running, shouldStop, serverFd, fdTable, ownerPc, acceptOn,
                   client, late>>

\* Fault: the worker never looks at should_stop_.
SrvLoopForever ==
    /\ serverPc = "loop"
    /\ serverPc' = "read"
    /\ UNCHANGED <<running, shouldStop, serverFd, fdTable, ownerPc, acceptOn,
                   client, late>>

\* while (!should_stop_)
SrvLoop ==
    /\ serverPc = "loop"
    /\ serverPc' = IF shouldStop THEN "done" ELSE "read"
    /\ UNCHANGED <<running, shouldStop, serverFd, fdTable, ownerPc, acceptOn,
                   client, late>>

\* The argument of accept() is read from server_fd_.
SrvReadFd ==
    /\ serverPc = "read"
    /\ acceptOn' = serverFd
    /\ serverPc' = "call"
    /\ UNCHANGED <<running, shouldStop, serverFd, fdTable, ownerPc, client, late>>

\* accept() is called: -1 and closed numbers fail, and the loop continues.
SrvAcceptFails ==
    /\ serverPc = "call"
    /\ acceptOn = "none" \/ fdTable = "free"
    /\ acceptOn' = "none"
    /\ serverPc' = "loop"
    /\ UNCHANGED <<running, shouldStop, serverFd, fdTable, ownerPc, client, late>>

\* accept() blocks on whatever socket the number means now.
SrvAcceptBlocks ==
    /\ serverPc = "call"
    /\ acceptOn = "fd"
    /\ fdTable # "free"
    /\ acceptOn' = fdTable
    /\ serverPc' = "blocked"
    /\ UNCHANGED <<running, shouldStop, serverFd, fdTable, ownerPc, client, late>>

\* accept() gives up a connection the peer aborted, or is out of descriptors.
SrvAcceptError ==
    /\ serverPc = "blocked"
    /\ client' = LeaveAccept
    /\ acceptOn' = "none"
    /\ serverPc' = "loop"
    /\ UNCHANGED <<running, shouldStop, serverFd, fdTable, ownerPc, late>>

\* Fault: the server thread serves its client itself before the next accept().
SrvAcceptInline(c) ==
    /\ serverPc = "blocked"
    /\ c \in Pending(acceptOn)
    /\ \A d \in AllClients : client[d] \in {"away", "pending", "gone"}
    /\ client' = [LeaveAccept EXCEPT ![c] = "recv"]
    /\ late' = IF shouldStop THEN late + 1 ELSE late
    /\ acceptOn' = "none"
    /\ serverPc' = "loop"
    /\ UNCHANGED <<running, shouldStop, serverFd, fdTable, ownerPc>>

\* accept() returns a connection and a detached handle_client thread gets it.
SrvAccept(c) ==
    /\ serverPc = "blocked"
    /\ c \in Pending(acceptOn)
    /\ client' = [LeaveAccept EXCEPT ![c] = "recv"]
    /\ late' = IF shouldStop THEN late + 1 ELSE late
    /\ acceptOn' = "none"
    /\ serverPc' = "loop"
    /\ UNCHANGED <<running, shouldStop, serverFd, fdTable, ownerPc>>

-----------------------------------------------------------------------------
(* handle_client() and send_mjpeg_stream(), and the peers.                 *)

clientKeeps == <<running, shouldStop, serverFd, fdTable, ownerPc, serverPc, acceptOn, late>>

\* A peer connects.
Connect(c) ==
    /\ client[c] = "away"
    /\ Listening(SocketOf(c))
    /\ Cardinality(Pending(SocketOf(c))) < Backlog
    /\ client' = [client EXCEPT ![c] = "pending"]
    /\ UNCHANGED clientKeeps

\* recv() returns: nothing, a request for a page, or one for the stream.
Request(c) ==
    /\ client[c] = "recv"
    /\ \E next \in {"gone", "reply", "stream"} : client' = [client EXCEPT ![c] = next]
    /\ UNCHANGED clientKeeps

\* The page or the statistics are sent and the connection is closed.
Reply(c) ==
    /\ client[c] = "reply"
    /\ client' = [client EXCEPT ![c] = "gone"]
    /\ UNCHANGED clientKeeps

\* Fault: a stream goes on until its peer is gone.
StreamLoopForever(c) ==
    /\ client[c] = "stream"
    /\ ownerPc # "destroyed"
    /\ client' = [client EXCEPT ![c] = "provide"]
    /\ UNCHANGED clientKeeps

\* while (!should_stop_) of send_mjpeg_stream.
StreamLoop(c) ==
    /\ client[c] = "stream"
    /\ ownerPc # "destroyed"
    /\ client' = [client EXCEPT ![c] = IF shouldStop THEN "gone" ELSE "provide"]
    /\ UNCHANGED clientKeeps

\* mjpeg_provider_ is called: there is a JPEG or none.
Provide(c) ==
    /\ client[c] = "provide"
    /\ ownerPc # "destroyed"
    /\ \E next \in {"send", "stream"} : client' = [client EXCEPT ![c] = next]
    /\ UNCHANGED clientKeeps

\* should_stop_ or mjpeg_provider_ is read when the server's memory is freed.
UseFreed(c) ==
    /\ client[c] \in {"stream", "provide"}
    /\ ownerPc = "destroyed"
    /\ client' = [client EXCEPT ![c] = "undefined"]
    /\ UNCHANGED clientKeeps

\* The JPEG is sent, or sending fails; nothing of the server is used.
SendFrame(c) ==
    /\ client[c] = "send"
    /\ \E next \in {"stream", "gone"} : client' = [client EXCEPT ![c] = next]
    /\ UNCHANGED clientKeeps

\* Another channel of the process gets the number for its listening socket,
\* and its own server thread accepts its connections.
OtherOpens ==
    /\ fdTable = "free"
    /\ ownerPc # "init"
    /\ OtherClients # {}
    /\ fdTable' = "other"
    /\ UNCHANGED <<running, shouldStop, serverFd, ownerPc, serverPc, acceptOn, client, late>>

OtherAccepts(c) ==
    /\ c \in Pending("other")
    /\ client' = [client EXCEPT ![c] = "gone"]
    /\ UNCHANGED clientKeeps

-----------------------------------------------------------------------------
OwnerCall ==
    \/ Start \/ StartFails \/ StopIdle \/ CloseFd \/ ClearFd \/ JoinServer
    \/ SetStopped \/ Destroy

ServerStep ==
    \/ SrvLoop \/ SrvReadFd \/ SrvAcceptFails \/ SrvAcceptBlocks
    \/ \E c \in AllClients : SrvAccept(c)

ClientStep ==
    \E c \in AllClients :
        \/ Connect(c) \/ Request(c) \/ Reply(c) \/ StreamLoop(c) \/ Provide(c)
        \/ UseFreed(c) \/ SendFrame(c) \/ OtherAccepts(c)

\* The server is gone; its detached threads may go on.
Finished == ownerPc = "destroyed" /\ UNCHANGED vars

Next == OwnerCall \/ Stop \/ ServerStep \/ SrvAcceptError \/ ClientStep \/ OtherOpens \/ Finished

Spec == Init /\ [][Next]_vars

\* The owner and the server thread are scheduled.  Nothing is assumed of the
\* peers: one may never connect, never send its request, never read.  Of the
\* system it is assumed that accept() does not fail for ever while connections
\* wait.
FairSpec ==
    /\ Spec
    /\ WF_vars(OwnerCall)
    /\ WF_vars(ServerStep)
    /\ SF_vars(\E c \in AllClients : SrvAccept(c))

-----------------------------------------------------------------------------
(* Properties.                                                             *)

ClientPcs == {"away", "pending", "recv", "reply", "stream", "provide", "send", "gone",
              "undefined"}

\* The type of every variable.
TypeOK ==
    /\ running \in BOOLEAN
    /\ shouldStop \in BOOLEAN
    /\ serverFd \in {"none", "fd"}
    /\ fdTable \in {"free", "server", "other"}
    /\ ownerPc \in {"init", "started", "failed", "close", "clearFd", "join",
                    "setStopped", "stopped", "destroyed"}
    /\ serverPc \in {"unstarted", "loop", "read", "call", "blocked", "done"}
    /\ acceptOn \in {"none", "fd", "server", "other"}
    /\ client \in [AllClients -> ClientPcs]
    /\ late \in Nat

\* However stop() races with accept(), at most one more connection gets a
\* thread once should_stop_ is set.
AtMostOneLateClient == late <= 1

\* When stop() has returned, the server thread has ended, no connection waits
\* for it and its port is free for another server.
StoppedReleasesSocket ==
    ownerPc \in {"stopped", "destroyed"} =>
        /\ ~running
        /\ serverPc \in {"unstarted", "done"}
        /\ Pending("server") = {}
        /\ ~Listening("server")

\* stop() never closes a descriptor that belongs to somebody else, whatever
\* number a failed start() left in server_fd_.
ClosesOwnFd == [][ownerPc = "close" /\ ownerPc' = "clearFd" => fdTable = "server"]_vars

\* The server implements the abstract holder of one port, whatever server_fd_
\* means to the system when server_worker uses it.
Server ==
    INSTANCE PortServer WITH
        Ports    <- {"port"},
        bound    <- IF Listening("server") THEN {"port"} ELSE {},
        open     <- IF fdTable = "server" THEN {"port"} ELSE {},
        waits    <- IF serverPc = "blocked" /\ acceptOn = "server" THEN {"port"} ELSE {},
        guests   <- {},
        stopping <- ownerPc \in {"close", "clearFd", "join"},
        thread   <- IF ownerPc \notin {"started", "close", "clearFd", "join"} THEN "none"
                    ELSE IF serverPc = "done" THEN "done" ELSE "running"

ImplementsPortServer == Server!Spec

\* How many steps each thread, and each peer, has left, at most, once
\* should_stop_ is set.
OwnerLeft ==
    CASE ownerPc = "close" -> 5
      [] ownerPc = "clearFd" -> 4
      [] ownerPc = "join" -> 3
      [] ownerPc = "setStopped" -> 2
      [] ownerPc = "stopped" -> 1
      [] OTHER -> 0

ServerLeft ==
    CASE serverPc = "read" -> 4
      [] serverPc = "call" -> 3
      [] serverPc = "blocked" -> 2
      [] serverPc = "loop" -> 1
      [] OTHER -> 0

ClientLeft(c) ==
    CASE client[c] = "away" -> 6
      [] client[c] = "pending" -> 5
      [] client[c] = "recv" -> 4
      [] client[c] = "provide" -> 3
      [] client[c] = "send" -> 2
      [] client[c] \in {"reply", "stream"} -> 1
      [] OTHER -> 0

\* Some detached thread has used the server after it was freed.
Undefined == \E c \in AllClients : client[c] = "undefined"

\* From the moment should_stop_ is set everybody only goes on to the end: the
\* server thread calls accept() at most once more, whatever socket it gets, and
\* a client thread sends at most one more frame.  This ends with the first step
\* that uses the freed server, and only a detached client thread in
\* send_mjpeg_stream takes one: the server thread has ended, so that no more come.
StopWindsDown ==
    [][shouldStop =>
           IF Undefined'
           THEN /\ ownerPc = "destroyed"
                /\ serverPc = "done"
                /\ \A c \in AllClients : client[c] # "pending" \/ c \in OtherClients
           ELSE /\ OwnerLeft' <= OwnerLeft
                /\ ServerLeft' <= ServerLeft
                /\ \A c \in AllClients : ClientLeft(c)' <= ClientLeft(c)
                /\ \/ OwnerLeft' < OwnerLeft
                   \/ ServerLeft' < ServerLeft
                   \/ \E c \in AllClients : ClientLeft(c)' < ClientLeft(c)
      ]_<<ownerPc, serverPc, client>>

\* A connection to the port is answered by a thread of its own or reset, even
\* when every other client is stuck in its recv() or send().
PendingIsServed ==
    \A c \in Clients : client[c] = "pending" ~> client[c] # "pending"

\* stop() returns when a connection to the port arrives to wake accept().
PendingFreesStop ==
    serverPc = "blocked" /\ acceptOn = "server" /\ shouldStop /\ Pending("server") # {}
        ~> ownerPc = "destroyed"

\* stop() stops the server (mjpeg_streamer.cpp:484, :80).
StopReturns == ownerPc = "close" ~> ownerPc = "destroyed"
=============================================================================
