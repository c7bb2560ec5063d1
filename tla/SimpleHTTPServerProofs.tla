----------------------- MODULE SimpleHTTPServerProofs -----------------------
(***************************************************************************)
(* Proofs about SimpleHTTPServer, for any sets of connections: what stop() *)
(* guarantees although the server thread reads server_fd_ without a lock.  *)
(***************************************************************************)
EXTENDS SimpleHTTPServer, TLAPS

\* What the owner's position says of the flags and of the descriptor.
OwnerProgress ==
    /\ running <=> ownerPc \in {"started", "close", "clearFd", "join", "setStopped"}
    /\ shouldStop => ownerPc \in {"close", "clearFd", "join", "setStopped", "stopped",
                                  "destroyed"}
    /\ ownerPc \in {"close", "clearFd", "join", "setStopped"} => shouldStop
    /\ fdTable = "server" <=> ownerPc \in {"started", "close"}

\* What the server thread's position says.
ServerProgress ==
    /\ serverPc = "unstarted" => acceptOn = "none"
    /\ acceptOn \in {"server", "other"} => serverPc = "blocked"
    /\ ownerPc \in {"init", "failed"} => serverPc = "unstarted"
    /\ ownerPc = "setStopped" => serverPc = "done"
    /\ ownerPc \in {"stopped", "destroyed"} => serverPc \in {"unstarted", "done"}
    /\ serverPc = "done" => shouldStop

\* A connection waits only on a socket that somebody holds.
PendingIsHeld == Pending("server") # {} => Listening("server")

\* The late connection is the last thing the server thread accepts.
LateIsLast ==
    /\ late <= 1
    /\ ~shouldStop => late = 0
    /\ late > 0 => serverPc \in {"loop", "done"}

\* Only a client thread uses the freed server, and there is none without a
\* server thread.
FreedByClients ==
    /\ \A c \in AllClients :
           client[c] \in {"recv", "reply", "stream", "provide", "send", "undefined"}
               => serverPc # "unstarted"
    /\ Undefined => ownerPc = "destroyed"

SInv ==
    /\ TypeOK
    /\ OwnerProgress
    /\ ServerProgress
    /\ PendingIsHeld
    /\ LateIsLast
    /\ FreedByClients

-----------------------------------------------------------------------------
\* Nobody waits on the server's socket after a reset, and a connection's way
\* through its own states leaves the others alone.
LEMMA ResetEmpties ==
    ASSUME TypeOK
    PROVE  /\ ResetPending \in [AllClients -> ClientPcs]
           /\ \A c \in AllClients : SocketOf(c) = "server" => ResetPending[c] # "pending"
           /\ \A c \in AllClients :
                  ResetPending[c] = "pending" => client[c] = "pending"
<1>1. ASSUME NEW c \in AllClients
      PROVE  c \in Pending("server") <=> client[c] = "pending" /\ SocketOf(c) = "server"
  BY DEF Pending
<1>2. ASSUME NEW c \in AllClients
      PROVE  ResetPending[c] = IF c \in Pending("server") THEN "gone" ELSE client[c]
  BY DEF ResetPending
<1>3. ASSUME NEW c \in AllClients
      PROVE  client[c] \in ClientPcs
  BY DEF TypeOK
<1>4. ResetPending \in [AllClients -> ClientPcs]
  BY <1>3 DEF ResetPending, ClientPcs
<1>5. \A c \in AllClients : SocketOf(c) = "server" => ResetPending[c] # "pending"
  BY <1>1, <1>2
<1>6. \A c \in AllClients : ResetPending[c] = "pending" => client[c] = "pending"
  BY <1>2
<1> QED
  BY <1>4, <1>5, <1>6

LEMMA TypeInit == Init => TypeOK
<1> SUFFICES ASSUME Init PROVE TypeOK
  OBVIOUS
<1>1. client \in [AllClients -> ClientPcs]
  BY DEF Init, ClientPcs
<1> QED
  BY <1>1 DEF Init, TypeOK

LEMMA LeaveAcceptType ==
    ASSUME TypeOK
    PROVE  LeaveAccept \in [AllClients -> ClientPcs]
  BY ResetEmpties DEF TypeOK, LeaveAccept

\* A reset leaves every connection alone that nobody was to accept.
LEMMA ResetOrKept ==
    ASSUME TypeOK, NEW c \in AllClients
    PROVE  /\ \/ ResetPending[c] = client[c]
              \/ client[c] = "pending" /\ ResetPending[c] = "gone"
           /\ \/ LeaveAccept[c] = client[c]
              \/ client[c] = "pending" /\ LeaveAccept[c] = "gone"
<1>1. \/ ResetPending[c] = client[c]
      \/ client[c] = "pending" /\ ResetPending[c] = "gone"
  <2>1. ResetPending[c] = IF c \in Pending("server") THEN "gone" ELSE client[c]
    BY DEF ResetPending
  <2>2. c \in Pending("server") => client[c] = "pending"
    BY DEF Pending
  <2> QED
    BY <2>1, <2>2
<1>2. LeaveAccept = ResetPending \/ LeaveAccept = client
  BY DEF LeaveAccept
<1> QED
  BY <1>1, <1>2

LEMMA TypeNext == TypeOK /\ [Next]_vars => TypeOK'
<1> SUFFICES ASSUME TypeOK, [Next]_vars PROVE TypeOK'
  OBVIOUS
<1> USE DEF TypeOK, clientKeeps, ClientPcs
<1>1. CASE Start
  BY <1>1 DEF Start
<1>2. CASE StartFails
  BY <1>2 DEF StartFails
<1>3. CASE StopIdle
  BY <1>3 DEF StopIdle
<1>4. CASE Stop
  BY <1>4 DEF Stop
<1>5. CASE CloseFd
  BY <1>5, ResetEmpties DEF CloseFd
<1>6. CASE ClearFd
  BY <1>6 DEF ClearFd
<1>7. CASE JoinServer
  BY <1>7 DEF JoinServer
<1>8. CASE SetStopped
  BY <1>8 DEF SetStopped
<1>9. CASE Destroy
  BY <1>9 DEF Destroy
<1>10. CASE SrvLoop
  BY <1>10 DEF SrvLoop
<1>11. CASE SrvReadFd
  BY <1>11 DEF SrvReadFd
<1>12. CASE SrvAcceptFails
  BY <1>12 DEF SrvAcceptFails
<1>13. CASE SrvAcceptBlocks
  BY <1>13 DEF SrvAcceptBlocks
<1>14. CASE SrvAcceptError
  BY <1>14, LeaveAcceptType DEF SrvAcceptError
<1>15. ASSUME NEW c \in AllClients, SrvAccept(c) PROVE TypeOK'
  BY <1>15, LeaveAcceptType DEF SrvAccept
<1>16. ASSUME NEW c \in AllClients, Connect(c) PROVE TypeOK'
  BY <1>16 DEF Connect
<1>17. ASSUME NEW c \in AllClients, Request(c) PROVE TypeOK'
  BY <1>17 DEF Request
<1>18. ASSUME NEW c \in AllClients, Reply(c) PROVE TypeOK'
  BY <1>18 DEF Reply
<1>19. ASSUME NEW c \in AllClients, StreamLoop(c) PROVE TypeOK'
  BY <1>19 DEF StreamLoop
<1>20. ASSUME NEW c \in AllClients, Provide(c) \/ UseFreed(c) \/ SendFrame(c) PROVE TypeOK'
  BY <1>20 DEF Provide, UseFreed, SendFrame
<1>21. ASSUME NEW c \in AllClients, OtherAccepts(c) PROVE TypeOK'
  BY <1>21 DEF OtherAccepts
<1>22. CASE OtherOpens
  BY <1>22 DEF OtherOpens
<1>23. CASE UNCHANGED vars
  BY <1>23 DEF vars
<1> QED
  BY <1>1, <1>2, <1>3, <1>4, <1>5, <1>6, <1>7, <1>8, <1>9, <1>10, <1>11, <1>12, <1>13, <1>14, <1>15, <1>16, <1>17, <1>18, <1>19, <1>20, <1>21, <1>22, <1>23 DEF Next, OwnerCall, ServerStep, ClientStep, Finished

\* Every variable keeps its type in every behaviour.
THEOREM ServerTypeCorrect == Spec => []TypeOK
  BY TypeInit, TypeNext, PTL DEF Spec

-----------------------------------------------------------------------------
LEMMA InvInit == Init => SInv
  BY TypeInit DEF Init, SInv, OwnerProgress, ServerProgress, PendingIsHeld,
                  LateIsLast, Pending, FreedByClients, Undefined

\* Client threads come from the server thread's accept() alone, and what they do to
\* the freed server they do after its destruction.
LEMMA FreedNext == SInv /\ [Next]_vars => FreedByClients'
<1> SUFFICES ASSUME SInv, [Next]_vars PROVE FreedByClients'
  OBVIOUS
<1> DEFINE served == {"recv", "reply", "stream", "provide", "send", "undefined"}
<1>0. TypeOK /\ FreedByClients
  BY DEF SInv
<1>1. /\ serverPc' = "unstarted" => serverPc = "unstarted"
      /\ ownerPc = "destroyed" => ownerPc' = "destroyed"
  BY DEF Next, OwnerCall, ServerStep, ClientStep, Finished, vars, clientKeeps, Start, StartFails,
         StopIdle, Stop, CloseFd, ClearFd, JoinServer, SetStopped, Destroy, SrvLoop, SrvReadFd,
         SrvAcceptFails, SrvAcceptBlocks, SrvAcceptError, SrvAccept, Connect, Request, Reply,
         StreamLoop, Provide, UseFreed, SendFrame, OtherAccepts, OtherOpens
<1>2. \A c \in AllClients :
          /\ client'[c] \in served => client[c] \in served \/ serverPc # "unstarted"
          /\ client'[c] = "undefined" => client[c] = "undefined" \/ ownerPc = "destroyed"
  <2>1. ASSUME client' \in {client, ResetPending, LeaveAccept}, NEW c \in AllClients
        PROVE  client'[c] = client[c] \/ client'[c] = "gone"
    BY <1>0, <2>1, ResetOrKept
  <2>2. CASE OwnerCall \/ Stop \/ OtherOpens \/ Finished \/ UNCHANGED vars
    <3>1. client' \in {client, ResetPending}
      BY <2>2 DEF OwnerCall, Start, StartFails, StopIdle, Stop, CloseFd, ClearFd, JoinServer,
             SetStopped, Destroy, OtherOpens, Finished, vars
    <3> QED
      BY <2>1, <3>1
  <2>3. CASE SrvLoop \/ SrvReadFd \/ SrvAcceptFails \/ SrvAcceptBlocks \/ SrvAcceptError
    <3>1. client' \in {client, LeaveAccept}
      BY <2>3 DEF SrvLoop, SrvReadFd, SrvAcceptFails, SrvAcceptBlocks, SrvAcceptError
    <3> QED
      BY <2>1, <3>1
  <2>4. ASSUME NEW d \in AllClients, SrvAccept(d), NEW c \in AllClients
        PROVE  /\ serverPc # "unstarted"
               /\ client'[c] = "undefined" => client[c] = "undefined"
    <3>1. serverPc = "blocked" /\ client' = [LeaveAccept EXCEPT ![d] = "recv"]
      BY <2>4 DEF SrvAccept
    <3>2. client'[c] = IF c = d THEN "recv" ELSE LeaveAccept[c]
      BY <1>0, <3>1, LeaveAcceptType
    <3> QED
      BY <1>0, <3>1, <3>2, ResetOrKept
  <2>5. ASSUME NEW d \in AllClients,
               \/ Connect(d) \/ Request(d) \/ Reply(d) \/ StreamLoop(d) \/ Provide(d)
               \/ UseFreed(d) \/ SendFrame(d) \/ OtherAccepts(d),
               NEW c \in AllClients
        PROVE  /\ client'[c] \in served => client[c] \in served
               /\ client'[c] = "undefined" => client[c] = "undefined" \/ ownerPc = "destroyed"
    BY <1>0, <2>5 DEF TypeOK, Connect, Request, Reply, StreamLoop, Provide, UseFreed, SendFrame,
                      OtherAccepts
  <2> QED
    BY <2>2, <2>3, <2>4, <2>5 DEF Next, ServerStep, ClientStep
<1> QED
  BY <1>0, <1>1, <1>2 DEF FreedByClients, Undefined

LEMMA InvNext == SInv /\ [Next]_vars => SInv'
<1> SUFFICES ASSUME SInv, [Next]_vars PROVE SInv'
  OBVIOUS
<1>0. TypeOK /\ TypeOK' /\ FreedByClients'
  BY TypeNext, FreedNext DEF SInv
<1> USE DEF SInv, OwnerProgress, ServerProgress, LateIsLast, clientKeeps
<1>1. CASE Start
  <2>1. PendingIsHeld'
    BY <1>0, <1>1 DEF Start, PendingIsHeld, Pending, Listening, TypeOK
  <2> QED
    BY <1>0, <1>1, <2>1 DEF Start, TypeOK
<1>2. CASE StartFails
  <2>1. PendingIsHeld'
    BY <1>0, <1>2 DEF StartFails, PendingIsHeld, Pending, Listening, TypeOK
  <2> QED
    BY <1>0, <1>2, <2>1 DEF StartFails, TypeOK
<1>3. CASE StopIdle
  <2>1. PendingIsHeld'
    BY <1>0, <1>3 DEF StopIdle, PendingIsHeld, Pending, Listening, TypeOK
  <2> QED
    BY <1>0, <1>3, <2>1 DEF StopIdle, TypeOK
<1>4. CASE Stop
  <2>1. PendingIsHeld'
    BY <1>0, <1>4 DEF Stop, PendingIsHeld, Pending, Listening, TypeOK
  <2> QED
    BY <1>0, <1>4, <2>1 DEF Stop, TypeOK
<1>5. CASE CloseFd
  <2>1. PendingIsHeld'
    <3>1. CASE serverPc = "blocked" /\ acceptOn = "server"
      BY <1>5, <3>1 DEF CloseFd, PendingIsHeld, Listening
    <3>2. CASE ~(serverPc = "blocked" /\ acceptOn = "server")
      <4>1. client' = ResetPending
        BY <1>5, <3>2 DEF CloseFd
      <4>2. Pending("server")' = {}
        BY <1>0, <4>1, ResetEmpties DEF Pending
      <4> QED
        BY <4>2 DEF PendingIsHeld
    <3> QED
      BY <3>1, <3>2
  <2> QED
    BY <1>0, <1>5, <2>1 DEF CloseFd, TypeOK
<1>6. CASE ClearFd
  <2>1. PendingIsHeld'
    BY <1>0, <1>6 DEF ClearFd, PendingIsHeld, Pending, Listening, TypeOK
  <2> QED
    BY <1>0, <1>6, <2>1 DEF ClearFd, TypeOK
<1>7. CASE JoinServer
  <2>1. PendingIsHeld'
    BY <1>0, <1>7 DEF JoinServer, PendingIsHeld, Pending, Listening, TypeOK
  <2> QED
    BY <1>0, <1>7, <2>1 DEF JoinServer, TypeOK
<1>8. CASE SetStopped
  <2>1. PendingIsHeld'
    BY <1>0, <1>8 DEF SetStopped, PendingIsHeld, Pending, Listening, TypeOK
  <2> QED
    BY <1>0, <1>8, <2>1 DEF SetStopped, TypeOK
<1>9. CASE Destroy
  <2>1. PendingIsHeld'
    BY <1>0, <1>9 DEF Destroy, PendingIsHeld, Pending, Listening, TypeOK
  <2> QED
    BY <1>0, <1>9, <2>1 DEF Destroy, TypeOK
<1>10. CASE SrvLoop
  <2>1. PendingIsHeld'
    BY <1>0, <1>10 DEF SrvLoop, PendingIsHeld, Pending, Listening, TypeOK
  <2> QED
    BY <1>0, <1>10, <2>1 DEF SrvLoop, TypeOK
<1>11. CASE SrvReadFd
  <2>1. PendingIsHeld'
    BY <1>0, <1>11 DEF SrvReadFd, PendingIsHeld, Pending, Listening, TypeOK
  <2> QED
    BY <1>0, <1>11, <2>1 DEF SrvReadFd, TypeOK
<1>12. CASE SrvAcceptFails
  <2>1. PendingIsHeld'
    BY <1>0, <1>12 DEF SrvAcceptFails, PendingIsHeld, Pending, Listening, TypeOK
  <2> QED
    BY <1>0, <1>12, <2>1 DEF SrvAcceptFails, TypeOK
<1>13. CASE SrvAcceptBlocks
  <2>1. PendingIsHeld'
    BY <1>0, <1>13 DEF SrvAcceptBlocks, PendingIsHeld, Pending, Listening, TypeOK
  <2> QED
    BY <1>0, <1>13, <2>1 DEF SrvAcceptBlocks, TypeOK
<1>14. CASE SrvAcceptError
  <2>1. PendingIsHeld'
    <3>1. CASE acceptOn = "server" /\ fdTable # "server"
      <4>1. client' = ResetPending
        BY <1>14, <3>1 DEF SrvAcceptError, LeaveAccept
      <4>2. Pending("server")' = {}
        BY <1>0, <4>1, ResetEmpties DEF Pending
      <4> QED
        BY <4>2 DEF PendingIsHeld
    <3>2. CASE ~(acceptOn = "server" /\ fdTable # "server")
      <4>1. client' = client /\ fdTable' = fdTable
        BY <1>14, <3>2 DEF SrvAcceptError, LeaveAccept
      <4> QED
        BY <1>14, <3>2, <4>1 DEF SrvAcceptError, PendingIsHeld, Pending, Listening
    <3> QED
      BY <3>1, <3>2
  <2> QED
    BY <1>0, <1>14, <2>1 DEF SrvAcceptError, TypeOK
<1>15. ASSUME NEW c \in AllClients, SrvAccept(c) PROVE SInv'
  <2>1. PendingIsHeld'
    <3>1. CASE acceptOn = "server" /\ fdTable # "server"
      <4>1. client' = [ResetPending EXCEPT ![c] = "recv"]
        BY <1>15, <3>1 DEF SrvAccept, LeaveAccept
      <4>2. Pending("server")' = {}
        BY <1>0, <4>1, ResetEmpties DEF Pending
      <4> QED
        BY <4>2 DEF PendingIsHeld
    <3>2. CASE ~(acceptOn = "server" /\ fdTable # "server")
      <4>1. client' = [client EXCEPT ![c] = "recv"] /\ fdTable' = fdTable
        BY <1>15, <3>2 DEF SrvAccept, LeaveAccept
      <4>2. \A d \in AllClients : client'[d] = "pending" => client[d] = "pending"
        BY <1>0, <4>1 DEF TypeOK
      <4> QED
        BY <1>15, <3>2, <4>1, <4>2 DEF SrvAccept, PendingIsHeld, Pending, Listening
    <3> QED
      BY <3>1, <3>2
  <2> QED
    BY <1>0, <1>15, <2>1 DEF SrvAccept, TypeOK
<1>16. ASSUME NEW c \in AllClients, Connect(c) PROVE SInv'
  <2>1. PendingIsHeld'
    BY <1>0, <1>16 DEF Connect, PendingIsHeld, Pending, Listening, TypeOK
  <2> QED
    BY <1>0, <1>16, <2>1 DEF Connect, TypeOK
<1>17. ASSUME NEW c \in AllClients, Request(c) PROVE SInv'
  <2>1. PendingIsHeld'
    BY <1>0, <1>17 DEF Request, PendingIsHeld, Pending, Listening, TypeOK
  <2> QED
    BY <1>0, <1>17, <2>1 DEF Request, TypeOK
<1>18. ASSUME NEW c \in AllClients, Reply(c) PROVE SInv'
  <2>1. PendingIsHeld'
    BY <1>0, <1>18 DEF Reply, PendingIsHeld, Pending, Listening, TypeOK
  <2> QED
    BY <1>0, <1>18, <2>1 DEF Reply, TypeOK
<1>19. ASSUME NEW c \in AllClients, StreamLoop(c) PROVE SInv'
  <2>1. PendingIsHeld'
    BY <1>0, <1>19 DEF StreamLoop, PendingIsHeld, Pending, Listening, TypeOK
  <2> QED
    BY <1>0, <1>19, <2>1 DEF StreamLoop, TypeOK
<1>20. ASSUME NEW c \in AllClients, Provide(c) \/ UseFreed(c) \/ SendFrame(c) PROVE SInv'
  <2>1. PendingIsHeld'
    BY <1>0, <1>20 DEF Provide, UseFreed, SendFrame, PendingIsHeld, Pending, Listening, TypeOK
  <2> QED
    BY <1>0, <1>20, <2>1 DEF Provide, UseFreed, SendFrame, TypeOK
<1>21. ASSUME NEW c \in AllClients, OtherAccepts(c) PROVE SInv'
  <2>1. PendingIsHeld'
    BY <1>0, <1>21 DEF OtherAccepts, PendingIsHeld, Pending, Listening, TypeOK
  <2> QED
    BY <1>0, <1>21, <2>1 DEF OtherAccepts, TypeOK
<1>22. CASE OtherOpens
  <2>1. PendingIsHeld'
    BY <1>0, <1>22 DEF OtherOpens, PendingIsHeld, Pending, Listening, TypeOK
  <2> QED
    BY <1>0, <1>22, <2>1 DEF OtherOpens, TypeOK
<1>23. CASE UNCHANGED vars
  <2>1. PendingIsHeld'
    BY <1>0, <1>23 DEF vars, PendingIsHeld, Pending, Listening, TypeOK
  <2> QED
    BY <1>0, <1>23, <2>1 DEF vars, TypeOK
<1> QED
  BY <1>1, <1>2, <1>3, <1>4, <1>5, <1>6, <1>7, <1>8, <1>9, <1>10, <1>11, <1>12, <1>13, <1>14, <1>15, <1>16, <1>17, <1>18, <1>19, <1>20, <1>21, <1>22, <1>23 DEF Next, OwnerCall, ServerStep, ClientStep, Finished

LEMMA InvAlways == Spec => []SInv
  BY InvInit, InvNext, PTL DEF Spec

-----------------------------------------------------------------------------
\* For any number of connections, at most one is accepted after should_stop_
\* is set: the worker tests it between any two calls of accept().
THEOREM LateCorrect == Spec => []AtMostOneLateClient
<1>1. SInv => AtMostOneLateClient
  BY DEF SInv, LateIsLast, AtMostOneLateClient
<1> QED
  BY <1>1, InvAlways, PTL

\* After stop() the thread is gone, the port is free and nobody waits on it.
THEOREM ReleaseCorrect == Spec => []StoppedReleasesSocket
<1>1. SInv => StoppedReleasesSocket
  BY DEF SInv, TypeOK, OwnerProgress, ServerProgress, PendingIsHeld, Listening,
         StoppedReleasesSocket
<1> QED
  BY <1>1, InvAlways, PTL

\* stop() closes the server's own socket and no other descriptor.
THEOREM CloseCorrect == Spec => ClosesOwnFd
<1>1. SInv => (ownerPc = "close" => fdTable = "server")
  BY DEF SInv, OwnerProgress
<1>2. SInv /\ [Next]_vars =>
          [ownerPc = "close" /\ ownerPc' = "clearFd" => fdTable = "server"]_vars
  BY <1>1
<1> QED
  BY <1>2, InvAlways, PTL DEF Spec, ClosesOwnFd
-----------------------------------------------------------------------------
(* Winding down: what is left of everybody's way once should_stop_ is set. *)

OwnerNearer == OwnerLeft' < OwnerLeft

ServerNearer == ServerLeft' < ServerLeft

ClientNearer == \E c \in AllClients : ClientLeft(c)' < ClientLeft(c)

NobodyFurther ==
    /\ OwnerLeft' <= OwnerLeft
    /\ ServerLeft' <= ServerLeft
    /\ \A c \in AllClients : ClientLeft(c)' <= ClientLeft(c)

LEMMA LeftType ==
    /\ OwnerLeft \in Nat /\ OwnerLeft' \in Nat
    /\ ServerLeft \in Nat /\ ServerLeft' \in Nat
    /\ \A c \in AllClients : ClientLeft(c) \in Nat /\ ClientLeft(c)' \in Nat
  BY DEF OwnerLeft, ServerLeft, ClientLeft

LEMMA NotFurther ==
    ASSUME NEW a \in Nat, NEW b \in Nat, a < b \/ a = b
    PROVE  a <= b
  OBVIOUS

\* A thread that does not move has as much left as before.
LEMMA SameLeft ==
    /\ ownerPc' = ownerPc => OwnerLeft' <= OwnerLeft
    /\ serverPc' = serverPc => ServerLeft' <= ServerLeft
    /\ \A c \in AllClients : client'[c] = client[c] => ClientLeft(c)' <= ClientLeft(c)
<1>1. ownerPc' = ownerPc => OwnerLeft' = OwnerLeft
  BY DEF OwnerLeft
<1>2. serverPc' = serverPc => ServerLeft' = ServerLeft
  BY DEF ServerLeft
<1>3. \A c \in AllClients : client'[c] = client[c] => ClientLeft(c)' = ClientLeft(c)
  BY DEF ClientLeft
<1> QED
  BY <1>1, <1>2, <1>3, LeftType, NotFurther

\* A connection that is reset or accepted, or stays where it is, comes nearer
\* to its end.
LEMMA PeersNotFurther ==
    ASSUME \A c \in AllClients :
               \/ client'[c] = client[c]
               \/ client[c] = "pending" /\ client'[c] \in {"gone", "recv"}
    PROVE  \A c \in AllClients : ClientLeft(c)' <= ClientLeft(c)
<1> SUFFICES ASSUME NEW c \in AllClients PROVE ClientLeft(c)' <= ClientLeft(c)
  OBVIOUS
<1>1. CASE client'[c] = client[c]
  BY <1>1, SameLeft
<1>2. CASE client[c] = "pending" /\ client'[c] \in {"gone", "recv"}
  BY <1>2 DEF ClientLeft
<1> QED
  BY <1>1, <1>2

\* A step of stop() and of the destructor.
LEMMA OwnerWindsDown ==
    ASSUME SInv, shouldStop, OwnerCall \/ Stop
    PROVE  NobodyFurther /\ OwnerNearer
<1>1. TypeOK /\ ownerPc \in {"close", "clearFd", "join", "setStopped", "stopped", "destroyed"}
  BY DEF SInv, OwnerProgress
<1>2. CloseFd \/ ClearFd \/ JoinServer \/ SetStopped \/ Destroy
  <2>1. ~Start /\ ~StartFails /\ ~StopIdle /\ ~Stop
    BY <1>1 DEF Start, StartFails, StopIdle, Stop
  <2> QED
    BY <2>1 DEF OwnerCall
<1>3. OwnerLeft' < OwnerLeft
  <2>1. \/ ownerPc = "close" /\ ownerPc' = "clearFd"
        \/ ownerPc = "clearFd" /\ ownerPc' = "join"
        \/ ownerPc = "join" /\ ownerPc' = "setStopped"
        \/ ownerPc = "setStopped" /\ ownerPc' = "stopped"
        \/ ownerPc = "stopped" /\ ownerPc' = "destroyed"
    BY <1>2 DEF CloseFd, ClearFd, JoinServer, SetStopped, Destroy
  <2> QED
    BY <2>1 DEF OwnerLeft
<1>4. serverPc' = serverPc
  BY <1>2 DEF CloseFd, ClearFd, JoinServer, SetStopped, Destroy
<1>5. \A c \in AllClients :
          \/ client'[c] = client[c]
          \/ client[c] = "pending" /\ client'[c] \in {"gone", "recv"}
  <2>1. client' \in {client, ResetPending}
    BY <1>2 DEF CloseFd, ClearFd, JoinServer, SetStopped, Destroy
  <2> QED
    BY <1>1, <2>1, ResetOrKept
<1> QED
  BY <1>3, <1>4, <1>5, LeftType, NotFurther, SameLeft, PeersNotFurther
     DEF NobodyFurther, OwnerNearer

\* A step of server_worker: with should_stop_ set it does not read server_fd_
\* for another accept().
LEMMA ServerWindsDown ==
    ASSUME TypeOK, shouldStop, ServerStep \/ SrvAcceptError
    PROVE  NobodyFurther /\ ServerNearer
<1>1. /\ ownerPc' = ownerPc
      /\ \/ serverPc = "loop" /\ serverPc' = "done"
         \/ serverPc = "read" /\ serverPc' = "call"
         \/ serverPc = "call" /\ serverPc' \in {"loop", "blocked"}
         \/ serverPc = "blocked" /\ serverPc' = "loop"
  BY DEF ServerStep, SrvLoop, SrvReadFd, SrvAcceptFails, SrvAcceptBlocks, SrvAcceptError,
         SrvAccept
<1>2. ServerLeft' < ServerLeft
  BY <1>1 DEF ServerLeft
<1>3. \A c \in AllClients :
          \/ client'[c] = client[c]
          \/ client[c] = "pending" /\ client'[c] \in {"gone", "recv"}
  <2>1. CASE SrvLoop \/ SrvReadFd \/ SrvAcceptFails \/ SrvAcceptBlocks
    BY <2>1 DEF SrvLoop, SrvReadFd, SrvAcceptFails, SrvAcceptBlocks
  <2>2. CASE SrvAcceptError
    BY <2>2, ResetOrKept DEF SrvAcceptError
  <2>3. ASSUME NEW d \in AllClients, SrvAccept(d), NEW c \in AllClients
        PROVE  \/ client'[c] = client[c]
               \/ client[c] = "pending" /\ client'[c] \in {"gone", "recv"}
    <3>1. client[d] = "pending" /\ client' = [LeaveAccept EXCEPT ![d] = "recv"]
      BY <2>3 DEF SrvAccept, Pending
    <3>2. client'[c] = IF c = d THEN "recv" ELSE LeaveAccept[c]
      BY <3>1, LeaveAcceptType
    <3> QED
      BY <3>1, <3>2, ResetOrKept
  <2> QED
    BY <2>1, <2>2, <2>3 DEF ServerStep
<1> QED
  BY <1>1, <1>2, <1>3, LeftType, NotFurther, SameLeft, PeersNotFurther
     DEF NobodyFurther, ServerNearer

\* A step of a peer or of its detached handle_client thread: with should_stop_
\* set send_mjpeg_stream does not begin another frame.
LEMMA ClientWindsDown ==
    ASSUME TypeOK, shouldStop, ClientStep
    PROVE  NobodyFurther /\ ClientNearer
<1>1. PICK c \in AllClients :
          \/ Connect(c) \/ Request(c) \/ Reply(c) \/ StreamLoop(c) \/ Provide(c)
          \/ UseFreed(c) \/ SendFrame(c) \/ OtherAccepts(c)
  BY DEF ClientStep
<1>2. ownerPc' = ownerPc /\ serverPc' = serverPc
  BY <1>1 DEF Connect, Request, Reply, StreamLoop, Provide, UseFreed, SendFrame, OtherAccepts,
              clientKeeps
<1>3. /\ \A d \in AllClients \ {c} : client'[d] = client[d]
      /\ \/ client[c] = "away" /\ client'[c] = "pending"
         \/ client[c] = "recv" /\ client'[c] \in {"gone", "reply", "stream"}
         \/ client[c] \in {"reply", "stream", "pending"} /\ client'[c] = "gone"
         \/ client[c] = "provide" /\ client'[c] \in {"stream", "send"}
         \/ client[c] \in {"stream", "provide"} /\ client'[c] = "undefined"
         \/ client[c] = "send" /\ client'[c] \in {"stream", "gone"}
  BY <1>1 DEF TypeOK, Connect, Request, Reply, StreamLoop, Provide, UseFreed, SendFrame,
              OtherAccepts, Pending
<1>4. ClientLeft(c)' < ClientLeft(c)
  BY <1>3 DEF ClientLeft
<1> QED
  BY <1>2, <1>3, <1>4, LeftType, NotFurther, SameLeft DEF NobodyFurther, ClientNearer

\* Where everybody is when a client thread uses the freed server.
LEMMA UsedWhenFreed ==
    ASSUME SInv, SInv', [Next]_vars, Undefined'
    PROVE  /\ ownerPc = "destroyed"
           /\ serverPc = "done"
           /\ \A c \in AllClients : client[c] # "pending" \/ c \in OtherClients
<1>1. TypeOK /\ ownerPc' = "destroyed" /\ serverPc' = "done"
  BY DEF SInv, FreedByClients, Undefined, ServerProgress
<1>2. ~Destroy
  <2>1. SUFFICES ASSUME Destroy PROVE FALSE
    OBVIOUS
  <2>2. ownerPc = "stopped" /\ client' = client
    BY <2>1 DEF Destroy
  <2> QED
    BY <2>2 DEF Undefined, SInv, FreedByClients
<1>3. ownerPc = "destroyed"
  BY <1>1, <1>2 DEF Next, OwnerCall, ServerStep, ClientStep, Finished, vars, clientKeeps, Start,
         StartFails, StopIdle, Stop, CloseFd, ClearFd, JoinServer, SetStopped, SrvLoop, SrvReadFd,
         SrvAcceptFails, SrvAcceptBlocks, SrvAcceptError, SrvAccept, Connect, Request, Reply,
         StreamLoop, Provide, UseFreed, SendFrame, OtherAccepts, OtherOpens
<1>4. serverPc \in {"unstarted", "done"}
  BY <1>3 DEF SInv, ServerProgress
<1>5. serverPc = "done"
  BY <1>1, <1>3, <1>4 DEF Next, OwnerCall, ServerStep, ClientStep, Finished, vars, clientKeeps,
         Start, StartFails, StopIdle, Stop, CloseFd, ClearFd, JoinServer, SetStopped, Destroy,
         SrvLoop, SrvReadFd, SrvAcceptFails, SrvAcceptBlocks, SrvAcceptError, SrvAccept, Connect,
         Request, Reply, StreamLoop, Provide, UseFreed, SendFrame, OtherAccepts, OtherOpens
<1>6. Pending("server") = {}
  BY <1>3, <1>5 DEF SInv, PendingIsHeld, Listening, OwnerProgress
<1>7. ASSUME NEW c \in AllClients PROVE client[c] # "pending" \/ c \in OtherClients
  BY <1>6 DEF Pending, SocketOf, AllClients
<1> QED
  BY <1>3, <1>5, <1>7

\* Once should_stop_ is set nobody's way gets longer, for any number of
\* connections: the owner, server_worker and every client thread only go on to
\* their ends, whatever accept(), recv() and send() return; until a client thread
\* reads the freed server, which owner and server_worker never do.
THEOREM WindDownCorrect == Spec => StopWindsDown
<1> DEFINE WindsDown == NobodyFurther /\ (OwnerNearer \/ ServerNearer \/ ClientNearer)
           UsedAlone == /\ ownerPc = "destroyed"
                        /\ serverPc = "done"
                        /\ \A c \in AllClients : client[c] # "pending" \/ c \in OtherClients
<1>1. SInv /\ SInv' /\ [Next]_vars =>
          [shouldStop => IF Undefined' THEN UsedAlone ELSE WindsDown]_<<ownerPc, serverPc, client>>
  <2> SUFFICES ASSUME SInv, SInv', Next, shouldStop,
                      <<ownerPc, serverPc, client>>' # <<ownerPc, serverPc, client>>
               PROVE  IF Undefined' THEN UsedAlone ELSE WindsDown
    BY DEF vars
  <2>1. TypeOK
    BY DEF SInv
  <2>2. OwnerCall \/ Stop \/ ServerStep \/ SrvAcceptError \/ ClientStep
    BY DEF Next, OtherOpens, Finished, vars
  <2>3. WindsDown
    BY <2>1, <2>2, OwnerWindsDown, ServerWindsDown, ClientWindsDown
  <2>4. Undefined' => UsedAlone
    BY UsedWhenFreed
  <2> QED
    BY <2>3, <2>4
<1>2. SInv /\ SInv' /\ [Next]_vars =>
          [shouldStop =>
             IF Undefined'
             THEN /\ ownerPc = "destroyed"
                  /\ serverPc = "done"
                  /\ \A c \in AllClients : client[c] # "pending" \/ c \in OtherClients
             ELSE /\ OwnerLeft' <= OwnerLeft
                  /\ ServerLeft' <= ServerLeft
                  /\ \A c \in AllClients : ClientLeft(c)' <= ClientLeft(c)
                  /\ \/ OwnerLeft' < OwnerLeft
                     \/ ServerLeft' < ServerLeft
                     \/ \E c \in AllClients : ClientLeft(c)' < ClientLeft(c)
          ]_<<ownerPc, serverPc, client>>
  BY <1>1 DEF NobodyFurther, OwnerNearer, ServerNearer, ClientNearer
<1> HIDE DEF WindsDown, UsedAlone
<1> QED
  BY <1>2, InvAlways, PTL DEF Spec, StopWindsDown
-----------------------------------------------------------------------------
(* Refinement: SimpleHTTPServer implements PortServer.                     *)

Alive == ownerPc \in {"started", "close", "clearFd", "join"}

LEMMA PortInit == Init => Server!Init
  BY DEF Init, Listening, Server!Init

\* What the owner does: start() takes the port, stop() closes it and joins.
LEMMA PortOwner ==
    ASSUME SInv, SInv', OwnerCall \/ Stop
    PROVE  Server!Next \/ UNCHANGED Server!vars
<1> USE DEF SInv, OwnerProgress, ServerProgress, Listening
<1>1. CASE Start
  <2>1. Server!Start
    BY <1>1 DEF Start, Server!Start
  <2> QED
    BY <2>1 DEF Server!Next
<1>2. CASE Stop
  <2>1. Server!Stop
    BY <1>2 DEF Stop, Server!Stop
  <2> QED
    BY <2>1 DEF Server!Next
<1>3. CASE CloseFd
  <2>1. Server!Close
    BY <1>3 DEF CloseFd, Server!Close
  <2> QED
    BY <2>1 DEF Server!Next
<1>4. CASE JoinServer
  <2>1. Server!Join
    BY <1>4 DEF JoinServer, Server!Join
  <2> QED
    BY <2>1 DEF Server!Next
<1>5. CASE StartFails \/ StopIdle \/ ClearFd \/ SetStopped \/ Destroy
  BY <1>5 DEF StartFails, StopIdle, ClearFd, SetStopped, Destroy, Server!vars
<1> QED
  BY <1>1, <1>2, <1>3, <1>4, <1>5 DEF OwnerCall

\* What server_worker does: accept() on the server's own socket keeps the port,
\* accept() on anything else does not touch it.
LEMMA PortThread ==
    ASSUME SInv, SInv', ServerStep \/ SrvAcceptError
    PROVE  Server!Next \/ UNCHANGED Server!vars
<1>1. TypeOK /\ fdTable' = fdTable /\ ownerPc' = ownerPc
  BY DEF SInv, ServerStep, SrvLoop, SrvReadFd, SrvAcceptFails, SrvAcceptBlocks,
         SrvAcceptError, SrvAccept
<1>2. Alive
  BY DEF SInv, TypeOK, ServerProgress, Alive, ServerStep, SrvLoop, SrvReadFd,
         SrvAcceptFails, SrvAcceptBlocks, SrvAcceptError, SrvAccept
<1> USE <1>1, <1>2 DEF Listening, Alive
<1>3. CASE SrvLoop
  <2>1. CASE shouldStop
    <3>1. Server!Finish
      BY <1>3, <2>1 DEF SrvLoop, Server!Finish, SInv, OwnerProgress
    <3> QED
      BY <3>1 DEF Server!Next
  <2>2. CASE ~shouldStop
    BY <1>3, <2>2 DEF SrvLoop, Server!vars
  <2> QED
    BY <2>1, <2>2
<1>4. CASE SrvReadFd \/ SrvAcceptFails
  BY <1>4 DEF SrvReadFd, SrvAcceptFails, Server!vars
<1>5. CASE SrvAcceptBlocks
  <2>1. CASE fdTable = "server"
    <3>1. Server!Accept
      BY <1>5, <2>1 DEF SrvAcceptBlocks, Server!Accept
    <3> QED
      BY <3>1 DEF Server!Next
  <2>2. CASE fdTable # "server"
    BY <1>5, <2>2 DEF SrvAcceptBlocks, Server!vars
  <2> QED
    BY <2>1, <2>2
<1>6. CASE SrvAcceptError \/ \E c \in AllClients : SrvAccept(c)
  <2>1. serverPc = "blocked" /\ serverPc' = "loop"
    BY <1>6 DEF SrvAcceptError, SrvAccept
  <2>2. CASE acceptOn = "server"
    <3>1. Server!Return
      BY <2>1, <2>2 DEF Server!Return
    <3> QED
      BY <3>1 DEF Server!Next
  <2>3. CASE acceptOn # "server"
    BY <2>1, <2>3 DEF Server!vars
  <2> QED
    BY <2>2, <2>3
<1> QED
  BY <1>3, <1>4, <1>5, <1>6 DEF ServerStep

\* Peers, and another channel that gets the number, leave the port alone.
LEMMA PortOthers ==
    ASSUME SInv, SInv', ClientStep \/ OtherOpens \/ Finished \/ UNCHANGED vars
    PROVE  UNCHANGED Server!vars
<1>1. /\ UNCHANGED <<ownerPc, serverPc, acceptOn>>
      /\ fdTable' = "server" <=> fdTable = "server"
  BY DEF SInv, OwnerProgress, ClientStep, Connect, Request, Reply, StreamLoop, Provide,
         UseFreed, SendFrame, OtherAccepts, clientKeeps, OtherOpens, Finished, vars
<1> QED
  BY <1>1 DEF Listening, Server!vars

\* However server_worker and stop() race for server_fd_, the server holds its
\* port from start() on and gives it up once, before stop() has joined.
THEOREM PortImplements == Spec => ImplementsPortServer
<1>1. SInv /\ SInv' /\ [Next]_vars => [Server!Next]_(Server!vars)
  BY PortOwner, PortThread, PortOthers DEF Next
<1> QED
  BY <1>1, PortInit, InvAlways, PTL DEF Spec, ImplementsPortServer, Server!Spec
=============================================================================
