-------------------------- MODULE MultiStreamProofs --------------------------
(***************************************************************************)
(* Proofs about MultiStream, for any number of streams.  SocketsInv says   *)
(* that an open descriptor number belongs to exactly the stream that holds *)
(* its port, and that a port is held as long as a number or a thread in    *)
(* accept() refers to it.  What a stream holds and where its thread may be *)
(* depends on where its worker is: StreamInv.  A step of one stream leaves *)
(* what the others have as it is (Kept), whatever sockets it works on.     *)
(***************************************************************************)
EXTENDS MultiStream, TLAPS

\* The port of the socket a stream has a descriptor of.
Mine(s) == SocketOf(serverFd[s])

SocketsInv ==
    /\ \A n \in Numbers : fdTable[n] # NoPort => \E s \in Streams : serverFd[s] = n
    /\ \A s \in Streams : serverFd[s] # NoFd =>
          /\ fdTable[serverFd[s]] \in Ports
          /\ holder[fdTable[serverFd[s]]] = s
    /\ \A p \in Ports : holder[p] # Nobody <=> Referred(p, fdTable, acceptOn)

BeforeOwn ==
    {"unborn", "construct", "stopDefault", "joinDefault", "joinDefaultEncoder", "init", "dropOwn"}

WithoutServer ==
    {"unborn", "construct", "joinDefaultEncoder", "init", "dropOwn", "joinOwnEncoder", "ended"}

StreamInv(s) ==
    /\ pc[s] = "unborn" <=> s > spawned
    /\ HeldBy(s) \subseteq {Port(s), DefaultPort}
    /\ pc[s] \in BeforeOwn => HeldBy(s) \subseteq {DefaultPort}
    /\ pc[s] \in WithoutServer => server[s] = "none"
    /\ server[s] \in {"none", "done"} => serverFd[s] = NoFd
    /\ acceptOn[s] # NoPort <=> server[s] = "accepting"
    /\ readFd[s] # NoFd => server[s] = "call"
    /\ serverFd[s] # NoFd =>
          /\ readFd[s] \in {NoFd, serverFd[s]}
          /\ acceptOn[s] \in {NoPort, Mine(s)}
    /\ acceptOn[s] # NoPort /\ s \notin visitors => acceptOn[s] \in HeldBy(s)
    /\ pc[s] = "stopDefault" => Mine(s) = DefaultPort
    /\ pc[s] \in {"joinDefault", "joinOwn"} => serverFd[s] = NoFd
    /\ pc[s] = "decode" =>
          \/ Mine(s) = Port(s)
          \/ server[s] = "none" /\ Port(s) = DefaultPort
    /\ pc[s] = "dropOwn" => Port(s) = DefaultPort

MInv == TypeOK /\ SocketsInv /\ \A s \in Streams : StreamInv(s)

-----------------------------------------------------------------------------
(* Facts about the constants and about sockets.                            *)

LEMMA Constants ==
    /\ Nobody \notin Streams /\ NoFd \notin Numbers /\ NoPort \notin Ports
    /\ DefaultPort \in Ports
    /\ \A s \in Streams : Port(s) \in Ports /\ Port(s) = s /\ s \in Nat \ {0}
BY NumStreamsAssumption
   DEF Streams, Numbers, Nobody, NoFd, NoPort, DefaultPort, Ports, Port

SocketTypes ==
    /\ holder \in [Ports -> Streams \cup {Nobody}]
    /\ fdTable \in [Numbers -> Ports \cup {NoPort}]
    /\ serverFd \in [Streams -> Numbers \cup {NoFd}]
    /\ server \in [Streams -> {"none", "loop", "read", "call", "accepting", "done"}]
    /\ readFd \in [Streams -> Numbers \cup {NoFd}]
    /\ acceptOn \in [Streams -> Ports \cup {NoPort}]
    /\ visitors \in SUBSET Streams

\* A number that stands for a socket is that of the stream that holds the port.
LEMMA OpenNumber ==
    ASSUME SocketTypes, SocketsInv, NEW n \in Numbers \cup {NoFd}, SocketOf(n) # NoPort
    PROVE  /\ n \in Numbers /\ SocketOf(n) = fdTable[n] /\ SocketOf(n) \in Ports
           /\ holder[SocketOf(n)] \in Streams
           /\ serverFd[holder[SocketOf(n)]] = n
BY Constants DEF SocketTypes, SocketsInv, SocketOf

\* What a stream has of its own, where another stream takes a step.
Kept(t) ==
    /\ serverFd'[t] = serverFd[t] /\ server'[t] = server[t]
    /\ readFd'[t] = readFd[t] /\ acceptOn'[t] = acceptOn[t]
    /\ t \in visitors' <=> t \in visitors
    /\ Mine(t)' = Mine(t)
    /\ HeldBy(t)' \subseteq HeldBy(t)
    /\ acceptOn[t] \in HeldBy(t) => acceptOn[t] \in HeldBy(t)'

LEMMA OtherKept ==
    ASSUME NEW t \in Streams, StreamInv(t), spawned' = spawned, pc'[t] = pc[t], Kept(t)
    PROVE  StreamInv(t)'
BY DEF StreamInv, Kept

\* A stream without a descriptor takes a free port.
LEMMA BindSockets ==
    ASSUME SocketTypes, SocketsInv, NEW s \in Streams, NEW p \in Ports, Bind(s, p),
           serverFd[s] = NoFd
    PROVE  /\ SocketTypes' /\ SocketsInv'
           /\ server'[s] = "loop" /\ serverFd'[s] # NoFd /\ Mine(s)' = p
           /\ readFd' = readFd /\ acceptOn' = acceptOn /\ visitors' = visitors
           /\ HeldBy(s)' = HeldBy(s) \cup {p}
           /\ \A t \in Streams \ {s} : Kept(t) /\ HeldBy(t)' = HeldBy(t)
<1>1. PICK n \in Numbers : /\ fdTable[n] = NoPort
                           /\ fdTable' = [fdTable EXCEPT ![n] = p]
                           /\ serverFd' = [serverFd EXCEPT ![s] = n]
  BY DEF Bind, Listen
<1>2. /\ holder[p] = Nobody
      /\ holder' = [holder EXCEPT ![p] = s]
      /\ server' = [server EXCEPT ![s] = "loop"]
      /\ readFd' = readFd /\ acceptOn' = acceptOn /\ visitors' = visitors
  BY DEF Bind, Listen
<1>3. SocketTypes'
  BY <1>1, <1>2 DEF SocketTypes
<1>4. n # NoFd /\ serverFd'[s] = n /\ fdTable'[n] = p /\ p # NoPort /\ s # Nobody
  BY <1>1, Constants DEF SocketTypes
<1>5. \A t \in Streams \ {s} : serverFd'[t] = serverFd[t] /\ serverFd[t] # n
  BY <1>1, Constants DEF SocketTypes, SocketsInv
<1>6. \A m \in Numbers \ {n} : fdTable'[m] = fdTable[m]
  BY <1>1 DEF SocketTypes
<1>7. \A q \in Ports : holder'[q] = IF q = p THEN s ELSE holder[q]
  BY <1>2 DEF SocketTypes
<1>8. SocketsInv'
  <2>1. ASSUME NEW m \in Numbers, fdTable'[m] # NoPort
        PROVE  \E t \in Streams : serverFd'[t] = m
    <3>1. CASE m = n
      BY <1>4, <3>1
    <3>2. CASE m # n
      <4>1. PICK t \in Streams : serverFd[t] = m
        BY <1>6, <2>1, <3>2 DEF SocketsInv
      <4>2. t # s
        BY <4>1, Constants
      <4> QED
        BY <1>5, <4>1, <4>2
    <3> QED
      BY <3>1, <3>2
  <2>2. ASSUME NEW t \in Streams, serverFd'[t] # NoFd
        PROVE  fdTable'[serverFd'[t]] \in Ports /\ holder'[fdTable'[serverFd'[t]]] = t
    <3>1. CASE t = s
      BY <1>4, <1>7, <3>1
    <3>2. CASE t # s
      <4>1. serverFd[t] \in Numbers \ {n} /\ serverFd'[t] = serverFd[t]
        BY <1>5, <2>2, <3>2 DEF SocketTypes
      <4>2. fdTable[serverFd[t]] \in Ports /\ holder[fdTable[serverFd[t]]] = t
        BY <4>1, Constants DEF SocketsInv
      <4> QED
        BY <1>2, <1>6, <1>7, <4>1, <4>2, Constants
    <3> QED
      BY <3>1, <3>2
  <2>3. ASSUME NEW q \in Ports
        PROVE  holder'[q] # Nobody <=> Referred(q, fdTable', acceptOn')
    <3>1. CASE q = p
      BY <1>4, <1>7, <3>1 DEF Referred
    <3>2. CASE q # p
      <4>1. \A m \in Numbers : fdTable'[m] = q <=> fdTable[m] = q
        BY <1>1, <1>4, <1>6, <3>2, Constants
      <4>2. holder'[q] = holder[q] /\ (holder[q] # Nobody <=> Referred(q, fdTable, acceptOn))
        BY <1>7, <3>2 DEF SocketsInv
      <4> QED
        BY <1>2, <4>1, <4>2 DEF Referred
    <3> QED
      BY <3>1, <3>2
  <2> QED
    BY <2>1, <2>2, <2>3 DEF SocketsInv
<1>9. HeldBy(s)' = HeldBy(s) \cup {p}
  BY <1>2, <1>4, <1>7 DEF HeldBy
<1>10. ASSUME NEW t \in Streams \ {s}
       PROVE  Kept(t) /\ HeldBy(t)' = HeldBy(t)
  <2>1. serverFd[t] \in Numbers \cup {NoFd} /\ serverFd[t] # n /\ serverFd'[t] = serverFd[t]
    BY <1>5, <1>10 DEF SocketTypes
  <2>2. Mine(t)' = Mine(t)
    BY <1>6, <2>1 DEF Mine, SocketOf
  <2>3. HeldBy(t)' = HeldBy(t)
    BY <1>2, <1>7, <1>10, Constants DEF HeldBy
  <2>4. server'[t] = server[t]
    BY <1>2, <1>10 DEF SocketTypes
  <2> QED
    BY <1>2, <2>1, <2>2, <2>3, <2>4 DEF Kept
<1>11. server'[s] = "loop" /\ Mine(s)' = p
  BY <1>2, <1>4 DEF SocketTypes, Mine, SocketOf
<1> QED
  BY <1>2, <1>3, <1>4, <1>8, <1>9, <1>10, <1>11

\* What holder becomes when a number or an accept() lets a socket go: a port
\* that nobody refers to any more is free, and the others stay.
LEMMA StillHeldPorts ==
    ASSUME SocketTypes, NEW fds, NEW accepts, NEW p \in Ports
    PROVE  /\ StillHeld(fds, accepts) \in [Ports -> Streams \cup {Nobody}]
           /\ StillHeld(fds, accepts)[p] =
                 IF Referred(p, fds, accepts) THEN holder[p] ELSE Nobody
BY DEF SocketTypes, StillHeld

\* A stream closes its descriptor: only its own ports can become free.
LEMMA CloseSockets ==
    ASSUME SocketTypes, SocketsInv, NEW s \in Streams, CloseSocket(s), serverFd[s] # NoFd
    PROVE  /\ SocketTypes' /\ SocketsInv'
           /\ serverFd'[s] = NoFd /\ Mine(s)' = NoPort
           /\ server' = server /\ readFd' = readFd /\ acceptOn' = acceptOn
           /\ visitors' = visitors
           /\ \A p \in Ports : holder'[p] = s =>
                 holder[p] = s /\ \E t \in Streams : acceptOn[t] = p
           /\ \A p \in Ports : holder[p] = s /\ (\E t \in Streams : acceptOn[t] = p) =>
                 holder'[p] = s
           /\ \A t \in Streams \ {s} : Kept(t) /\ HeldBy(t)' = HeldBy(t)
<1> DEFINE n == serverFd[s]
           p == fdTable[n]
<1>1. n \in Numbers /\ p \in Ports /\ holder[p] = s /\ p # NoPort
  BY Constants DEF SocketTypes, SocketsInv
<1>2. /\ fdTable' = [fdTable EXCEPT ![n] = NoPort]
      /\ serverFd' = [serverFd EXCEPT ![s] = NoFd]
      /\ holder' = StillHeld(fdTable', acceptOn)
      /\ server' = server /\ readFd' = readFd /\ acceptOn' = acceptOn
      /\ visitors' = visitors
  BY DEF CloseSocket
<1>3. \A q \in Ports : holder'[q] =
          IF Referred(q, fdTable', acceptOn) THEN holder[q] ELSE Nobody
  BY <1>2, StillHeldPorts
<1>4. holder' \in [Ports -> Streams \cup {Nobody}]
  BY <1>1, <1>2, StillHeldPorts
<1>5. SocketTypes'
  BY <1>2, <1>4 DEF SocketTypes
<1>6. fdTable'[n] = NoPort /\ \A m \in Numbers \ {n} : fdTable'[m] = fdTable[m]
  BY <1>1, <1>2 DEF SocketTypes
<1>7. serverFd'[s] = NoFd /\ \A t \in Streams \ {s} : serverFd'[t] = serverFd[t]
  BY <1>2 DEF SocketTypes
<1>8. \A t \in Streams \ {s} : serverFd[t] # n
  BY <1>1, Constants DEF SocketsInv
<1>9. \A m \in Numbers : fdTable[m] = p => m = n
  BY <1>1, Constants DEF SocketsInv
<1> HIDE DEF n, p
<1>10. \A q \in Ports \ {p} : Referred(q, fdTable', acceptOn) <=> Referred(q, fdTable, acceptOn)
  <2> SUFFICES ASSUME NEW q \in Ports \ {p}
               PROVE  \A m \in Numbers : fdTable'[m] = q <=> fdTable[m] = q
    BY DEF Referred
  <2>1. q # NoPort /\ fdTable[n] = p
    BY Constants DEF p
  <2> QED
    BY <1>6, <2>1
<1>11. \A q \in Ports \ {p} : holder'[q] = holder[q]
  BY <1>3, <1>10 DEF SocketsInv
<1>12. Referred(p, fdTable', acceptOn) <=> \E t \in Streams : acceptOn[t] = p
  BY <1>1, <1>6, <1>9 DEF Referred
<1>13. SocketsInv'
  <2>1. ASSUME NEW m \in Numbers, fdTable'[m] # NoPort
        PROVE  \E t \in Streams : serverFd'[t] = m
    <3>1. m # n /\ fdTable[m] # NoPort
      BY <1>6, <2>1
    <3>2. PICK t \in Streams : serverFd[t] = m
      BY <3>1 DEF SocketsInv
    <3> QED
      BY <1>7, <3>1, <3>2 DEF n
  <2>2. ASSUME NEW t \in Streams, serverFd'[t] # NoFd
        PROVE  fdTable'[serverFd'[t]] \in Ports /\ holder'[fdTable'[serverFd'[t]]] = t
    <3>1. t # s /\ serverFd'[t] = serverFd[t] /\ serverFd[t] \in Numbers \ {n}
      BY <1>7, <1>8, <2>2 DEF SocketTypes
    <3>2. fdTable[serverFd[t]] \in Ports /\ holder[fdTable[serverFd[t]]] = t
      BY <2>2, <3>1 DEF SocketsInv
    <3>3. fdTable[serverFd[t]] # p
      BY <1>1, <3>1, <3>2
    <3> QED
      BY <1>6, <1>11, <3>1, <3>2, <3>3
  <2>3. ASSUME NEW q \in Ports
        PROVE  holder'[q] # Nobody <=> Referred(q, fdTable', acceptOn')
    <3>1. CASE q = p
      BY <1>1, <1>2, <1>3, <3>1, Constants
    <3>2. CASE q # p
      BY <1>2, <1>10, <1>11, <3>2 DEF SocketsInv
    <3> QED
      BY <3>1, <3>2
  <2> QED
    BY <2>1, <2>2, <2>3 DEF SocketsInv
<1>14. ASSUME NEW q \in Ports, holder'[q] = s
       PROVE  holder[q] = s /\ \E t \in Streams : acceptOn[t] = q
  <2>1. holder[q] = s /\ Referred(q, fdTable', acceptOn)
    BY <1>3, <1>14, Constants
  <2>2. CASE q = p
    BY <1>12, <2>1, <2>2
  <2>3. CASE q # p
    <3>1. ASSUME NEW m \in Numbers, fdTable[m] = q
          PROVE  FALSE
      <4>1. PICK t \in Streams : serverFd[t] = m
        BY <3>1, Constants DEF SocketsInv
      <4>2. holder[q] = t
        BY <3>1, <4>1, Constants DEF SocketsInv
      <4> QED
        BY <2>1, <2>3, <3>1, <4>1, <4>2 DEF n, p
    <3>2. Referred(q, fdTable, acceptOn)
      BY <1>10, <2>1, <2>3
    <3> QED
      BY <2>1, <3>1, <3>2 DEF Referred
  <2> QED
    BY <2>2, <2>3
<1>15. ASSUME NEW q \in Ports, holder[q] = s, \E t \in Streams : acceptOn[t] = q
       PROVE  holder'[q] = s
  BY <1>3, <1>15 DEF Referred
<1>16. ASSUME NEW t \in Streams \ {s}
       PROVE  Kept(t) /\ HeldBy(t)' = HeldBy(t)
  <2>1. serverFd'[t] = serverFd[t] /\ serverFd[t] \in (Numbers \cup {NoFd}) \ {n}
    BY <1>7, <1>8, <1>16 DEF SocketTypes
  <2>2. Mine(t)' = Mine(t)
    BY <1>6, <2>1 DEF Mine, SocketOf
  <2>3. HeldBy(t)' = HeldBy(t)
    BY <1>1, <1>3, <1>11, <1>16, Constants DEF HeldBy
  <2> QED
    BY <1>2, <2>1, <2>2, <2>3 DEF Kept
<1>17. Mine(s)' = NoPort
  BY <1>7 DEF Mine, SocketOf
<1> QED
  BY <1>2, <1>5, <1>7, <1>13, <1>14, <1>15, <1>16, <1>17

\* A thread comes to accept() on a socket, its own or another's: somebody has a
\* descriptor of it.
LEMMA AcceptBlocksSockets ==
    ASSUME SocketTypes, SocketsInv, NEW s \in Streams, AcceptBlocks(s),
           acceptOn[s] = NoPort
    PROVE  /\ SocketTypes' /\ SocketsInv'
           /\ server'[s] = "accepting" /\ readFd'[s] = NoFd
           /\ acceptOn'[s] = SocketOf(readFd[s]) /\ acceptOn'[s] # NoPort
           /\ serverFd[s] = NoFd => s \in visitors'
           /\ holder' = holder /\ fdTable' = fdTable /\ serverFd' = serverFd
           /\ \A t \in Streams \ {s} : Kept(t)
<1> DEFINE q == SocketOf(readFd[s])
<1>1. /\ server' = [server EXCEPT ![s] = "accepting"]
      /\ readFd' = [readFd EXCEPT ![s] = NoFd]
      /\ acceptOn' = [acceptOn EXCEPT ![s] = q]
      /\ visitors' = IF serverFd[s] = NoFd THEN visitors \cup {s} ELSE visitors
      /\ holder' = holder /\ fdTable' = fdTable /\ serverFd' = serverFd
      /\ server[s] = "call" /\ q # NoPort
  BY DEF AcceptBlocks
<1>2. q \in Ports /\ holder[q] \in Streams
  BY <1>1, OpenNumber DEF SocketTypes
<1> HIDE DEF q
<1>3. SocketTypes'
  BY <1>1, <1>2 DEF SocketTypes
<1>4. acceptOn'[s] = q /\ \A t \in Streams \ {s} : acceptOn'[t] = acceptOn[t]
  BY <1>1 DEF SocketTypes
<1>5. ASSUME NEW p \in Ports
      PROVE  holder[p] # Nobody <=> Referred(p, fdTable, acceptOn')
  <2>1. CASE p = q
    BY <1>2, <1>4, <2>1, Constants DEF Referred
  <2>2. CASE p # q
    <3>1. \A t \in Streams : acceptOn'[t] = p <=> acceptOn[t] = p
      BY <1>4, <2>2, Constants
    <3> QED
      BY <3>1 DEF SocketsInv, Referred
  <2> QED
    BY <2>1, <2>2
<1>6. SocketsInv'
  BY <1>1, <1>5 DEF SocketsInv
<1>7. \A t \in Streams \ {s} : Kept(t)
  BY <1>1, <1>4 DEF SocketTypes, Kept, Mine, SocketOf, HeldBy
<1> QED
  BY <1>1, <1>2, <1>3, <1>4, <1>6, <1>7, Constants DEF SocketTypes, q

\* A thread leaves accept(): with it may go a socket nobody has a descriptor of.
LEMMA AcceptReturnsSockets ==
    ASSUME SocketTypes, SocketsInv, NEW s \in Streams, AcceptReturns(s)
    PROVE  /\ SocketTypes' /\ SocketsInv'
           /\ server'[s] = "loop" /\ acceptOn'[s] = NoPort
           /\ fdTable' = fdTable /\ serverFd' = serverFd /\ readFd' = readFd
           /\ Mine(s)' = Mine(s)
           /\ \A t \in Streams : HeldBy(t)' \subseteq HeldBy(t)
           /\ \A t \in Streams : \A p \in HeldBy(t) :
                 (\E u \in Streams : acceptOn'[u] = p) => p \in HeldBy(t)'
           /\ \A t \in Streams \ {s} : Kept(t)
<1>1. /\ server' = [server EXCEPT ![s] = "loop"]
      /\ acceptOn' = [acceptOn EXCEPT ![s] = NoPort]
      /\ visitors' = visitors \ {s}
      /\ holder' = StillHeld(fdTable, acceptOn')
      /\ fdTable' = fdTable /\ serverFd' = serverFd /\ readFd' = readFd
  BY DEF AcceptReturns
<1>2. \A p \in Ports : holder'[p] =
          IF Referred(p, fdTable, acceptOn') THEN holder[p] ELSE Nobody
  BY <1>1, StillHeldPorts
<1>3. holder' \in [Ports -> Streams \cup {Nobody}]
  BY <1>1, StillHeldPorts, Constants
<1>4. SocketTypes'
  BY <1>1, <1>3 DEF SocketTypes
<1>5. acceptOn'[s] = NoPort /\ \A t \in Streams \ {s} : acceptOn'[t] = acceptOn[t]
  BY <1>1 DEF SocketTypes
<1>6. SocketsInv'
  <2>1. ASSUME NEW t \in Streams, serverFd[t] # NoFd
        PROVE  fdTable[serverFd[t]] \in Ports /\ holder'[fdTable[serverFd[t]]] = t
    <3>1. /\ serverFd[t] \in Numbers
          /\ fdTable[serverFd[t]] \in Ports /\ holder[fdTable[serverFd[t]]] = t
      BY <2>1 DEF SocketTypes, SocketsInv
    <3>2. Referred(fdTable[serverFd[t]], fdTable, acceptOn')
      BY <3>1 DEF Referred
    <3> QED
      BY <1>2, <3>1, <3>2
  <2>2. ASSUME NEW p \in Ports
        PROVE  holder'[p] # Nobody <=> Referred(p, fdTable, acceptOn')
    <3>1. Referred(p, fdTable, acceptOn') => Referred(p, fdTable, acceptOn)
      BY <1>5, Constants DEF Referred
    <3> QED
      BY <1>2, <3>1 DEF SocketsInv
  <2> QED
    BY <1>1, <2>1, <2>2 DEF SocketsInv
<1>7. \A t \in Streams : HeldBy(t)' \subseteq HeldBy(t)
  BY <1>2, Constants DEF HeldBy
<1>8. \A t \in Streams : \A p \in HeldBy(t) :
         (\E u \in Streams : acceptOn'[u] = p) => p \in HeldBy(t)'
  BY <1>2 DEF HeldBy, Referred
<1>9. \A t \in Streams \ {s} : Kept(t)
  BY <1>1, <1>5, <1>7, <1>8 DEF SocketTypes, Kept, Mine, SocketOf
<1>10. server'[s] = "loop" /\ Mine(s)' = Mine(s)
  BY <1>1 DEF SocketTypes, Mine, SocketOf
<1> QED
  BY <1>1, <1>4, <1>5, <1>6, <1>7, <1>8, <1>9, <1>10

\* A step that works on no socket.
LEMMA SameSockets ==
    ASSUME SocketsInv, UNCHANGED sockets
    PROVE  /\ SocketsInv'
           /\ \A t \in Streams : Kept(t) /\ HeldBy(t)' = HeldBy(t)
BY DEF sockets, SocketsInv, Referred, Kept, Mine, SocketOf, HeldBy

-----------------------------------------------------------------------------
(* The invariant.                                                          *)

LEMMA InitMInv == Init => MInv
<1> SUFFICES ASSUME Init PROVE MInv
  OBVIOUS
<1>1. TypeOK
  BY Constants, NumStreamsAssumption DEF Init, TypeOK, PCs, Streams
<1>2. SocketsInv
  BY Constants DEF Init, SocketsInv, Referred
<1>3. \A s \in Streams : HeldBy(s) = {} /\ Mine(s) = NoPort
  BY Constants DEF Init, HeldBy, Mine, SocketOf
<1>4. ASSUME NEW s \in Streams
      PROVE  StreamInv(s)
  BY <1>3, <1>4, Constants DEF Init, StreamInv, BeforeOwn, WithoutServer
<1> QED
  BY <1>1, <1>2, <1>4 DEF MInv

\* A step of main leaves the sockets alone; Spawn alone moves a worker, out of
\* "unborn".
LEMMA MainStep ==
    ASSUME MInv, Spawn \/ MainReturns \/ Signal \/ Exit
    PROVE  MInv'
<1>1. UNCHANGED <<sockets, asleep>>
  BY DEF Spawn, MainReturns, Signal, Exit
<1>2. SocketsInv' /\ \A t \in Streams : Kept(t)
  BY <1>1, SameSockets DEF MInv
<1>3. CASE Spawn
  <2>1. TypeOK'
    BY <1>1, <1>3, NumStreamsAssumption
       DEF MInv, TypeOK, Spawn, Goto, PCs, Streams, sockets
  <2>2. ASSUME NEW t \in Streams
        PROVE  StreamInv(t)'
    <3>1. pc' = [pc EXCEPT ![spawned + 1] = "construct"] /\ spawned' = spawned + 1
      BY <1>3 DEF Spawn, Goto
    <3>2. spawned \in Nat /\ spawned + 1 \in Streams /\ t \in Nat
      BY <1>3, NumStreamsAssumption DEF MInv, TypeOK, Spawn, Streams
    <3>3. CASE t = spawned + 1
      <4>1. pc[t] = "unborn" /\ pc'[t] = "construct" /\ ~(t > spawned')
        BY <3>1, <3>2, <3>3 DEF MInv, TypeOK, StreamInv
      <4> QED
        BY <1>2, <4>1 DEF MInv, StreamInv, Kept, BeforeOwn, WithoutServer
    <3>4. CASE t # spawned + 1
      <4>1. pc'[t] = pc[t] /\ (t > spawned' <=> t > spawned)
        BY <3>1, <3>2, <3>4 DEF MInv, TypeOK
      <4> QED
        BY <1>2, <4>1 DEF MInv, StreamInv, Kept
    <3> QED
      BY <3>3, <3>4
  <2> QED
    BY <1>2, <2>1, <2>2 DEF MInv
<1>4. CASE MainReturns \/ Signal \/ Exit
  <2>1. TypeOK' /\ pc' = pc /\ spawned' = spawned
    BY <1>1, <1>4 DEF MInv, TypeOK, MainReturns, Signal, Exit, sockets
  <2> QED
    BY <1>2, <2>1, OtherKept DEF MInv
<1> QED
  BY <1>3, <1>4

\* What is left to show of a step of stream s once the others are settled.
LEMMA Others ==
    ASSUME MInv, NEW s \in Streams, SocketTypes', SocketsInv', StreamInv(s)',
           UNCHANGED main, asleep' \in SUBSET Streams, pc' \in [Streams -> PCs],
           \A t \in Streams \ {s} : pc'[t] = pc[t] /\ Kept(t)
    PROVE  MInv'
<1>1. TypeOK'
  BY DEF MInv, TypeOK, SocketTypes, main
<1>2. ASSUME NEW t \in Streams \ {s}
      PROVE  StreamInv(t)'
  BY <1>2, OtherKept DEF MInv, main
<1> QED
  BY <1>1, <1>2 DEF MInv

LEMMA MInvTypes == MInv => TypeOK /\ SocketTypes /\ SocketsInv
  BY DEF MInv, TypeOK, SocketTypes

\* Where a worker goes moves no other worker.
LEMMA GotoTypes ==
    ASSUME TypeOK, NEW s \in Streams, NEW where \in PCs, Goto(s, where)
    PROVE  /\ pc' \in [Streams -> PCs] /\ pc'[s] = where
           /\ \A t \in Streams \ {s} : pc'[t] = pc[t]
BY DEF TypeOK, Goto

LEMMA BindStep ==
    ASSUME MInv, NEW s \in Streams, ConstructBinds(s) \/ StartBinds(s)
    PROVE  MInv'
<1> DEFINE p == IF pc[s] = "construct" THEN DefaultPort ELSE Port(s)
           where == IF pc[s] = "construct" THEN "stopDefault" ELSE "decode"
<1>1. TypeOK /\ SocketTypes /\ SocketsInv /\ StreamInv(s) /\ p \in Ports
  BY MInvTypes, Constants DEF MInv
<1>2. Bind(s, p) /\ UNCHANGED <<main, asleep>> /\ Goto(s, where) /\ where \in PCs
  BY DEF ConstructBinds, StartBinds, PCs
<1>3. pc[s] \in {"construct", "init"}
  BY DEF ConstructBinds, StartBinds
<1>4. server[s] = "none" /\ serverFd[s] = NoFd /\ readFd[s] = NoFd /\ acceptOn[s] = NoPort
      /\ ~(s > spawned) /\ HeldBy(s) \subseteq {DefaultPort}
  BY <1>1, <1>3 DEF StreamInv, BeforeOwn, WithoutServer
<1>5. /\ SocketTypes' /\ SocketsInv'
      /\ server'[s] = "loop" /\ serverFd'[s] # NoFd /\ Mine(s)' = p
      /\ readFd' = readFd /\ acceptOn' = acceptOn
      /\ HeldBy(s)' = HeldBy(s) \cup {p}
      /\ \A t \in Streams \ {s} : Kept(t)
  BY <1>1, <1>2, <1>4, BindSockets
<1>6. /\ pc' \in [Streams -> PCs] /\ pc'[s] = where
      /\ \A t \in Streams \ {s} : pc'[t] = pc[t]
  BY <1>1, <1>2, GotoTypes
<1>7. StreamInv(s)'
  BY <1>2, <1>3, <1>4, <1>5, <1>6 DEF StreamInv, BeforeOwn, WithoutServer, main
<1> QED
  BY <1>1, <1>2, <1>5, <1>6, <1>7, Others DEF TypeOK

LEMMA CloseStep ==
    ASSUME MInv, NEW s \in Streams, StopDefault(s) \/ (DecodeEnds(s) /\ server[s] # "none")
    PROVE  MInv'
<1> DEFINE where == IF pc[s] = "stopDefault" THEN "joinDefault" ELSE "joinOwn"
<1>1. TypeOK /\ SocketTypes /\ SocketsInv /\ StreamInv(s)
  BY MInvTypes DEF MInv
<1>2. CloseSocket(s) /\ UNCHANGED <<main, asleep>> /\ Goto(s, where) /\ where \in PCs
  BY DEF StopDefault, DecodeEnds, PCs
<1>3. pc[s] \in {"stopDefault", "decode"} /\ (pc[s] = "decode" => server[s] # "none")
  BY DEF StopDefault, DecodeEnds
<1>4. serverFd[s] # NoFd /\ ~(s > spawned)
  BY <1>1, <1>3, Constants DEF StreamInv, Mine, SocketOf
<1>5. /\ SocketTypes' /\ SocketsInv'
      /\ serverFd'[s] = NoFd /\ Mine(s)' = NoPort
      /\ server' = server /\ readFd' = readFd /\ acceptOn' = acceptOn
      /\ visitors' = visitors
      /\ \A p \in Ports : holder'[p] = s =>
            holder[p] = s /\ \E t \in Streams : acceptOn[t] = p
      /\ \A p \in Ports : holder[p] = s /\ (\E t \in Streams : acceptOn[t] = p) =>
            holder'[p] = s
      /\ \A t \in Streams \ {s} : Kept(t)
  BY <1>1, <1>2, <1>4, CloseSockets
<1>6. /\ pc' \in [Streams -> PCs] /\ pc'[s] = where
      /\ \A t \in Streams \ {s} : pc'[t] = pc[t]
  BY <1>1, <1>2, GotoTypes
<1>7. HeldBy(s)' \subseteq HeldBy(s) /\ (acceptOn[s] \in HeldBy(s) => acceptOn[s] \in HeldBy(s)')
  BY <1>5 DEF HeldBy
<1>8. server[s] \notin {"none", "done"}
  BY <1>1, <1>4 DEF StreamInv
<1>9. StreamInv(s)'
  BY <1>1, <1>2, <1>3, <1>4, <1>5, <1>6, <1>7, <1>8
     DEF StreamInv, BeforeOwn, WithoutServer, main
<1> QED
  BY <1>1, <1>2, <1>5, <1>6, <1>9, Others DEF TypeOK

\* Only the stream of the default port can find its port taken, for nobody
\* else's server is ever bound to another's.
LEMMA PortTaken ==
    ASSUME MInv, NEW s \in Streams, pc[s] = "init", holder[Port(s)] # Nobody
    PROVE  Port(s) = DefaultPort
<1>1. PICK t \in Streams : holder[Port(s)] = t
  BY Constants DEF MInv, TypeOK
<1>2. Port(s) \in HeldBy(t)
  BY <1>1, Constants DEF HeldBy
<1>3. CASE t = s
  BY <1>2, <1>3 DEF MInv, StreamInv, BeforeOwn
<1>4. CASE t # s
  BY <1>2, <1>4, Constants DEF MInv, StreamInv
<1> QED
  BY <1>3, <1>4

\* The steps of a stream that work on no socket.
LEMMA QuietStep ==
    ASSUME MInv, NEW s \in Streams,
           \/ ConstructFails(s) \/ ConstructNothing(s) \/ JoinEncoder(s) \/ InitFails(s)
           \/ StartFails(s) \/ (DecodeEnds(s) /\ server[s] = "none")
           \/ EncoderWakes(s)
    PROVE  MInv'
<1>1. TypeOK /\ SocketTypes /\ SocketsInv /\ StreamInv(s)
  BY MInvTypes DEF MInv
<1>2. UNCHANGED main /\ UNCHANGED sockets /\ asleep' \in SUBSET Streams
  BY <1>1 DEF TypeOK, ConstructFails, ConstructNothing, JoinEncoder, InitFails, StartFails,
              DecodeEnds, EncoderWakes, NotifyEncoder
<1>3. SocketsInv' /\ \A t \in Streams : Kept(t)
  BY <1>1, <1>2, SameSockets
<1>4. SocketTypes'
  BY <1>1, <1>2 DEF SocketTypes, sockets
<1>5. \/ pc' = pc
      \/ Goto(s, "joinDefaultEncoder") /\ pc[s] = "construct"
      \/ Goto(s, "init") /\ pc[s] \in {"construct", "joinDefaultEncoder"}
      \/ Goto(s, "dropOwn") /\ pc[s] = "init" /\ Port(s) = DefaultPort
      \/ Goto(s, "decode") /\ pc[s] = "dropOwn"
      \/ /\ Goto(s, "ended")
         /\ pc[s] \in {"init", "joinOwnEncoder"} \/ (pc[s] = "decode" /\ server[s] = "none")
  <2>1. CASE StartFails(s)
    BY <2>1, PortTaken DEF StartFails
  <2>2. CASE EncoderWakes(s)
    BY <2>2 DEF EncoderWakes
  <2>3. CASE ConstructFails(s) \/ ConstructNothing(s)
    BY <2>3 DEF ConstructFails, ConstructNothing, Goto
  <2>5. CASE JoinEncoder(s)
    BY <2>5 DEF JoinEncoder, Goto
  <2>6. CASE InitFails(s)
    BY <2>6 DEF InitFails, Goto
  <2>4. CASE DecodeEnds(s) /\ server[s] = "none"
    BY <2>4 DEF DecodeEnds, Goto
  <2> QED
    BY <2>1, <2>2, <2>3, <2>4, <2>5, <2>6
<1>6. /\ pc' \in [Streams -> PCs] /\ \A t \in Streams \ {s} : pc'[t] = pc[t]
      /\ \/ pc'[s] = pc[s]
         \/ pc'[s] = "joinDefaultEncoder" /\ pc[s] = "construct"
         \/ pc'[s] = "init" /\ pc[s] \in {"construct", "joinDefaultEncoder"}
         \/ pc'[s] = "dropOwn" /\ pc[s] = "init" /\ Port(s) = DefaultPort
         \/ pc'[s] = "decode" /\ pc[s] = "dropOwn"
         \/ /\ pc'[s] = "ended"
            /\ pc[s] \in {"init", "joinOwnEncoder"} \/ (pc[s] = "decode" /\ server[s] = "none")
  BY <1>1, <1>5 DEF TypeOK, Goto, PCs
<1>7. server'[s] = server[s] /\ spawned' = spawned
  BY <1>2 DEF sockets, main
<1>8. StreamInv(s)'
  BY <1>1, <1>3, <1>6, <1>7 DEF StreamInv, Kept, BeforeOwn, WithoutServer
<1> QED
  BY <1>2, <1>3, <1>4, <1>6, <1>8, Others

LEMMA JoinStep ==
    ASSUME MInv, NEW s \in Streams, JoinServer(s)
    PROVE  MInv'
<1> DEFINE where == IF pc[s] = "joinDefault" THEN "joinDefaultEncoder" ELSE "joinOwnEncoder"
<1>1. TypeOK /\ SocketTypes /\ SocketsInv /\ StreamInv(s)
  BY MInvTypes DEF MInv
<1>2. /\ UNCHANGED main /\ UNCHANGED <<holder, fdTable, serverFd, readFd, acceptOn, visitors>>
      /\ asleep' \in SUBSET Streams
      /\ pc[s] \in {"joinDefault", "joinOwn"} /\ server[s] = "done"
      /\ server' = [server EXCEPT ![s] = "none"]
      /\ Goto(s, where) /\ where \in PCs
  BY <1>1 DEF TypeOK, JoinServer, NotifyEncoder, PCs
<1>3. /\ SocketTypes' /\ server'[s] = "none"
      /\ \A t \in Streams \ {s} : server'[t] = server[t]
  BY <1>1, <1>2 DEF SocketTypes
<1>4. SocketsInv' /\ \A t \in Streams : HeldBy(t)' = HeldBy(t) /\ Mine(t)' = Mine(t)
  BY <1>1, <1>2 DEF SocketsInv, Referred, HeldBy, Mine, SocketOf
<1>5. /\ pc' \in [Streams -> PCs] /\ pc'[s] = where
      /\ \A t \in Streams \ {s} : pc'[t] = pc[t]
  BY <1>1, <1>2, GotoTypes
<1>6. \A t \in Streams \ {s} : Kept(t)
  BY <1>2, <1>3, <1>4 DEF Kept
<1>7. StreamInv(s)'
  BY <1>1, <1>2, <1>3, <1>4, <1>5 DEF StreamInv, BeforeOwn, WithoutServer, main
<1> QED
  BY <1>2, <1>3, <1>4, <1>5, <1>6, <1>7, Others

\* The steps of a server thread outside accept().
LEMMA ThreadStep ==
    ASSUME MInv, NEW s \in Streams, ServerLoop(s) \/ ReadFd(s) \/ AcceptFails(s)
    PROVE  MInv'
<1>1. TypeOK /\ SocketTypes /\ SocketsInv /\ StreamInv(s)
  BY MInvTypes DEF MInv
<1>2. UNCHANGED main /\ UNCHANGED <<pc, holder, fdTable, serverFd, acceptOn, visitors, asleep>>
  BY DEF ServerLoop, ReadFd, AcceptFails
<1>3. /\ SocketTypes'
      /\ \A t \in Streams \ {s} : server'[t] = server[t] /\ readFd'[t] = readFd[t]
  BY <1>1, <1>2 DEF SocketTypes, ServerLoop, ReadFd, AcceptFails
<1>4. SocketsInv' /\ \A t \in Streams : HeldBy(t)' = HeldBy(t) /\ Mine(t)' = Mine(t)
  BY <1>1, <1>2 DEF SocketsInv, Referred, HeldBy, Mine, SocketOf
<1>5. \A t \in Streams \ {s} : pc'[t] = pc[t] /\ Kept(t)
  BY <1>2, <1>3, <1>4 DEF Kept
<1>6. \/ server[s] = "loop" /\ server'[s] = "done" /\ serverFd[s] = NoFd /\ readFd'[s] = readFd[s]
      \/ server[s] = "loop" /\ server'[s] = "read" /\ readFd'[s] = readFd[s]
      \/ server[s] = "read" /\ server'[s] = "call" /\ readFd'[s] = serverFd[s]
      \/ server[s] = "call" /\ server'[s] = "loop" /\ readFd'[s] = NoFd
  BY <1>1 DEF SocketTypes, ServerLoop, ReadFd, AcceptFails, Stopping
<1>7. StreamInv(s)'
  BY <1>1, <1>2, <1>4, <1>6 DEF StreamInv, BeforeOwn, WithoutServer, main
<1> QED
  BY <1>1, <1>2, <1>3, <1>4, <1>5, <1>7, Others DEF TypeOK

LEMMA AcceptStep ==
    ASSUME MInv, NEW s \in Streams, AcceptBlocks(s) \/ AcceptReturns(s)
    PROVE  MInv'
<1>1. TypeOK /\ SocketTypes /\ SocketsInv /\ StreamInv(s)
  BY MInvTypes DEF MInv
<1>2. UNCHANGED main /\ UNCHANGED <<pc, asleep>>
  BY DEF AcceptBlocks, AcceptReturns
<1>3. CASE AcceptBlocks(s)
  <2>1. server[s] = "call" /\ acceptOn[s] = NoPort
    BY <1>1, <1>3 DEF StreamInv, AcceptBlocks
  <2>2. /\ SocketTypes' /\ SocketsInv'
        /\ server'[s] = "accepting" /\ readFd'[s] = NoFd
        /\ acceptOn'[s] = SocketOf(readFd[s]) /\ acceptOn'[s] # NoPort
        /\ serverFd[s] = NoFd => s \in visitors'
        /\ holder' = holder /\ fdTable' = fdTable /\ serverFd' = serverFd
        /\ \A t \in Streams \ {s} : Kept(t)
    BY <1>1, <1>3, <2>1, AcceptBlocksSockets
  <2>3. HeldBy(s)' = HeldBy(s) /\ Mine(s)' = Mine(s)
    BY <2>2 DEF HeldBy, Mine, SocketOf
  <2>4. serverFd[s] # NoFd => acceptOn'[s] = Mine(s) /\ Mine(s) \in HeldBy(s)
    BY <1>1, <2>2 DEF StreamInv, SocketsInv, Mine, SocketOf, HeldBy
  <2>5. StreamInv(s)'
    BY <1>1, <1>2, <2>1, <2>2, <2>3, <2>4 DEF StreamInv, BeforeOwn, WithoutServer, main
  <2> QED
    BY <1>1, <1>2, <2>2, <2>5, Others DEF TypeOK
<1>4. CASE AcceptReturns(s)
  <2>1. server[s] = "accepting"
    BY <1>4 DEF AcceptReturns
  <2>2. /\ SocketTypes' /\ SocketsInv'
        /\ server'[s] = "loop" /\ acceptOn'[s] = NoPort
        /\ serverFd' = serverFd /\ readFd' = readFd /\ Mine(s)' = Mine(s)
        /\ HeldBy(s)' \subseteq HeldBy(s)
        /\ \A t \in Streams \ {s} : Kept(t)
    BY <1>1, <1>4, AcceptReturnsSockets
  <2>3. StreamInv(s)'
    BY <1>1, <1>2, <2>1, <2>2 DEF StreamInv, BeforeOwn, WithoutServer, main
  <2> QED
    BY <1>1, <1>2, <2>2, <2>3, Others DEF TypeOK
<1> QED
  BY <1>3, <1>4

LEMMA NextMInv == MInv /\ [Next]_vars => MInv'
<1> SUFFICES ASSUME MInv, [Next]_vars
             PROVE  MInv'
  OBVIOUS
<1>1. CASE Spawn \/ MainReturns \/ Signal \/ Exit
  BY <1>1, MainStep
<1>2. ASSUME NEW s \in Streams,
             Worker(s) \/ ServerStep(s) \/ AcceptReturns(s) \/ EncoderWakes(s)
      PROVE  MInv'
  <2>1. CASE ConstructBinds(s) \/ StartBinds(s)
    BY <2>1, BindStep
  <2>2. CASE StopDefault(s) \/ (DecodeEnds(s) /\ server[s] # "none")
    BY <2>2, CloseStep
  <2>3. CASE \/ ConstructFails(s) \/ ConstructNothing(s) \/ JoinEncoder(s) \/ InitFails(s)
             \/ StartFails(s) \/ (DecodeEnds(s) /\ server[s] = "none")
             \/ EncoderWakes(s)
    BY <2>3, QuietStep
  <2>4. CASE JoinServer(s)
    BY <2>4, JoinStep
  <2>5. CASE ServerLoop(s) \/ ReadFd(s) \/ AcceptFails(s)
    BY <2>5, ThreadStep
  <2>6. CASE AcceptBlocks(s) \/ AcceptReturns(s)
    BY <2>6, AcceptStep
  <2>7. CASE Worker(s)
    <3>1. CASE DecodeEnds(s)
      BY <2>2, <2>3, <3>1
    <3>2. CASE ConstructFails(s) \/ ConstructNothing(s) \/ JoinEncoder(s)
      BY <2>3, <3>2
    <3>3. CASE InitFails(s) \/ StartFails(s)
      BY <2>3, <3>3
    <3> QED
      BY <2>1, <2>2, <2>4, <2>7, <3>1, <3>2, <3>3 DEF Worker
  <2>8. CASE ServerStep(s)
    BY <2>5, <2>6, <2>8 DEF ServerStep
  <2> QED
    BY <1>2, <2>3, <2>6, <2>7, <2>8
<1>3. CASE UNCHANGED vars
  <2>1. UNCHANGED sockets /\ TypeOK' /\ UNCHANGED <<pc, spawned>>
    BY <1>3 DEF vars, sockets, MInv, TypeOK
  <2> QED
    BY <2>1, SameSockets, OtherKept DEF MInv
<1> QED
  BY <1>1, <1>2, <1>3 DEF Next

\* The inductive invariant holds in every state the workers can reach.
THEOREM Invariant == Spec => []MInv
<1> QED
  BY InitMInv, NextMInv, PTL DEF Spec

-----------------------------------------------------------------------------
(* What follows from it.                                                   *)

\* Every variable has its type.
THEOREM MultiTypeCorrect == Spec => []TypeOK
<1>1. MInv => TypeOK
  BY DEF MInv
<1> QED
  BY <1>1, Invariant, PTL

\* A port is held for a descriptor, for the stream's own thread, or for the
\* threads of others, and for nothing else.
LEMMA HeldFor ==
    ASSUME MInv, NEW s \in Streams
    PROVE  /\ Mine(s) = NoPort \/ Mine(s) \in HeldBy(s)
           /\ HeldBy(s) = ({Mine(s)} \ {NoPort}) \cup (HeldBy(s) \cap {acceptOn[s]})
                             \cup Guests(s)
<1>1. TypeOK /\ SocketsInv
  BY DEF MInv
<1>2. Mine(s) = NoPort \/ Mine(s) \in HeldBy(s)
  BY <1>1 DEF SocketsInv, Mine, SocketOf, HeldBy
<1>3. ASSUME NEW p \in HeldBy(s), p # Mine(s), p # acceptOn[s]
      PROVE  p \in Guests(s)
  <2>1. p \in Ports /\ holder[p] = s /\ Referred(p, fdTable, acceptOn)
    BY <1>1, <1>3, Constants DEF SocketsInv, HeldBy
  <2>2. ASSUME NEW n \in Numbers, fdTable[n] = p
        PROVE  FALSE
    <3>1. PICK t \in Streams : serverFd[t] = n
      BY <1>1, <2>1, <2>2, Constants DEF SocketsInv
    <3>2. t = s
      BY <1>1, <2>1, <2>2, <3>1, Constants DEF SocketsInv
    <3> QED
      BY <1>3, <2>2, <3>1, <3>2, Constants DEF Mine, SocketOf
  <2>3. PICK t \in Streams : acceptOn[t] = p
    BY <2>1, <2>2 DEF Referred
  <2> QED
    BY <1>3, <2>3 DEF Guests
<1>4. Guests(s) \subseteq HeldBy(s)
  BY DEF Guests
<1>5. ASSUME NEW p
      PROVE  p \in HeldBy(s) <=> \/ p \in {Mine(s)} \ {NoPort}
                                \/ p \in HeldBy(s) \cap {acceptOn[s]}
                                \/ p \in Guests(s)
  <2>1. NoPort \notin HeldBy(s)
    BY Constants DEF HeldBy
  <2> QED
    BY <1>2, <1>3, <1>4, <2>1
<1> QED
  BY <1>2, <1>5

\* However the constructors race for the default port, a channel that decodes
\* listens on its own port, or on none if its own is the default one, and holds
\* another only where a thread of another server came to wait on it
\* (init_for_multi_stream).
THEOREM OwnPortCorrect == Spec => []DecodesOnOwnPort
<1>1. ASSUME MInv, NEW s \in Streams, pc[s] = "decode"
      PROVE  /\ \/ SocketOf(serverFd[s]) = Port(s)
                \/ serverFd[s] = NoFd /\ Port(s) = DefaultPort
             /\ acceptOn[s] \in {NoPort, Port(s)}
             /\ HeldBy(s) \subseteq {Port(s)} \cup Guests(s)
  <2>1. StreamInv(s) /\ Port(s) # NoPort
    BY <1>1, Constants DEF MInv
  <2>2. \/ Mine(s) = Port(s) /\ serverFd[s] # NoFd
        \/ serverFd[s] = NoFd /\ server[s] = "none" /\ Port(s) = DefaultPort
    BY <1>1, <2>1 DEF StreamInv, Mine, SocketOf
  <2>3. acceptOn[s] \in {NoPort, Port(s)}
    BY <2>1, <2>2 DEF StreamInv
  <2>4. Mine(s) \in {NoPort, Port(s)}
    BY <2>2 DEF Mine, SocketOf
  <2>5. NoPort \notin HeldBy(s)
    BY Constants DEF HeldBy
  <2>6. HeldBy(s) \subseteq {Port(s)} \cup Guests(s)
    BY <1>1, <2>3, <2>4, <2>5, HeldFor
  <2> QED
    BY <2>2, <2>3, <2>6 DEF Mine
<1>2. MInv => DecodesOnOwnPort
  BY <1>1 DEF DecodesOnOwnPort
<1> QED
  BY <1>2, Invariant, PTL

\* The thread of another stream comes to a socket only after its own was closed,
\* and so its worker waits for it.
LEMMA GuestIsJoined ==
    ASSUME MInv, NEW s \in Streams, NEW t \in Streams \ {s}, acceptOn[t] \in HeldBy(s)
    PROVE  pc[t] \in {"joinDefault", "joinOwn"}
<1>1. TypeOK /\ StreamInv(t) /\ acceptOn[t] # NoPort /\ holder[acceptOn[t]] = s
  BY Constants DEF MInv, HeldBy
<1>2. serverFd[t] = NoFd
  <2>1. SUFFICES ASSUME serverFd[t] # NoFd PROVE FALSE
    OBVIOUS
  <2>2. acceptOn[t] = Mine(t) /\ Mine(t) \in HeldBy(t)
    BY <1>1, <2>1, HeldFor DEF StreamInv
  <2> QED
    BY <1>1, <2>2 DEF HeldBy
<1>3. server[t] = "accepting"
  BY <1>1 DEF StreamInv
<1>4. Mine(t) = NoPort
  BY <1>2 DEF Mine, SocketOf
<1>5. DefaultPort # NoPort /\ Port(t) # NoPort
  BY Constants
<1> QED
  BY <1>1, <1>3, <1>4, <1>5 DEF TypeOK, StreamInv, PCs, WithoutServer

\* A worker that ended has joined its own thread, and what a stream without one
\* holds, it holds for threads that are themselves being joined.
THEOREM EndCorrect == Spec => []EndedHoldsNothing
<1>1. ASSUME MInv, NEW s \in Streams
      PROVE  /\ pc[s] = "ended" => server[s] = "none"
             /\ server[s] = "none" => serverFd[s] = NoFd /\ HeldBy(s) = Guests(s)
             /\ \A p \in Guests(s), t \in Streams \ {s} :
                   acceptOn[t] = p => pc[t] \in {"joinDefault", "joinOwn"}
  <2>1. StreamInv(s)
    BY <1>1 DEF MInv
  <2>2. pc[s] = "ended" => server[s] = "none"
    BY <2>1 DEF StreamInv, WithoutServer
  <2>3. ASSUME server[s] = "none"
        PROVE  serverFd[s] = NoFd /\ HeldBy(s) = Guests(s)
    <3>1. serverFd[s] = NoFd /\ acceptOn[s] = NoPort /\ Mine(s) = NoPort
      BY <2>1, <2>3 DEF StreamInv, Mine, SocketOf
    <3>2. NoPort \notin HeldBy(s)
      BY Constants DEF HeldBy
    <3> QED
      BY <1>1, <3>1, <3>2, HeldFor
  <2>4. \A p \in Guests(s), t \in Streams \ {s} :
           acceptOn[t] = p => pc[t] \in {"joinDefault", "joinOwn"}
    BY <1>1, GuestIsJoined DEF Guests
  <2> QED
    BY <2>2, <2>3, <2>4
<1>2. MInv => EndedHoldsNothing
  BY <1>1 DEF EndedHoldsNothing
<1> QED
  BY <1>2, Invariant, PTL

\* At most one stream waits for a default streamer that sleeps on its own
\* socket, for the port of that socket is still its own.
THEOREM StuckCorrect == Spec => []AtMostOneStuck
<1>1. ASSUME MInv, NEW s \in Streams, NEW t \in Streams, Stuck(s), Stuck(t)
      PROVE  s = t
  <2>1. acceptOn[s] \in HeldBy(s) /\ acceptOn[t] \in HeldBy(t)
    BY <1>1 DEF MInv, StreamInv, Stuck
  <2>2. acceptOn[s] = DefaultPort /\ acceptOn[t] = DefaultPort
    BY <1>1, <2>1 DEF MInv, StreamInv, Stuck, BeforeOwn
  <2> QED
    BY <2>1, <2>2 DEF HeldBy
<1>2. MInv => AtMostOneStuck
  BY <1>1 DEF AtMostOneStuck
<1> QED
  BY <1>2, Invariant, PTL

-----------------------------------------------------------------------------
(* The server of each stream implements PortServer.                        *)

\* What the abstract server of a stream is made of.
Open(t) == {Mine(t)} \ {NoPort}
Waits(t) == HeldBy(t) \cap {acceptOn[t]}
Thread(t) == IF server[t] \in {"none", "done"} THEN server[t] ELSE "running"

Holding == \A t \in Streams : HeldBy(t) = Open(t) \cup Waits(t) \cup Guests(t)

LEMMA HoldingNow == MInv => Holding
BY HeldFor DEF Holding, Open, Waits

LEMMA HoldingNext == MInv' => Holding'
BY HoldingNow, PTL

\* A step that changes nothing an abstract server sees.
LEMMA PortStutter ==
    ASSUME MInv, MInv', NEW t \in Streams,
           Mine(t)' = Mine(t), Waits(t)' = Waits(t), Guests(t)' = Guests(t),
           Stopping(t)' = Stopping(t), Thread(t)' = Thread(t)
    PROVE  UNCHANGED Server(t)!vars
<1>1. HeldBy(t)' = HeldBy(t)
  BY HoldingNow, HoldingNext DEF Holding, Open
<1> QED
  BY <1>1 DEF Server!vars, Waits, Thread, Mine

\* What another stream has is the same for its abstract server if nobody comes
\* to accept() or leaves it.
LEMMA PortKept ==
    ASSUME NEW t \in Streams, Kept(t), HeldBy(t)' = HeldBy(t), acceptOn' = acceptOn
    PROVE  UNCHANGED Server(t)!vars
BY DEF Server!vars, Kept, Mine, Guests, Stopping

PortSteps == \A t \in Streams : [Server(t)!Next]_(Server(t)!vars)

\* The constructor or init_for_multi_stream binds a port: Start.
LEMMA BindPort ==
    ASSUME MInv, MInv', NEW s \in Streams, ConstructBinds(s) \/ StartBinds(s)
    PROVE  PortSteps
<1> DEFINE p == IF pc[s] = "construct" THEN DefaultPort ELSE Port(s)
<1>1. TypeOK /\ SocketTypes /\ SocketsInv /\ StreamInv(s) /\ p \in Ports
  BY MInvTypes, Constants DEF MInv
<1>2. Bind(s, p) /\ pc[s] \in {"construct", "init"} /\ p \in {Port(s), DefaultPort}
  BY DEF ConstructBinds, StartBinds
<1>3. server[s] = "none" /\ serverFd[s] = NoFd /\ acceptOn[s] = NoPort
  BY <1>1, <1>2 DEF StreamInv, WithoutServer
<1>4. /\ server'[s] = "loop" /\ serverFd'[s] # NoFd /\ Mine(s)' = p
      /\ acceptOn' = acceptOn
      /\ HeldBy(s)' = HeldBy(s) \cup {p}
      /\ \A t \in Streams \ {s} : Kept(t) /\ HeldBy(t)' = HeldBy(t)
  BY <1>1, <1>2, <1>3, BindSockets
<1> HIDE DEF p
<1>5. p \notin HeldBy(s) /\ \A t \in Streams : acceptOn[t] # p
  BY <1>1, <1>2, Constants DEF Bind, HeldBy, SocketsInv, Referred
<1>6. Server(s)!Start
  <2>1. Guests(s)' = Guests(s)
    BY <1>4, <1>5 DEF Guests
  <2>2. Waits(s)' = Waits(s)
    BY <1>3, <1>4, <1>1, Constants DEF Waits, HeldBy
  <2>3. p # NoPort
    BY <1>1, Constants
  <2> QED
    BY <1>2, <1>3, <1>4, <1>5, <2>1, <2>2, <2>3
       DEF Server!Start, Stopping, Mine, Waits
<1>7. Server(s)!Next
  BY <1>6, HoldingNext DEF Server!Next, Holding, Open, Waits, Mine
<1>8. \A t \in Streams \ {s} : UNCHANGED Server(t)!vars
  BY <1>4, PortKept
<1> QED
  BY <1>7, <1>8 DEF PortSteps

\* The default streamer or the stream's own is told to stop: Close.
LEMMA ClosePort ==
    ASSUME MInv, MInv', NEW s \in Streams,
           StopDefault(s) \/ (DecodeEnds(s) /\ server[s] # "none")
    PROVE  PortSteps
<1>1. TypeOK /\ SocketTypes /\ SocketsInv /\ StreamInv(s)
  BY MInvTypes DEF MInv
<1>2. CloseSocket(s) /\ pc[s] \in {"stopDefault", "decode"}
  BY DEF StopDefault, DecodeEnds
<1>3. Mine(s) # NoPort /\ serverFd[s] # NoFd /\ server[s] # "none"
  BY <1>1, <1>2, Constants DEF StreamInv, Mine, SocketOf, StopDefault, DecodeEnds
<1>4. /\ serverFd'[s] = NoFd /\ Mine(s)' = NoPort
      /\ server' = server /\ acceptOn' = acceptOn
      /\ \A p \in Ports : holder'[p] = s =>
            holder[p] = s /\ \E t \in Streams : acceptOn[t] = p
      /\ \A p \in Ports : holder[p] = s /\ (\E t \in Streams : acceptOn[t] = p) =>
            holder'[p] = s
      /\ \A t \in Streams \ {s} : Kept(t) /\ HeldBy(t)' = HeldBy(t)
  BY <1>1, <1>2, <1>3, CloseSockets
<1>5. Guests(s)' = Guests(s) /\ Waits(s)' = Waits(s)
  BY <1>4 DEF Guests, Waits, HeldBy
<1>6. Server(s)!Close
  BY <1>3, <1>4, <1>5 DEF Server!Close, Stopping, Mine, Waits
<1>7. Server(s)!Next
  BY <1>6, HoldingNext DEF Server!Next, Holding, Open, Waits, Mine
<1>8. \A t \in Streams \ {s} : UNCHANGED Server(t)!vars
  BY <1>4, PortKept
<1> QED
  BY <1>7, <1>8 DEF PortSteps

\* The join of the server thread: Join.
LEMMA JoinPort ==
    ASSUME MInv, MInv', NEW s \in Streams, JoinServer(s)
    PROVE  PortSteps
<1>1. TypeOK /\ SocketTypes /\ StreamInv(s)
  BY MInvTypes DEF MInv
<1>2. /\ UNCHANGED <<holder, fdTable, serverFd, readFd, acceptOn, visitors>>
      /\ server[s] = "done" /\ server' = [server EXCEPT ![s] = "none"]
  BY DEF JoinServer
<1>3. server'[s] = "none" /\ \A t \in Streams \ {s} : server'[t] = server[t]
  BY <1>1, <1>2 DEF SocketTypes
<1>4. serverFd[s] = NoFd
  BY <1>1, <1>2 DEF StreamInv
<1>5. \A t \in Streams : /\ HeldBy(t)' = HeldBy(t) /\ Mine(t)' = Mine(t)
                         /\ Guests(t)' = Guests(t) /\ Waits(t)' = Waits(t)
  BY <1>2 DEF HeldBy, Mine, SocketOf, Guests, Waits
<1>6. Server(s)!Join
  BY <1>2, <1>3, <1>4, <1>5 DEF Server!Join, Stopping, Mine, Waits, SocketOf
<1>7. Server(s)!Next
  BY <1>6, HoldingNext DEF Server!Next, Holding, Open, Waits, Mine
<1>8. \A t \in Streams \ {s} : UNCHANGED Server(t)!vars
  BY <1>2, <1>3, <1>5, PortKept DEF Kept
<1> QED
  BY <1>7, <1>8 DEF PortSteps

\* A server thread outside accept(): Finish when it leaves its loop.
LEMMA ThreadPort ==
    ASSUME MInv, MInv', NEW s \in Streams, ServerLoop(s) \/ ReadFd(s) \/ AcceptFails(s)
    PROVE  PortSteps
<1>1. TypeOK /\ SocketTypes /\ StreamInv(s)
  BY MInvTypes DEF MInv
<1>2. UNCHANGED <<holder, fdTable, serverFd, acceptOn, visitors>>
  BY DEF ServerLoop, ReadFd, AcceptFails
<1>3. \A t \in Streams \ {s} : server'[t] = server[t] /\ readFd'[t] = readFd[t]
  BY <1>1 DEF SocketTypes, ServerLoop, ReadFd, AcceptFails
<1>4. \A t \in Streams : /\ HeldBy(t)' = HeldBy(t) /\ Mine(t)' = Mine(t)
                         /\ Guests(t)' = Guests(t) /\ Waits(t)' = Waits(t)
  BY <1>2 DEF HeldBy, Mine, SocketOf, Guests, Waits
<1>5. \A t \in Streams \ {s} : UNCHANGED Server(t)!vars
  BY <1>2, <1>3, <1>4, PortKept DEF Kept
<1>6. CASE ServerLoop(s) /\ Stopping(s)
  <2>1. server[s] = "loop" /\ server'[s] = "done"
    BY <1>1, <1>6 DEF SocketTypes, ServerLoop
  <2>2. acceptOn[s] = NoPort /\ Waits(s) = {}
    BY <1>1, <2>1, Constants DEF StreamInv, Waits, HeldBy
  <2>3. Server(s)!Finish
    BY <1>2, <1>4, <1>6, <2>1, <2>2 DEF Server!Finish, Stopping, Mine, Waits
  <2>4. Server(s)!Next
    BY <2>3, HoldingNext DEF Server!Next, Holding, Open, Waits, Mine
  <2> QED
    BY <1>5, <2>4 DEF PortSteps
<1>7. CASE ~(ServerLoop(s) /\ Stopping(s))
  <2>1. server[s] \in {"loop", "read", "call"} /\ server'[s] \in {"loop", "read", "call"}
    BY <1>1, <1>7 DEF SocketTypes, ServerLoop, ReadFd, AcceptFails
  <2>2. Stopping(s)' = Stopping(s) /\ Thread(s)' = Thread(s)
    BY <1>2, <2>1 DEF Stopping, Thread
  <2>3. UNCHANGED Server(s)!vars
    BY <1>4, <2>2, PortStutter
  <2> QED
    BY <1>5, <2>3 DEF PortSteps
<1> QED
  BY <1>6, <1>7

\* A thread comes to accept(): Accept on its own server's socket, Invite on
\* another's.
LEMMA AcceptPort ==
    ASSUME MInv, MInv', NEW s \in Streams, AcceptBlocks(s)
    PROVE  PortSteps
<1> DEFINE q == SocketOf(readFd[s])
<1>1. TypeOK /\ SocketTypes /\ SocketsInv /\ StreamInv(s)
  BY MInvTypes DEF MInv
<1>2. server[s] = "call" /\ acceptOn[s] = NoPort /\ q # NoPort
  BY <1>1 DEF StreamInv, AcceptBlocks
<1>3. /\ server'[s] = "accepting" /\ acceptOn'[s] = q
      /\ holder' = holder /\ fdTable' = fdTable /\ serverFd' = serverFd
      /\ \A t \in Streams \ {s} : Kept(t)
  BY <1>1, <1>2, AcceptBlocksSockets
<1>4. \A t \in Streams : HeldBy(t)' = HeldBy(t) /\ Mine(t)' = Mine(t)
  BY <1>3 DEF HeldBy, Mine, SocketOf
<1>5. q \in Ports /\ \A t \in Streams : q \in HeldBy(t) => Mine(t) = q
  <2>1. /\ readFd[s] \in Numbers /\ q \in Ports
        /\ holder[q] \in Streams /\ serverFd[holder[q]] = readFd[s]
    BY <1>1, <1>2, OpenNumber DEF SocketTypes
  <2> QED
    BY <2>1 DEF HeldBy, Mine
<1> HIDE DEF q
<1>6. \A t \in Streams \ {s} : acceptOn'[t] = acceptOn[t]
  BY <1>3 DEF Kept
<1>7. Guests(s)' = Guests(s) /\ Stopping(s)' = Stopping(s) /\ Thread(s)' = Thread(s)
  BY <1>2, <1>3, <1>4, <1>6 DEF Guests, Stopping, Thread
<1>8. Waits(s) = {} /\ Waits(s)' = HeldBy(s) \cap {q}
  BY <1>2, <1>3, <1>4, Constants DEF Waits, HeldBy
<1>9. [Server(s)!Next]_(Server(s)!vars)
  <2>1. CASE q \in HeldBy(s)
    <3>1. Open(s) = {q} /\ Waits(s)' = {q} /\ Thread(s) = "running"
      BY <1>2, <1>5, <1>8, <2>1 DEF Open, Thread
    <3>2. Server(s)!Accept
      BY <1>4, <1>7, <1>8, <3>1 DEF Server!Accept, Open, Waits, Mine, Thread
    <3> QED
      BY <3>2, HoldingNext DEF Server!Next, Holding, Open, Waits, Mine
  <2>2. CASE q \notin HeldBy(s)
    BY <1>4, <1>7, <1>8, <2>2, PortStutter
  <2> QED
    BY <2>1, <2>2
<1>10. ASSUME NEW t \in Streams \ {s}
       PROVE  [Server(t)!Next]_(Server(t)!vars)
  <2>1. /\ Waits(t)' = Waits(t) /\ Stopping(t)' = Stopping(t)
        /\ Thread(t)' = Thread(t) /\ server'[t] = server[t]
    BY <1>3, <1>4 DEF Kept, Waits, Stopping, Thread
  <2>2. CASE q \in HeldBy(t)
    <3>1. q \in Open(t)
      BY <1>2, <1>5, <2>2 DEF Open
    <3>2. Guests(t)' = Guests(t) \cup {q}
      <4>1. s \in Streams \ {t} /\ HeldBy(t)' = HeldBy(t)
        BY <1>4, <1>10
      <4>2. ASSUME NEW p \in HeldBy(t)
            PROVE  (\E u \in Streams \ {t} : acceptOn'[u] = p)
                     <=> p = q \/ \E u \in Streams \ {t} : acceptOn[u] = p
        <5>1. p # NoPort
          BY Constants DEF HeldBy
        <5> QED
          BY <1>2, <1>3, <1>6, <4>1, <5>1
      <4> QED
        BY <2>2, <4>1, <4>2 DEF Guests
    <3>3. Open(t)' = Open(t) /\ Waits(t)' = Waits(t)
      BY <1>4, <2>1 DEF Open
    <3>4. \E p \in Open(t) : Guests(t)' = Guests(t) \cup {p}
      BY <3>1, <3>2
    <3>5. Server(t)!Invite
      BY <2>1, <3>3, <3>4 DEF Server!Invite, Open, Waits, Mine, Thread
    <3> QED
      BY <3>5, HoldingNext DEF Server!Next, Holding, Open, Waits, Mine
  <2>3. CASE q \notin HeldBy(t)
    <3>1. Guests(t)' = Guests(t)
      BY <1>2, <1>3, <1>4, <1>6, <2>3, Constants DEF Guests, HeldBy
    <3> QED
      BY <1>4, <2>1, <3>1, PortStutter
  <2> QED
    BY <2>2, <2>3
<1> QED
  BY <1>9, <1>10 DEF PortSteps

\* A thread leaves accept(): Return from its own server's socket, Leave from
\* another's if it was the last one there.
LEMMA ReturnPort ==
    ASSUME MInv, MInv', NEW s \in Streams, AcceptReturns(s)
    PROVE  PortSteps
<1> DEFINE q == acceptOn[s]
<1>1. TypeOK /\ SocketTypes /\ SocketsInv /\ server[s] = "accepting"
  BY MInvTypes DEF MInv, AcceptReturns
<1>2. /\ server'[s] = "loop" /\ acceptOn'[s] = NoPort
      /\ fdTable' = fdTable /\ serverFd' = serverFd
      /\ \A t \in Streams : HeldBy(t)' \subseteq HeldBy(t)
      /\ \A t \in Streams : \A p \in HeldBy(t) :
            (\E u \in Streams : acceptOn'[u] = p) => p \in HeldBy(t)'
      /\ \A t \in Streams \ {s} : Kept(t)
  BY <1>1, AcceptReturnsSockets
<1>3. \A t \in Streams : Mine(t)' = Mine(t)
  BY <1>2 DEF Mine, SocketOf
<1>4. \A t \in Streams \ {s} : acceptOn'[t] = acceptOn[t]
  BY <1>2 DEF Kept
<1>5. \A t \in Streams : NoPort \notin HeldBy(t)
  BY Constants DEF HeldBy
<1>6. Guests(s)' = Guests(s)
  BY <1>2, <1>4 DEF Guests
<1>7. Waits(s)' = {} /\ Stopping(s)' = Stopping(s) /\ Thread(s)' = Thread(s)
  BY <1>1, <1>2, <1>5 DEF Waits, Stopping, Thread
<1>8. [Server(s)!Next]_(Server(s)!vars)
  <2>1. CASE Waits(s) = {}
    BY <1>3, <1>6, <1>7, <2>1, PortStutter
  <2>2. CASE Waits(s) # {}
    <3>1. Server(s)!Return
      BY <1>3, <1>6, <1>7, <2>2 DEF Server!Return, Waits, Mine, Thread
    <3> QED
      BY <3>1, HoldingNext DEF Server!Next, Holding, Open, Waits, Mine
  <2> QED
    BY <2>1, <2>2
<1>9. ASSUME NEW t \in Streams \ {s}
      PROVE  [Server(t)!Next]_(Server(t)!vars)
  <2>1. Stopping(t)' = Stopping(t) /\ Thread(t)' = Thread(t)
    BY <1>2 DEF Kept, Stopping, Thread
  <2>2. Waits(t)' = Waits(t)
    BY <1>2, <1>4, <1>9 DEF Waits
  <2>3. Guests(t)' \subseteq Guests(t) /\ Guests(t) \subseteq Guests(t)' \cup {q}
    <3>1. ASSUME NEW p \in Guests(t)'
          PROVE  p \in Guests(t)
      <4>1. p \in HeldBy(t) /\ \E u \in Streams \ {t} : acceptOn'[u] = p
        BY <1>2, <3>1 DEF Guests
      <4> QED
        BY <1>2, <1>4, <1>5, <4>1 DEF Guests
    <3>2. ASSUME NEW p \in Guests(t), p # q
          PROVE  p \in Guests(t)'
      <4>1. PICK u \in Streams \ {t} : acceptOn[u] = p
        BY DEF Guests
      <4>2. u # s /\ acceptOn'[u] = p
        BY <1>4, <3>2, <4>1
      <4> QED
        BY <1>2, <4>1, <4>2 DEF Guests
    <3> QED
      BY <3>1, <3>2
  <2> HIDE DEF q
  <2>4. CASE Guests(t)' = Guests(t)
    BY <1>3, <2>1, <2>2, <2>4, PortStutter
  <2>5. CASE Guests(t)' # Guests(t)
    <3>1. q \in Guests(t) /\ Guests(t)' = Guests(t) \ {q}
      BY <2>3, <2>5
    <3>2. Server(t)!Leave
      BY <1>3, <2>1, <2>2, <3>1 DEF Server!Leave, Waits, Mine, Thread
    <3> QED
      BY <3>2, HoldingNext DEF Server!Next, Holding, Open, Waits, Mine
  <2> QED
    BY <2>4, <2>5
<1> QED
  BY <1>8, <1>9 DEF PortSteps

\* Whatever else happens works on no socket.
LEMMA QuietPort ==
    ASSUME MInv, UNCHANGED sockets
    PROVE  PortSteps
BY SameSockets, PortKept DEF MInv, PortSteps, sockets

LEMMA NextPorts == MInv /\ MInv' /\ [Next]_vars => PortSteps
<1> SUFFICES ASSUME MInv, MInv', [Next]_vars
             PROVE  PortSteps
  OBVIOUS
<1>1. CASE Spawn \/ MainReturns \/ Signal \/ Exit
  BY <1>1, QuietPort DEF Spawn, MainReturns, Signal, Exit
<1>2. ASSUME NEW s \in Streams,
             Worker(s) \/ ServerStep(s) \/ AcceptReturns(s) \/ EncoderWakes(s)
      PROVE  PortSteps
  <2>1. CASE ConstructBinds(s) \/ StartBinds(s)
    BY <2>1, BindPort
  <2>2. CASE StopDefault(s)
    BY <2>2, ClosePort
  <2>3. CASE DecodeEnds(s)
    <3>1. CASE server[s] # "none"
      BY <2>3, <3>1, ClosePort
    <3>2. CASE server[s] = "none"
      BY <2>3, <3>2, QuietPort DEF DecodeEnds
    <3> QED
      BY <3>1, <3>2
  <2>4. CASE ConstructFails(s) \/ ConstructNothing(s) \/ JoinEncoder(s)
    BY <2>4, QuietPort DEF ConstructFails, ConstructNothing, JoinEncoder
  <2>5. CASE InitFails(s) \/ StartFails(s) \/ EncoderWakes(s)
    BY <2>5, QuietPort DEF InitFails, StartFails, EncoderWakes
  <2>6. CASE JoinServer(s)
    BY <2>6, JoinPort
  <2>7. CASE ServerStep(s)
    <3>1. CASE AcceptBlocks(s)
      BY <3>1, AcceptPort
    <3>2. CASE ServerLoop(s) \/ ReadFd(s) \/ AcceptFails(s)
      BY <3>2, ThreadPort
    <3> QED
      BY <2>7, <3>1, <3>2 DEF ServerStep
  <2>8. CASE AcceptReturns(s)
    BY <2>8, ReturnPort
  <2>9. CASE Worker(s)
    BY <2>1, <2>2, <2>3, <2>4, <2>5, <2>6, <2>9 DEF Worker
  <2> QED
    BY <1>2, <2>5, <2>7, <2>8, <2>9
<1>3. CASE UNCHANGED vars
  BY <1>3, QuietPort DEF vars, sockets
<1> QED
  BY <1>1, <1>2, <1>3 DEF Next

LEMMA InitPorts == Init => \A s \in Streams : Server(s)!Init
BY Constants DEF Init, Server!Init, HeldBy, Guests, Stopping, SocketOf

\* The server of each stream, with all the others about and whatever descriptor
\* numbers they are given, is a holder of ports as PortServer describes it: it
\* takes a free port, and has it until it is closed and nobody is in accept() on
\* it any more (SimpleHTTPServer::start, stop and server_worker).
THEOREM PortsImplement == Spec => ImplementPortServers
<1>1. MInv /\ MInv' /\ [Next]_vars
         => [\A s \in Streams : [Server(s)!Next]_(Server(s)!vars)]_vars
  BY NextPorts DEF PortSteps
<1> QED
  BY <1>1, InitPorts, Invariant, PTL DEF Spec, ImplementPortServers
=============================================================================
