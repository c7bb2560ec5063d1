----------------------------- MODULE PortServer -----------------------------
(***************************************************************************)
(* What one HTTP server does to the ports of its process, as whoever wants *)
(* one of them sees it: it takes a port when it starts and holds it until  *)
(* its descriptor has been closed and no thread is in accept() on the      *)
(* socket any more.  One such thread is its own.  The others are threads   *)
(* of other servers that came to the socket by its descriptor's number:    *)
(* they do so only while it is open, and may keep the port beyond the join *)
(* of the server's own thread, but nothing else does.  Nobody takes the    *)
(* port from it in between, it never gets it back by itself, and it starts *)
(* again only when its thread was joined, and on another port.             *)
(***************************************************************************)
CONSTANT Ports

VARIABLES bound,      \* the ports its sockets are bound to
          open,       \* the port of the one it has a descriptor of, as a set
          waits,      \* the port its thread is in accept() on, as a set
          guests,     \* its ports other servers' threads are in accept() on
          stopping,   \* stop() has begun and is not over
          thread      \* its thread: "none", "running" or "done"

vars == <<bound, open, waits, guests, stopping, thread>>

Init ==
    /\ bound = {}
    /\ open = {}
    /\ waits = {}
    /\ guests = {}
    /\ stopping = FALSE
    /\ thread = "none"

Start ==
    /\ thread = "none"
    /\ \E p \in Ports \ bound : open' = {p}
    /\ thread' = "running"
    /\ UNCHANGED <<waits, guests, stopping>>

Accept ==
    /\ thread = "running"
    /\ waits = {} /\ open # {}
    /\ waits' = open
    /\ UNCHANGED <<open, guests, stopping, thread>>

\* accept() returns.
Return ==
    /\ waits # {}
    /\ waits' = {}
    /\ UNCHANGED <<open, guests, stopping, thread>>

Finish ==
    /\ thread = "running"
    /\ waits = {} /\ stopping
    /\ thread' = "done"
    /\ UNCHANGED <<open, waits, guests, stopping>>

Stop ==
    /\ thread # "none"
    /\ stopping' = TRUE
    /\ UNCHANGED <<open, waits, guests, thread>>

\* A stop() that closes.
Close ==
    /\ thread # "none"
    /\ open # {}
    /\ open' = {}
    /\ stopping' = TRUE
    /\ UNCHANGED <<waits, guests, thread>>

Join ==
    /\ thread = "done"
    /\ open = {}
    /\ thread' = "none"
    /\ stopping' = FALSE
    /\ UNCHANGED <<open, waits, guests>>

\* The thread of another server is in accept() on a socket of this one.
Invite ==
    /\ \E p \in open : guests' = guests \cup {p}
    /\ UNCHANGED <<open, waits, stopping, thread>>

\* The last of them has left it.
Leave ==
    /\ \E p \in guests : guests' = guests \ {p}
    /\ UNCHANGED <<open, waits, stopping, thread>>

\* A port is held for those who refer to its socket, and for nobody else.
Next ==
    /\ \/ Start \/ Accept \/ Return \/ Finish \/ Stop \/ Close \/ Join
       \/ Invite \/ Leave
    /\ bound' = open' \cup waits' \cup guests'

Spec == Init /\ [][Next]_vars
=============================================================================
