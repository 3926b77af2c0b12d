----------------------------- MODULE NetworkManager -----------------------------
(***************************************************************************)
(* network/NetworkManager.ts: the sockets between nodes and the table of      *)
(* peers each node keeps of them.  The node a socket was opened to listens to *)
(* its messages and its end; the node that opened it listens to nothing once  *)
(* it is open, so it drops what it is sent, welcome, ping and transaction, and *)
(* keeps the entry of a socket long closed.  What the handlers do with a       *)
(* transaction is module DLTNode; nothing calls broadcastBlock.                *)
(***************************************************************************)
EXTENDS Integers, Sequences, Maps

CONSTANTS
    Nodes,
    MaxSockets,   \* bound: calls of connectToPeer
    MaxBroadcasts \* bound: transactions and pings broadcast

VARIABLES
    netRunning, \* isRunning, with the server listening
    sockets,    \* sequence of [from, to, client, server, up, down]: the readyState of
                \*   both ends ("NONE" before the connection), what is under way
    netPeers,   \* node -> its peers: id -> [socket, seen], seen once lastSeen has moved
    netSent,    \* sequence of the nodes that broadcast a transaction
    netPings,   \* pings broadcast
    netReceived \* [node, tx] -> how often 'transaction:received' was emitted of it

netVars == <<netRunning, sockets, netPeers, netSent, netPings, netReceived>>

\* generatePeerId: the address dialled, or the ephemeral port dialled from.
Dialled(n) == <<"address", n>>
DialledFrom(k) == <<"port", k>>

Message(type, tx) == [type |-> type, tx |-> tx]

\* initialize
Init ==
    /\ netRunning = [n \in Nodes |-> TRUE]
    /\ sockets = <<>> /\ netPeers = [n \in Nodes |-> Empty]
    /\ netSent = <<>> /\ netPings = 0 /\ netReceived = Empty

-----------------------------------------------------------------------------
\* connectToPeer, which does not ask whether there is a connection already, nor
\* whether the node runs.
ConnectToPeer(n, m) ==
    /\ Len(sockets) < MaxSockets
    /\ sockets' = Append(sockets, [from |-> n, to |-> m, client |-> "CONNECTING", server |-> "NONE",
                                   up |-> <<>>, down |-> <<>>])
    /\ UNCHANGED <<netRunning, netPeers, netSent, netPings, netReceived>>

\* Nobody listens at that address, or the connection fails: the promise is
\* rejected.
Refused(k) ==
    /\ sockets[k].client = "CONNECTING"
    /\ sockets' = [sockets EXCEPT ![k].client = "CLOSED"]
    /\ UNCHANGED <<netRunning, netPeers, netSent, netPings, netReceived>>

\* handleConnection, at the node that was dialled.
HandleConnection(k) ==
    LET n == sockets[k].to IN
    /\ sockets[k].client = "CONNECTING" /\ sockets[k].server = "NONE" /\ netRunning[n]
    /\ sockets' = [sockets EXCEPT ![k].server = "OPEN", ![k].down = Append(@, Message("welcome", 0))]
    /\ netPeers' = [netPeers EXCEPT ![n] = Put(@, DialledFrom(k), [socket |-> k, seen |-> FALSE])]
    /\ UNCHANGED <<netRunning, netSent, netPings, netReceived>>

\* The socket's `open' event: an earlier entry of the same address is replaced
\* and its socket left open.
Opened(k) ==
    LET n == sockets[k].from IN
    /\ sockets[k].client = "CONNECTING" /\ sockets[k].server # "NONE"
    /\ sockets' = [sockets EXCEPT ![k].client = "OPEN"]
    /\ netPeers' = [netPeers EXCEPT ![n] = Put(@, Dialled(sockets[k].to), [socket |-> k, seen |-> FALSE])]
    /\ UNCHANGED <<netRunning, netSent, netPings, netReceived>>

-----------------------------------------------------------------------------
\* What n's end of a socket is called, and the sockets with its entry.
End(n, k) == IF sockets[k].from = n THEN "client" ELSE "server"
Towards(n, k) == IF sockets[k].from = n THEN "up" ELSE "down"
PeerSockets(n) == {netPeers[n][id].socket : id \in DOMAIN netPeers[n]}

\* broadcast, to the peers whose socket is open at this end.
Broadcast(n, message) ==
    sockets' = [k \in DOMAIN sockets |->
        IF k \in PeerSockets(n) /\ sockets[k][End(n, k)] = "OPEN"
        THEN [sockets[k] EXCEPT ![Towards(n, k)] = Append(@, message)] ELSE sockets[k]]

BroadcastTransaction(n) ==
    /\ netRunning[n] /\ Len(netSent) + netPings < MaxBroadcasts
    /\ netSent' = Append(netSent, n)
    /\ Broadcast(n, Message("transaction", Len(netSent) + 1))
    /\ UNCHANGED <<netRunning, netPeers, netPings, netReceived>>

PingPeers(n) ==
    /\ Len(netSent) + netPings < MaxBroadcasts /\ netPings' = netPings + 1
    /\ Broadcast(n, Message("ping", 0))
    /\ UNCHANGED <<netRunning, netPeers, netSent, netReceived>>

\* handleMessage, at the end that listens.  One whose entry is gone is answered
\* nothing, but what it sends is taken still.
HandleMessage(k) ==
    LET n == sockets[k].to
        message == Head(sockets[k].up)
        known == DialledFrom(k) \in DOMAIN netPeers[n]
        read == [sockets EXCEPT ![k].up = Tail(@)]
    IN  /\ sockets[k].server \in {"OPEN", "CLOSING"} /\ sockets[k].up # <<>>
        /\ sockets' = IF message.type = "ping" /\ known /\ sockets[k].server = "OPEN"
                      THEN [read EXCEPT ![k].down = Append(@, Message("pong", 0))] ELSE read
        /\ netReceived' = IF message.type = "transaction"
                          THEN LET d == [node |-> n, tx |-> message.tx]
                               IN  Put(netReceived, d, IF d \in DOMAIN netReceived THEN netReceived[d] + 1 ELSE 1)
                          ELSE netReceived
        /\ netPeers' = IF message.type = "pong" /\ known
                       THEN [netPeers EXCEPT ![n] = Put(@, DialledFrom(k), [socket |-> k, seen |-> TRUE])]
                       ELSE netPeers
        /\ UNCHANGED <<netRunning, netSent, netPings>>

\* The other end has no listener for it.
Dropped(k) ==
    /\ sockets[k].client \in {"OPEN", "CLOSING"} /\ sockets[k].down # <<>>
    /\ sockets' = [sockets EXCEPT ![k].down = Tail(@)]
    /\ UNCHANGED <<netRunning, netPeers, netSent, netPings, netReceived>>

-----------------------------------------------------------------------------
\* handleDisconnection, on `close' or `error' at the end that listens: the socket
\* failed, or everything sent before the other end closed has been read.
HandleDisconnection(k) ==
    LET n == sockets[k].to IN
    /\ sockets[k].server \in {"OPEN", "CLOSING"}
    /\ sockets' = [sockets EXCEPT ![k].server = "CLOSED", ![k].up = <<>>]
    /\ netPeers' = [netPeers EXCEPT ![n] = Drop(@, {DialledFrom(k)})]
    /\ UNCHANGED <<netRunning, netSent, netPings, netReceived>>

\* The same at the end that opened it, which does not listen.
ClosedUnheard(k) ==
    /\ sockets[k].client \in {"OPEN", "CLOSING"}
    /\ sockets' = [sockets EXCEPT ![k].client = "CLOSED", ![k].down = <<>>]
    /\ UNCHANGED <<netRunning, netPeers, netSent, netPings, netReceived>>

\* shutdown: the sockets of the table are closed, and what is in a closed one is
\* read to its end.
Shutdown(n) ==
    /\ netRunning[n] /\ netRunning' = [netRunning EXCEPT ![n] = FALSE]
    /\ sockets' = [k \in DOMAIN sockets |->
          IF k \in PeerSockets(n) /\ sockets[k][End(n, k)] = "OPEN"
          THEN [sockets[k] EXCEPT ![End(n, k)] = "CLOSING"] ELSE sockets[k]]
    /\ netPeers' = [netPeers EXCEPT ![n] = Empty]
    /\ UNCHANGED <<netSent, netPings, netReceived>>

Next ==
    \/ \E n \in Nodes :
        \/ \E m \in Nodes \ {n} : ConnectToPeer(n, m)
        \/ BroadcastTransaction(n) \/ PingPeers(n) \/ Shutdown(n)
    \/ \E k \in DOMAIN sockets :
        \/ Refused(k) \/ HandleConnection(k) \/ Opened(k)
        \/ HandleMessage(k) \/ Dropped(k)
        \/ HandleDisconnection(k) \/ ClosedUnheard(k)

Spec == Init /\ [][Next]_netVars

-----------------------------------------------------------------------------
TypeOK ==
    /\ netRunning \in [Nodes -> BOOLEAN]
    /\ \A k \in DOMAIN sockets :
        /\ sockets[k].from \in Nodes /\ sockets[k].to \in Nodes
        /\ sockets[k].client \in {"CONNECTING", "OPEN", "CLOSING", "CLOSED"}
        /\ sockets[k].server \in {"NONE", "OPEN", "CLOSING", "CLOSED"}
    /\ \A n \in Nodes : IsMap(netPeers[n], {Dialled(m) : m \in Nodes} \cup {DialledFrom(k) : k \in DOMAIN sockets},
                              [socket : DOMAIN sockets, seen : BOOLEAN])
    /\ netSent \in Seq(Nodes) /\ netPings \in 0..MaxBroadcasts
    /\ IsMap(netReceived, [node : Nodes, tx : DOMAIN netSent], Nat)

\* A node's entries for those that dialled it are the sockets open at its end, no
\* more and no fewer, through ends, errors and its own shutdown.
IncomingIsOpen ==
    \A n \in Nodes :
        {k \in DOMAIN sockets : DialledFrom(k) \in DOMAIN netPeers[n]}
            = {k \in DOMAIN sockets : sockets[k].to = n /\ sockets[k].server = "OPEN"}

\* A transaction reaches a node at most once, however often its sender dialled
\* it, and only a node its sender has dialled: nobody hears the nodes it dialled,
\* so two nodes connected one way hear one another one way.  For the same
\* reason no pong is ever read, and lastSeen never moves.
HeardOneWay ==
    /\ \A d \in DOMAIN netReceived :
        /\ netReceived[d] = 1
        /\ \E k \in DOMAIN sockets : sockets[k].from = netSent[d.tx] /\ sockets[k].to = d.node
    /\ \A n \in Nodes : \A id \in DOMAIN netPeers[n] : ~netPeers[n][id].seen
=============================================================================
