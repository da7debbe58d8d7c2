----------------------------- MODULE SocketLink -----------------------------
(***************************************************************************)
(* How links between nodes come and go: port checks, WebSocketService at   *)
(* both ends of a connection, the handshake (public keys, then             *)
(* HandshakeMessage), the limit on connections, the peers that are kept    *)
(* away, failed_ips_, reconn_ and the reconnection timer.                  *)
(*                                                                         *)
(* Everything of a node runs on its network thread.  A text that arrived   *)
(* is handled by a queued slot, a disconnect at once: a socket may still   *)
(* read its texts after it was closed.  Nodes have distinct addresses, so  *)
(* a node stands for its address and for its identifier; all run the same  *)
(* version and sockets are SocketMode::Full.                               *)
(***************************************************************************)
EXTENDS Naturals, Sequences, FiniteSets

CONSTANTS
    Nodes,
    First,      \* first_node_ of every node
    UiClients,  \* nodes built with IS_APP_UI_CLIENT
    Limit,      \* Limit[n]: Network::maxConnections of the build of n
    NetworkIds,
    Zero,       \* the empty network id
    InitialIds, \* bound: possible network ids at the start, functions on Nodes
    Sockets,    \* bound: the connections that are opened, 1, 2, ...
    Dials,      \* bound: <<n, m>> that users or lists of nodes ask for at the start
    Avoiding,   \* bound: <<n, m>>: n may be told to keep away from m
    MaxCuts,    \* bound: connections that break
    None

LinkAssumption ==
    /\ First \in Nodes /\ UiClients \subseteq Nodes
    /\ Limit \in [Nodes -> Nat]
    /\ Zero \in NetworkIds /\ InitialIds \subseteq [Nodes -> NetworkIds]
    /\ Dials \subseteq Nodes \X Nodes /\ Avoiding \subseteq Nodes \X Nodes
    /\ Sockets \subseteq Nat /\ MaxCuts \in Nat
    /\ None \notin Nodes

Ends == Sockets \X {"out", "in"}

VARIABLES
    dial,     \* dial[s]: who opened the connection and to whom, or None
    phase,    \* phase[e]: what the service at an end has reached
    wire,     \* wire[e]: what is on its way to an end
    probing,  \* <<n, m>>: a port check under way
    avoided,  \* <<n, m>>: avoided_peers_
    dropping, \* nodes with a queued call of set_avoided_peers
    failed,   \* <<n, m>>: failed_ips_
    reconn,   \* <<n, m>>: reconn_
    net,      \* net[n]: the network id of n
    cuts

vars == <<dial, phase, wire, probing, avoided, dropping, failed, reconn, net, cuts>>

(* What a connection carries: the public key, the HandshakeMessage (what of it
   is told apart here), and the end, with or without an Error text. *)
Key == [kind |-> "key"]
Fin == [kind |-> "fin"]
Hello == [kind : {"hello"}, net : NetworkIds, peers : SUBSET Nodes, available : BOOLEAN]

TypeOK ==
    /\ dial \in [Sockets -> (Nodes \X Nodes) \union {<<None, None>>}]
    /\ phase \in [Ends -> {"none", "opening", "open", "keyed", "active", "closed"}]
    /\ \A e \in Ends : \A i \in DOMAIN wire[e] : wire[e][i] \in Hello \union {Key, Fin}
    /\ \A v \in {probing, avoided, failed, reconn} : v \subseteq Nodes \X Nodes
    /\ dropping \subseteq Nodes
    /\ net \in [Nodes -> NetworkIds]
    /\ cuts \in 0 .. MaxCuts

Init ==
    /\ dial = [s \in Sockets |-> <<None, None>>]
    /\ phase = [e \in Ends |-> "none"]
    /\ wire = [e \in Ends |-> <<>>]
    /\ probing = Dials /\ avoided = {} /\ dropping = {} /\ failed = {} /\ reconn = {}
    /\ net \in InitialIds
    /\ cuts = 0

Far(e) == <<e[1], IF e[2] = "out" THEN "in" ELSE "out">>
Here(e) == IF e[2] = "out" THEN dial[e[1]][1] ELSE dial[e[1]][2]
Peer(e) == Here(Far(e))

(* connections_: a closed service is taken out at once. *)
Connections(ph, n) == {e \in Ends : ph[e] \notin {"none", "closed"} /\ Here(e) = n}
Active(ph, n) == {e \in Connections(ph, n) : ph[e] = "active"}

(* Only the caller knows that a connection is constant: the description of
   HandshakeMessage leaves is_constant out. *)
Constant(e) == e[2] = "out" /\ Peer(e) = First

Avoided(n, m) == m # First /\ <<n, m>> \in avoided

(* closeSocket at the ends es, after an Error text or without one: the other
   end hears of it. *)
Closed(ph, es) == [e \in Ends |-> IF e \in es THEN "closed" ELSE ph[e]]
Posted(w, e, x) ==
    IF w[e] # <<>> /\ w[e][Len(w[e])] = Fin THEN w ELSE [w EXCEPT ![e] = Append(@, x)]
Hangup(w, ph, es) ==
    [e \in Ends |-> IF Far(e) \in es /\ ph[e] \notin {"none", "closed"} THEN Posted(w, e, Fin)[e]
                    ELSE w[e]]

------------------------------------------------------------------------------
(* Opening.                                                                 *)

(* The port does not answer, or not within 3 s. *)
ProbeFails(n, m) ==
    /\ <<n, m>> \in probing
    /\ probing' = probing \ {<<n, m>>}
    /\ UNCHANGED <<dial, phase, wire, avoided, dropping, failed, reconn, net, cuts>>

(* remove_one_connection: the possible victims, each as a set of ends to
   close; none when every connection is constant. *)
Victims(n) ==
    LET loose == {e \in Connections(phase, n) : ~Constant(e)}
    IN  IF loose = {} THEN {{}} ELSE {{e} : e \in loose}

(* connect_to_node_slot up to the call of connect_to_websocket. *)
MayConnect(n, m, victims) ==
    /\ victims \in IF m = First /\ Cardinality(Active(phase, n)) >= Limit[n] THEN Victims(n)
                   ELSE {{}}
    /\ m = First => victims # {} \/ Cardinality(Active(phase, n)) < Limit[n]
    /\ n \in UiClients /\ m # First => Cardinality(Connections(phase, n)) < Limit[n]
    /\ ~Avoided(n, m)

(* The port answers: connect_to_node_slot and connect_to_websocket. *)
ProbeOk(n, m) ==
    /\ <<n, m>> \in probing
    /\ probing' = probing \ {<<n, m>>}
    /\ \/ /\ ~ \E victims \in SUBSET Ends : MayConnect(n, m, victims)
          /\ UNCHANGED <<dial, phase, wire>>
       \/ \E s \in Sockets, victims \in SUBSET Ends :
             LET left == Closed(phase, victims)
                 same == {e \in Connections(left, n) : Peer(e) = m}
                 es   == victims \union same
             IN  /\ MayConnect(n, m, victims)
                 /\ dial[s][1] = None /\ \A i \in 1 .. s - 1 : dial[i][1] # None
                 /\ IF \E e \in same : left[e] = "active"
                    THEN /\ phase' = left
                         /\ wire' = Hangup(wire, phase, victims)
                         /\ UNCHANGED dial
                    ELSE /\ dial' = [dial EXCEPT ![s] = <<n, m>>]
                         /\ phase' = [Closed(phase, es) EXCEPT ![<<s, "out">>] = "opening"]
                         /\ wire' = Hangup(wire, phase, es)
    /\ UNCHANGED <<avoided, dropping, failed, reconn, net, cuts>>

(* onNewWsConnection: at the limit some connection makes room, whether or not
   the new one will ever be active; when none can the new one is kept. *)
Accept(s) ==
    LET e == <<s, "in">>
        n == dial[s][2]
    IN  /\ phase[<<s, "out">>] = "opening" /\ phase[e] = "none"
        /\ \E victims \in IF Cardinality(Active(phase, n)) >= Limit[n] THEN Victims(n) ELSE {{}} :
              /\ phase' = [Closed(phase, victims) EXCEPT ![e] = "open"]
              /\ wire' = Posted(Hangup(wire, phase, victims), Far(e), Key)
        /\ UNCHANGED <<dial, probing, avoided, dropping, failed, reconn, net, cuts>>

(* onConnected. *)
Connected(s) ==
    LET e == <<s, "out">>
    IN  /\ phase[e] = "opening" /\ phase[Far(e)] # "none"
        /\ phase' = [phase EXCEPT ![e] = "open"]
        /\ wire' = IF phase[Far(e)] = "closed" THEN wire ELSE Posted(wire, Far(e), Key)
        /\ UNCHANGED <<dial, probing, avoided, dropping, failed, reconn, net, cuts>>

(* 10 s without a connection, or an error of the socket. *)
ConnectTimeout(s) ==
    LET e == <<s, "out">>
    IN  /\ phase[e] = "opening"
        /\ phase' = [phase EXCEPT ![e] = "closed"]
        /\ wire' = Hangup(wire, phase, {e})
        /\ UNCHANGED <<dial, probing, avoided, dropping, failed, reconn, net, cuts>>

------------------------------------------------------------------------------
(* The handshake.                                                           *)

(* generate_first_message. *)
FirstMessage(e) ==
    LET n == Here(e)
    IN  [kind |-> "hello", net |-> net[n], available |-> Cardinality(Active(phase, n)) < Limit[n],
         peers |-> {Peer(d) : d \in Active(phase, n)} \ {Peer(e)}]

(* onTextMessage for the first text: the key of the peer, answered by the
   handshake unless the socket is gone. *)
ReceiveKey(e) ==
    /\ wire[e] # <<>> /\ Head(wire[e]) = Key /\ phase[e] \in {"open", "closed"}
    /\ phase' = [phase EXCEPT ![e] = IF @ = "open" THEN "keyed" ELSE @]
    /\ LET w == [wire EXCEPT ![e] = Tail(@)]
       IN  wire' = IF phase[e] = "closed" \/ phase[Far(e)] = "closed" THEN w
                   ELSE Posted(w, Far(e), FirstMessage(e))
    /\ UNCHANGED <<dial, probing, avoided, dropping, failed, reconn, net, cuts>>

(* The connections of the shared list that are asked for, when the services
   are at ph and f are the failed addresses. *)
Shared(n, peers, ph, f) ==
    LET wanted == {m \in peers : /\ <<n, m>> \notin f /\ m # n
                                 /\ \A e \in Connections(ph, n) : Peer(e) # m}
        busy   == Cardinality(Connections(ph, n)) + Cardinality({p \in probing : p[1] = n})
        free   == IF n \notin UiClients THEN Cardinality(wanted)
                  ELSE IF busy >= Limit[n] THEN 0 ELSE Limit[n] - busy
    IN  IF Cardinality(Active(ph, n)) >= Limit[n] /\ n # First THEN {{}}
        ELSE {t \in SUBSET wanted :
                 Cardinality(t) = IF free < Cardinality(wanted) THEN free ELSE Cardinality(wanted)}

AskFor(n, peers, ph, f) ==
    \E t \in Shared(n, peers, ph, f) : probing' = probing \union {<<n, m>> : m \in t}

(* Mutant: the older connection to the same peer stays. *)
DuplicatesNone(e) == {{}}

(* The connection to the same peer that check_first_message closes. *)
Duplicates(e) ==
    LET others == {d \in Active(phase, Here(e)) \ {e} : Peer(d) = Peer(e)}
    IN  IF others = {} THEN {{}} ELSE {{d} : d \in others}

Foreign(n, h) == net[n] # Zero /\ h.net # Zero /\ net[n] # h.net

Full(n, ph) == Cardinality(Active(ph, n)) >= Limit[n]

(* Mutant: a rejected handshake leaves the socket open. *)
RejectOpen(e, w, ph, dup) ==
    /\ phase' = Closed(ph, dup)
    /\ wire' = Hangup(w, ph, dup)

(* error: the service sends an Error text and closes; dup was closed before. *)
Reject(e, w, ph, dup) ==
    /\ phase' = Closed(ph, dup \union {e})
    /\ wire' = Hangup(w, ph, dup \union {e})

(* socket_error for the errors after which an address is given up. *)
GiveUp(n, m) ==
    /\ reconn' = reconn \ {<<n, m>>}
    /\ failed' = IF m = First THEN failed ELSE failed \union {<<n, m>>}

(* The connection is activated, and given up at once when the peer is kept
   away. *)
Activate(e, w, dup, h) ==
    LET n    == Here(e)
        m    == Peer(e)
        gone == IF Avoided(n, m) THEN dup \union {e} ELSE dup
        ph   == [Closed(phase, dup) EXCEPT ![e] = IF e \in gone THEN "closed" ELSE "active"]
    IN  /\ phase' = ph
        /\ wire' = Hangup(w, phase, gone)
        /\ reconn' = IF e \in gone \/ m = First THEN reconn ELSE reconn \union {<<n, m>>}
        /\ AskFor(n, h.peers, ph, failed)

(* check_first_message. *)
ReceiveHello(e) ==
    /\ wire[e] # <<>> /\ Head(wire[e]).kind = "hello" /\ phase[e] \in {"keyed", "closed"}
    /\ LET h == Head(wire[e])
           w == [wire EXCEPT ![e] = Tail(@)]
           n == Here(e)
           m == Peer(e)
       IN  /\ net' = IF net[n] = Zero THEN [net EXCEPT ![n] = h.net] ELSE net
           /\ \/ /\ Foreign(n, h)
                 /\ Reject(e, w, phase, {}) /\ GiveUp(n, m)
                 /\ UNCHANGED probing
              \/ \E dup \in Duplicates(e) :
                    LET ph == Closed(phase, dup)
                    IN  /\ ~Foreign(n, h)
                        /\ \/ /\ phase[e] = "closed"
                              /\ phase' = ph /\ wire' = Hangup(w, phase, dup)
                              /\ UNCHANGED <<probing, failed, reconn>>
                           \/ /\ phase[e] # "closed" /\ Full(n, ph)
                              /\ Reject(e, w, phase, dup)
                              /\ UNCHANGED <<probing, failed, reconn>>
                           \/ /\ phase[e] # "closed" /\ ~Full(n, ph) /\ ~h.available
                              /\ Reject(e, w, phase, dup) /\ GiveUp(n, m)
                              /\ AskFor(n, h.peers, Closed(ph, {e}), failed')
                           \/ /\ phase[e] # "closed" /\ ~Full(n, ph) /\ h.available
                              /\ Activate(e, w, dup, h)
                              /\ UNCHANGED failed
    /\ UNCHANGED <<dial, avoided, dropping, cuts>>

(* An Error text, a close or a broken connection: the texts that came before
   it may still be waiting. *)
Disconnected(e) ==
    /\ phase[e] \notin {"none", "closed"}
    /\ wire[e] # <<>> /\ wire[e][Len(wire[e])] = Fin
    /\ phase' = [phase EXCEPT ![e] = "closed"]
    /\ wire' = [wire EXCEPT ![e] = SubSeq(@, 1, Len(@) - 1)]
    /\ UNCHANGED <<dial, probing, avoided, dropping, failed, reconn, net, cuts>>

(* What had not arrived when a socket was closed is never read. *)
TooLate(e) ==
    /\ phase[e] = "closed" /\ wire[e] # <<>>
    /\ wire' = [wire EXCEPT ![e] = SubSeq(@, 1, Len(@) - 1)]
    /\ UNCHANGED <<dial, phase, probing, avoided, dropping, failed, reconn, net, cuts>>

------------------------------------------------------------------------------
(* Keeping away, reconnecting, failures.                                    *)

(* set_avoided_peers on any thread, here with ever longer lists; the links are
   dropped by a queued call. *)
SetAvoided(n, ms) ==
    /\ {<<n, m>> : m \in ms} \subseteq Avoiding
    /\ avoided' = {p \in avoided : p[1] # n} \union {<<n, m>> : m \in ms}
    /\ avoided \subseteq avoided' /\ avoided' # avoided
    /\ dropping' = dropping \union {n}
    /\ UNCHANGED <<dial, phase, wire, probing, failed, reconn, net, cuts>>

(* remove_connection for every peer that is kept away. *)
DropAvoided(n) ==
    LET es == {e \in Active(phase, n) : Avoided(n, Peer(e))}
    IN  /\ n \in dropping
        /\ dropping' = dropping \ {n}
        /\ phase' = Closed(phase, es)
        /\ wire' = Hangup(wire, phase, es)
        /\ UNCHANGED <<dial, probing, avoided, failed, reconn, net, cuts>>

(* connect_network, with one first node. *)
ConnectNetwork(n) == probing' = probing \union {<<n, First>>}

(* reconnection, of a client: the first node before any other address.  A
   connection to it that is not active after 30 s is given up. *)
Reconnection(n) ==
    LET toFirst == {e \in Connections(phase, n) : Peer(e) = First}
        due     == {p \in reconn : /\ p[1] = n /\ p \notin failed /\ ~Avoided(n, p[2])
                                   /\ \A e \in Connections(phase, n) : Peer(e) # p[2]}
    IN  /\ n \in UiClients
        /\ \/ \E es \in {{}} \union {{e} : e \in toFirst \ Active(phase, n)} :
                 /\ toFirst = {} \/ es # {}
                 /\ phase' = Closed(phase, es)
                 /\ wire' = Hangup(wire, phase, es)
                 /\ ConnectNetwork(n)
           \/ /\ toFirst # {}
              /\ \E ps \in SUBSET due : probing' = probing \union ps
              /\ UNCHANGED <<phase, wire>>
        /\ <<phase', probing'>> # <<phase, probing>>
        /\ UNCHANGED <<dial, avoided, dropping, failed, reconn, net, cuts>>

(* A connection breaks that is in use at an end at least; what was on its way
   is lost. *)
Cut(s) ==
    /\ cuts < MaxCuts /\ \E e \in Ends : e[1] = s /\ phase[e] = "active"
    /\ cuts' = cuts + 1
    /\ wire' = [e \in Ends |-> IF e[1] # s THEN wire[e]
                               ELSE IF phase[e] = "closed" THEN <<>> ELSE <<Fin>>]
    /\ UNCHANGED <<dial, phase, probing, avoided, dropping, failed, reconn, net>>

Next ==
    \/ \E n, m \in Nodes : ProbeFails(n, m) \/ ProbeOk(n, m)
    \/ \E s \in Sockets : Accept(s) \/ Connected(s) \/ ConnectTimeout(s) \/ Cut(s)
    \/ \E e \in Ends : ReceiveKey(e) \/ ReceiveHello(e) \/ Disconnected(e) \/ TooLate(e)
    \/ \E n \in Nodes : DropAvoided(n) \/ Reconnection(n) \/ \E ms \in SUBSET Nodes : SetAvoided(n, ms)

(* Event loops deliver what arrived; the timer of an opening socket fires. *)
Fairness ==
    /\ \A e \in Ends : WF_vars(ReceiveKey(e)) /\ WF_vars(ReceiveHello(e)) /\ WF_vars(Disconnected(e))
    /\ \A s \in Sockets : WF_vars(Connected(s) \/ ConnectTimeout(s))

Spec == Init /\ [][Next]_vars /\ Fairness

------------------------------------------------------------------------------

(* Whichever side dials and however the handshakes cross, a node has at most
   one active connection to a peer. *)
OneLinkPerPeer ==
    \A n \in Nodes : \A d, e \in Active(phase, n) : Peer(d) = Peer(e) => d = e

(* No connection stays half open: in the end it is active at both ends or
   closed at both. *)
LinkSettles ==
    \A s \in Sockets :
        dial[s][1] # None ~>
            \/ phase[<<s, "out">>] = "active" /\ phase[<<s, "in">>] = "active"
            \/ phase[<<s, "out">>] = "closed" /\ phase[<<s, "in">>] \in {"closed", "none"}
=============================================================================
