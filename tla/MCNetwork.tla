------------------------------ MODULE MCNetwork ------------------------------
(* Instances for TLC of three parts of the network that share no state: the *)
(* actors that nodes exchange, the messages they pass on and the            *)
(* connections between them.  A run lets one part move; the others stay as  *)
(* they start.                                                              *)
EXTENDS ActorSync

CONSTANTS
  None,
  Links, LightLinks, Apps, Ids, Sendings, Trial, MaxBreaks, MaxExpired,
  FirstNode, UiClients, Limit, NetworkIds, Zero, InitialIds, Sockets, Dials, Avoiding, MaxCuts,
  n1, n2, n3, n4, n5

VARIABLES
  what, up, frames, seen, fwd, actor, sent, handled, answered, replies, expired, breaks,
  dial, phase, wire, probing, avoided, dropping, unreached, reconn, netOf, cuts

routingVars == <<what, up, frames, seen, fwd, actor, sent, handled, answered, replies, expired,
                 breaks>>
linkVars    == <<dial, phase, wire, probing, avoided, dropping, unreached, reconn, netOf, cuts>>

R == INSTANCE BroadcastRouting WITH Messages <- Sendings, chan <- frames
L == INSTANCE SocketLink WITH First <- FirstNode, failed <- unreached, net <- netOf

ASSUME NetworkAssumption ==
  R!RoutingAssumption /\ R!MessagesAssumption /\ L!LinkAssumption

NetworkInit == Init /\ R!Init /\ L!Init

ActorsNext  == Next /\ UNCHANGED <<routingVars, linkVars>>
RoutingNext == R!Next /\ UNCHANGED <<vars, linkVars>>
LinksNext   == L!Next /\ UNCHANGED <<vars, routingVars>>

ActorsSpec  == NetworkInit /\ [][ActorsNext]_<<vars, routingVars, linkVars>> /\ Fairness
RoutingSpec == NetworkInit /\ [][RoutingNext]_<<vars, routingVars, linkVars>> /\ R!Fairness
LinksSpec   == NetworkInit /\ [][LinksNext]_<<vars, routingVars, linkVars>> /\ L!Fairness

------------------------------------------------------------------------------
(* Actors: two nodes, one with two actors; 3 is still to be created, and    *)
(* nobody but its owner can store 2.                                        *)

Both   == {Nodes}
Holds  == [n \in Nodes |-> IF n = n2 THEN Actors \ {3} ELSE {}]
Halves == [a \in Actors |-> a % 2]

(* Routing: a ring of four nodes, one of them an app, and a node with Light *)
(* links to two of them; a message of any kind from n1, and an actor that   *)
(* n3 announces.                                                            *)

ToLight == {{n5, n1}, {n5, n3}}
Ring    == {{n1, n2}, {n2, n3}, {n3, n4}, {n4, n1}} \union ToLight
Pair    == {[i \in Ids |-> IF i = 1 THEN [kind |-> k, origin |-> n1]
                           ELSE [kind |-> "Actor", origin |-> n3]] : k \in Trial}
Silence == {[i \in Ids |-> [kind |-> "Actor", origin |-> n1]]}

(* Connections: the first node, a client (n3) with room for one and another *)
(* node, in the same network or not.                                        *)

Rooms   == [n \in Nodes |-> IF n = n3 THEN 1 ELSE 2]
OneNet  == {[n \in Nodes |-> 1]}
TwoNets == {[n \in Nodes |-> IF n = n2 THEN i ELSE 1] : i \in {Zero, 2}}
Asked   == {<<n3, n1>>, <<n3, n2>>, <<n2, n3>>}
Kept    == {<<n3, n2>>}

------------------------------------------------------------------------------

(* However copies cross and links break, no node handles a message twice, and
   nobody handles its own broadcast. *)
HandledOnce == R!HandledOnce

(* While the links are stable a message reaches every node without Light links. *)
ReachesAll == R!ReachesAll

(* While links are stable and nothing expires every answer returns. *)
AnswerReturns == R!AnswerReturns

(* Whichever side dials and however the handshakes cross, a node has at most
   one active connection to a peer. *)
OneLinkPerPeer == L!OneLinkPerPeer

(* In the end a connection is active at both ends or closed at both. *)
LinkSettles == L!LinkSettles
=============================================================================
