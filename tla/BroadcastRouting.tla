-------------------------- MODULE BroadcastRouting --------------------------
(***************************************************************************)
(* How NetworkManager spreads a message over nodes that only see their own *)
(* connections: ignore lists against copies, messages_ against duplicates, *)
(* forwarded_messages_ for the way back of an answer, and the expiry of    *)
(* both tables.  A frame is prepared and dispatched in one step, one after *)
(* another: that is what NetworkReceiveQueue implements.                   *)
(*                                                                         *)
(* Kinds of messages, by what dispatch_received does with them:            *)
(*   Row         DfsStoreFile, DfsFileRemove, DfsVectorCreation,           *)
(*               DfsVectorAdd: handled, then passed on                     *)
(*   Transaction DagTransaction: the same, but a node's own is not ignored *)
(*   Actor       NewActor: passed on when this node did not have the actor *)
(*   Custom      Custom: an app takes it, every other node passes it on    *)
(*   Change      DfsCollectionRowChange: sent again to all but the sender  *)
(* Message ids are distinct and every node has its own system actor.       *)
(***************************************************************************)
EXTENDS Naturals, Sequences, FiniteSets

CONSTANTS
    Nodes,
    Links,      \* sets of two nodes
    LightLinks, \* links whose sockets are SocketMode::Light: focused messages only
    Apps,       \* nodes with is_custom_app_
    Ids,        \* message ids
    Messages,   \* bound: possible [kind, origin] of the ids, functions on Ids
    MaxBreaks,  \* bound: links that break
    MaxExpired, \* bound: table entries that expire
    None

RoutingAssumption ==
    /\ Links \subseteq {{a, b} : a \in Nodes, b \in Nodes}
    /\ \A n \in Nodes : {n} \notin Links  \* check_first_message, IncompatibleIdentifier
    /\ LightLinks \subseteq Links /\ Apps \subseteq Nodes
    /\ None \notin Nodes
    /\ MaxBreaks \in Nat /\ MaxExpired \in Nat

Kinds == {"Row", "Transaction", "Actor", "Custom", "Change"}

MessagesAssumption ==
    Messages \subseteq [Ids -> [kind : Kinds, origin : Nodes]]

Hops == {p \in Nodes \X Nodes : {p[1], p[2]} \in Links}

VARIABLES
    what,       \* what[id]: the kind and the origin of a message
    up,         \* links with an active socket at both ends
    chan,       \* chan[<<a, b>>]: frames on their way
    seen,       \* seen[n][id]: messages_, the peer an id first came from
    fwd,        \* fwd[n][id]: forwarded_messages_, the peer it was passed on for
    actor,      \* nodes that have stored the actor of the Actor messages
    sent,       \* ids that were sent
    handled,    \* handled[n][id]: how often n dispatched the request
    answered,   \* <<n, id>>: the app n has answered id
    replies,    \* replies[n][id]: how often n dispatched an answer to id
    expired,    \* <<n, id>> whose entries have expired
    breaks

vars == <<what, up, chan, seen, fwd, actor, sent, handled, answered, replies, expired, breaks>>

Frame == [id : Ids, status : {"NoStatus", "Response"}, mode : {"Broadcast", "Except", "Focused"},
          init : Nodes, ignore : SUBSET Nodes, later : SUBSET Nodes]

TypeOK ==
    /\ what \in Messages
    /\ up \subseteq Links
    /\ \A p \in Hops : chan[p] \in Seq(Frame)
    /\ seen \in [Nodes -> [Ids -> Nodes \union {None}]]
    /\ fwd \in [Nodes -> [Ids -> Nodes \union {None}]]
    /\ actor \subseteq Nodes
    /\ sent \subseteq Ids
    /\ handled \in [Nodes -> [Ids -> Nat]]
    /\ answered \subseteq Nodes \X Ids
    /\ replies \in [Nodes -> [Ids -> Nat]]
    /\ expired \subseteq Nodes \X Ids
    /\ breaks \in 0 .. MaxBreaks

Init ==
    /\ what \in Messages
    /\ up = Links
    /\ chan = [p \in Hops |-> <<>>]
    /\ seen = [n \in Nodes |-> [id \in Ids |-> None]]
    /\ fwd = [n \in Nodes |-> [id \in Ids |-> None]]
    /\ actor = {}
    /\ sent = {}
    /\ handled = [n \in Nodes |-> [id \in Ids |-> 0]]
    /\ answered = {}
    /\ replies = [n \in Nodes |-> [id \in Ids |-> 0]]
    /\ expired = {}
    /\ breaks = 0

Peers(n) == {m \in Nodes : {n, m} \in up}

(* Mutant: the own peers are ignored at once, not by the next hop. *)
AddServicesNow(n, f) ==
    [f EXCEPT !.ignore = @ \union f.later \union {n} \union Peers(n), !.later = {}]

(* add_all_services_identifiers_to_message: who the frame reaches from here is
   for the next hop to leave out. *)
AddServices(n, f) ==
    [f EXCEPT !.ignore = @ \union f.later, !.later = {n} \union Peers(n)]

(* is_send_check and the loop over the connections in send_message_connections. *)
Receivers(n, f, peer) ==
    {m \in Peers(n) :
        /\ {n, m} \notin LightLinks \/ f.mode = "Focused"
        /\ CASE f.mode = "Broadcast" -> m \notin f.ignore
             [] f.mode = "Except"    -> m # peer
             [] f.mode = "Focused"   -> m = peer}

(* The channels c after n sends f. *)
Sending(c, n, f, peer) ==
    [p \in Hops |-> IF p[1] = n /\ p[2] \in Receivers(n, f, peer) THEN Append(c[p], f)
                     ELSE c[p]]

(* send_message_send for a new message. *)
Send(id) ==
    LET n == what[id].origin
        f == [id |-> id, status |-> "NoStatus", init |-> n, ignore |-> {}, later |-> {},
              mode |-> IF what[id].kind = "Change" THEN "Except" ELSE "Broadcast"]
    IN  /\ id \notin sent
        /\ sent' = sent \union {id}
        /\ actor' = IF what[id].kind = "Actor" THEN actor \union {n} ELSE actor
        /\ chan' = Sending(chan, n, IF f.mode = "Broadcast" THEN AddServices(n, f) ELSE f, None)
        /\ UNCHANGED <<what, up, seen, fwd, handled, answered, replies, expired, breaks>>

------------------------------------------------------------------------------
(* A frame arrives at n from m; c are the channels without it.              *)

(* Mutant: the table of ids is filled and not read. *)
IgnoredUnseen(n, f) ==
    what[f.id].kind \notin {"Transaction", "Actor"} /\ f.init = n

(* prepare_received: the id is known, or the message is this node's own. *)
Ignored(n, f) ==
    \/ seen[n][f.id] # None
    \/ what[f.id].kind \notin {"Transaction", "Actor"} /\ f.init = n

(* Mutant: the record names this node. *)
FurtherForItself(c, n, m, f) ==
    IF fwd[n][f.id] # None THEN chan' = c /\ UNCHANGED fwd
    ELSE /\ chan' = Sending(c, n, AddServices(n, [f EXCEPT !.ignore = @ \union {m}]), None)
         /\ fwd' = [fwd EXCEPT ![n][f.id] = n]

(* send_broadcast_message_further: channels and forwarded_messages_. *)
Further(c, n, m, f) ==
    IF fwd[n][f.id] # None THEN chan' = c /\ UNCHANGED fwd
    ELSE /\ chan' = Sending(c, n, AddServices(n, [f EXCEPT !.ignore = @ \union {m}]), None)
         /\ fwd' = [fwd EXCEPT ![n][f.id] = m]

(* network_change_collection: the answer of a responder is a message of this
   node with the id it answers. *)
Resent(c, n, m, f) == Sending(c, n, [f EXCEPT !.init = n], m)

(* dispatch_received: which messages this node passes on. *)
PassesOn(n, id) ==
    CASE what[id].kind = "Actor"  -> n \notin actor
      [] what[id].kind = "Custom" -> n \notin Apps
      [] OTHER                    -> TRUE

DispatchRequest(c, n, m, f) ==
    /\ seen' = [seen EXCEPT ![n][f.id] = m]
    /\ handled' = [handled EXCEPT ![n][f.id] = @ + 1]
    /\ actor' = IF what[f.id].kind = "Actor" THEN actor \union {n} ELSE actor
    /\ IF what[f.id].kind = "Change"
       THEN chan' = Resent(c, n, m, f) /\ UNCHANGED fwd
       ELSE IF PassesOn(n, f.id) THEN Further(c, n, m, f)
       ELSE chan' = c /\ UNCHANGED fwd
    /\ UNCHANGED replies

(* An answer to a message this node passed on goes back the same way, any
   other answer is for this node. *)
PrepareResponse(c, n, f) ==
    /\ IF fwd[n][f.id] # None
       THEN chan' = Sending(c, n, f, fwd[n][f.id]) /\ UNCHANGED replies
       ELSE chan' = c /\ replies' = [replies EXCEPT ![n][f.id] = @ + 1]
    /\ UNCHANGED <<seen, fwd, actor, handled>>

Receive(m, n) ==
    /\ <<m, n>> \in Hops /\ chan[<<m, n>>] # <<>>
    /\ LET f == Head(chan[<<m, n>>])
           c == [chan EXCEPT ![<<m, n>>] = Tail(@)]
       IN  \/ /\ f.status = "NoStatus" /\ Ignored(n, f)
              /\ chan' = c
              /\ UNCHANGED <<seen, fwd, actor, handled, replies>>
           \/ /\ f.status = "NoStatus" /\ ~Ignored(n, f)
              /\ DispatchRequest(c, n, m, f)
           \/ /\ f.status = "Response"
              /\ PrepareResponse(c, n, f)
    /\ UNCHANGED <<what, up, sent, answered, expired, breaks>>

(* An app answers a Custom message: Responder::send_response, to the peer
   the message came from. *)
Answer(n, id) ==
    /\ n \in Apps /\ what[id].kind = "Custom"
    /\ handled[n][id] > 0 /\ <<n, id>> \notin answered
    /\ answered' = answered \union {<<n, id>>}
    /\ chan' = IF seen[n][id] = None THEN chan
               ELSE Sending(chan, n, [id |-> id, status |-> "Response", mode |-> "Focused",
                                      init |-> n, ignore |-> {}, later |-> {}], seen[n][id])
    /\ UNCHANGED <<what, up, seen, fwd, actor, sent, handled, replies, expired, breaks>>

(* clear_network_caches after 120 s.  No frame of the message is that long on
   its way; an answer of an app may be. *)
Expire(n, id) ==
    /\ Cardinality(expired) < MaxExpired
    /\ \A p \in Hops : \A i \in DOMAIN chan[p] :
          chan[p][i].id = id => chan[p][i].status = "Response"
    /\ seen[n][id] # None \/ fwd[n][id] # None
    /\ seen' = [seen EXCEPT ![n][id] = None]
    /\ fwd' = [fwd EXCEPT ![n][id] = None]
    /\ expired' = expired \union {<<n, id>>}
    /\ UNCHANGED <<what, up, chan, actor, sent, handled, answered, replies, breaks>>

Break(l) ==
    /\ l \in up /\ breaks < MaxBreaks
    /\ up' = up \ {l}
    /\ breaks' = breaks + 1
    /\ chan' = [p \in Hops |-> IF {p[1], p[2]} = l THEN <<>> ELSE chan[p]]
    /\ UNCHANGED <<what, seen, fwd, actor, sent, handled, answered, replies, expired>>

Next ==
    \/ \E id \in Ids : Send(id)
    \/ \E m, n \in Nodes : Receive(m, n)
    \/ \E n \in Nodes, id \in Ids : Answer(n, id) \/ Expire(n, id)
    \/ \E l \in Links : Break(l)

(* Event loops take every frame that arrived. *)
Fairness == \A m, n \in Nodes : WF_vars(Receive(m, n))

Spec == Init /\ [][Next]_vars /\ Fairness

------------------------------------------------------------------------------

(* However the copies of a message cross and whichever links break, no node
   handles it twice, and nobody handles its own broadcast. *)
HandledOnce ==
    \A n \in Nodes, id \in Ids :
        /\ handled[n][id] <= 1
        /\ what[id].origin = n /\ what[id].kind # "Change" => handled[n][id] = 0

(* While the links are stable a message reaches every node without Light links,
   although the ignore lists keep it off most of the links: rows,
   transactions and changes are handled there, the actor is stored there. *)
ReachesAll ==
    ([](breaks = 0)) =>
        \A id \in Ids : \A n \in Nodes \ UNION LightLinks :
            id \in sent /\ what[id].kind # "Custom" /\ n # what[id].origin
                ~> IF what[id].kind = "Actor" THEN n \in actor ELSE handled[n][id] > 0

(* While links are stable and nothing expires every answer returns. *)
AnswerReturns ==
    ([](breaks = 0 /\ expired = {})) =>
        \A n \in Nodes, id \in Ids :
            <<n, id>> \in answered ~> replies[what[id].origin][id] > 0
=============================================================================
