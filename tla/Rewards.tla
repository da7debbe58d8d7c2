------------------------------ MODULE Rewards ------------------------------
(***************************************************************************)
(* Rewards for running a node (DataMiningManager): a timer of a mining     *)
(* node asks for one, the nodes that hear of it limit how often each node  *)
(* of an actor is served and how many nodes an actor may have.             *)
(***************************************************************************)
EXTENDS Integers, Sequences, FiniteSets

CONSTANTS
  Identifiers, \* the identifiers of an actor's nodes
  Cooldown,    \* least time between rewards of one node (50 s)
  Forget,      \* a reward older than this gives its place away (90 s)
  Limit,       \* nodes of one actor that are served (5)
  MaxTime      \* bound: the clock

(* What the constants must satisfy.                                       *)
RewardsAssumption ==
  /\ Cooldown \in Nat \ {0} /\ Forget \in Nat /\ Cooldown <= Forget
  /\ Limit \in Nat \ {0} /\ MaxTime \in Nat

VARIABLES
  mining,   \* nodes whose timer runs
  requests, \* nodes with a request on its way, which may arrive late, again or never
  last,     \* last_reward_ of the actor: the time of each identifier's reward
  clock,
  accepted  \* the rewards accepted: <<identifier, time>>            (history)

vars == <<mining, requests, last, clock, accepted>>

TypeOK ==
  /\ mining \subseteq Identifiers
  /\ requests \subseteq Identifiers
  /\ DOMAIN last \subseteq Identifiers /\ \A n \in DOMAIN last : last[n] \in 0..MaxTime
  /\ clock \in 0..MaxTime /\ accepted \subseteq Identifiers \X (0..MaxTime)

-----------------------------------------------------------------------------
(* The mining node.                                                        *)

StartMining(n) ==
  /\ n \notin mining /\ mining' = mining \cup {n}
  /\ UNCHANGED <<requests, last, clock, accepted>>

StopMining(n) ==
  /\ n \in mining /\ mining' = mining \ {n}
  /\ UNCHANGED <<requests, last, clock, accepted>>

(* The amount asked for is cut to the largest one, so that of the amounts  *)
(* only those of other senders can be refused.  The transaction goes from  *)
(* the system actor to itself.  Without an account or a Ready chain the    *)
(* timer asks for nothing.                                                 *)
RequestReward(n) ==
  /\ n \in mining
  /\ requests' = requests \cup {n}
  /\ UNCHANGED <<mining, last, clock, accepted>>

-----------------------------------------------------------------------------
(* The node that hears of it.                                              *)

(* Mutant of Remembered: who has waited for the cooldown gives its place   *)
(* away.                                                                   *)
RememberedCooldown == {n \in DOMAIN last : clock - last[n] <= Cooldown}

(* What is left when a place is needed.                                    *)
Remembered == {n \in DOMAIN last : clock - last[n] <= Forget}

(* The places kept when n asks.                                            *)
Places(n) ==
  IF n \in DOMAIN last \/ Cardinality(DOMAIN last) < Limit THEN DOMAIN last ELSE Remembered

Served(n) ==
  IF n \in DOMAIN last THEN clock - last[n] >= Cooldown
  ELSE Cardinality(Places(n)) < Limit

Kept(s) == [m \in s |-> last[m]]

(* network_request_coin_reward: a refused node may have made others lose   *)
(* their places.  The ledger may refuse the transaction; when it only lags *)
(* behind, the reward counts and is passed on.                             *)
NetworkRequestCoinReward(n, valid) ==
  /\ n \in requests
  /\ IF Served(n) /\ valid
     THEN /\ last' = [m \in Places(n) \cup {n} |-> IF m = n THEN clock ELSE last[m]]
          /\ accepted' = accepted \cup {<<n, clock>>}
     ELSE last' = Kept(Places(n)) /\ UNCHANGED accepted
  /\ UNCHANGED <<mining, requests, clock>>

Tick ==
  /\ clock < MaxTime /\ clock' = clock + 1
  /\ UNCHANGED <<mining, requests, last, accepted>>

(* A restart of the node that serves, which forgets last_reward_, is left  *)
(* out.                                                                    *)
Init ==
  /\ mining = {} /\ requests = {} /\ last = <<>> /\ clock = 0 /\ accepted = {}

Next ==
  \/ \E n \in Identifiers :
       \/ StartMining(n) \/ StopMining(n) \/ RequestReward(n)
       \/ \E valid \in BOOLEAN : NetworkRequestCoinReward(n, valid)
  \/ Tick

Spec == Init /\ [][Next]_vars

-----------------------------------------------------------------------------
(* The nodes served from time t on, while a place is kept.                 *)
ServedFrom(t) == {a[1] : a \in {b \in accepted : b[2] \in t..(t + Forget)}}

(* Two rewards of one node are a cooldown apart, and within the time that  *)
(* a place is kept at most Limit nodes of an actor are served, whatever    *)
(* nodes take turns and whoever was refused in between.                    *)
RewardsSpaced ==
  /\ \A a, b \in accepted : a[1] = b[1] /\ a[2] < b[2] => b[2] - a[2] >= Cooldown
  /\ \A t \in 0..clock : Cardinality(ServedFrom(t)) <= Limit
=============================================================================
