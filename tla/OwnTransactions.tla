-------------------------- MODULE OwnTransactions --------------------------
(***************************************************************************)
(* What a node does with its own transactions: tokens it creates           *)
(* (TokenManager), subscriptions it pays for (ExtraChainNode) and what it  *)
(* stores once they are in a section.  The caller's thread sends a         *)
(* transaction and then notes what it is for; results come on another      *)
(* thread, from several servers, late, repeated and contradictory.  Other  *)
(* devices of the same user send transactions of the same actors.          *)
(***************************************************************************)
EXTENDS Integers, Sequences, FiniteSets

CONSTANTS
  System, \* the system actor of the user
  Wallet, \* another actor of the user
  Nobody, \* an actor of someone else
  Links,  \* vectors that list subscriptions
  MaxTxs  \* bound: transactions

(* What the constants must satisfy.                                       *)
OwnTransactionsAssumption ==
  Cardinality({System, Wallet, Nobody}) = 3 /\ "none" \notin Links /\ MaxTxs \in Nat

VARIABLES
  own,     \* the actors of the profile; the service of transaction i is <<"service", i>>
  txs,     \* the transactions made, the user's other devices included
  sended,  \* sended_transactions_
  failed,  \* failed_transactions_
  created, \* cache_creation_
  pending, \* subscription_row_, as the vector it is for
  caller,  \* what the calling thread still has to note
  saved,   \* transactions saved in sections of this node
  descriptions, \* transactions named by stored descriptions of tokens
  rows     \* rows of subscriptions: the vector and the transaction named

vars == <<own, txs, sended, failed, created, pending, caller, saved, descriptions, rows>>

Service(i) == <<"service", i>>
Tx == [type : {"Regular", "InitContract", "Repeatable"},
       from : {System, Wallet, Nobody},
       to   : {<<"actor", a>> : a \in {System, Wallet, Nobody}}
              \cup {Service(i) : i \in 1..MaxTxs},
       here : BOOLEAN]
Idle == [do |-> "idle", tx |-> 0, link |-> "none"]

TypeOK ==
  /\ own \subseteq {Service(i) : i \in 1..MaxTxs}
  /\ Len(txs) <= MaxTxs /\ \A i \in DOMAIN txs : txs[i] \in Tx
  /\ sended \cup failed \cup created \cup saved \cup descriptions \subseteq DOMAIN txs
  /\ pending \in Links \cup {"none"}
  /\ caller \in [do : {"idle", "token", "subscription"}, tx : 0..MaxTxs, link : Links \cup {"none"}]
  /\ rows \subseteq Links \X DOMAIN txs

-----------------------------------------------------------------------------
(* Sending.                                                                *)

(* Dag::send_transaction: entered in sended_transactions_, then broadcast. *)
Send(t) ==
  /\ Len(txs) < MaxTxs
  /\ txs' = Append(txs, t) /\ sended' = sended \cup {Len(txs) + 1}

NewTx(type, from, to) == [type |-> type, from |-> from, to |-> to, here |-> TRUE]

(* A payment that an application makes.                                    *)
Pay(from, to) ==
  /\ Send(NewTx("Regular", from, <<"actor", to>>))
  /\ UNCHANGED <<own, failed, created, pending, caller, saved, descriptions, rows>>

(* create_token makes the service actor of the token before it looks for   *)
(* the keys of the owner.                                                  *)
CreateToken(owner) ==
  LET i == Len(txs) + 1
  IN /\ caller = Idle /\ i <= MaxTxs
     /\ own' = own \cup {Service(i)}
     /\ IF owner \in {System, Wallet}
        THEN /\ Send(NewTx("InitContract", owner, Service(i)))
             /\ caller' = [do |-> "token", tx |-> i, link |-> "none"]
        ELSE UNCHANGED <<txs, sended, caller>>
     /\ UNCHANGED <<failed, created, pending, saved, descriptions, rows>>

(* ... and notes the token when the transaction is sent.                   *)
NoteToken ==
  /\ caller.do = "token"
  /\ created' = created \cup {caller.tx} /\ caller' = Idle
  /\ UNCHANGED <<own, txs, sended, failed, pending, saved, descriptions, rows>>

AddSubscription(l, to) ==
  /\ caller = Idle /\ pending = "none"
  /\ Send(NewTx("Repeatable", System, <<"actor", to>>))
  /\ caller' = [do |-> "subscription", tx |-> Len(txs) + 1, link |-> l]
  /\ UNCHANGED <<own, failed, created, pending, saved, descriptions, rows>>

NoteSubscription ==
  /\ caller.do = "subscription"
  /\ pending' = caller.link /\ caller' = Idle
  /\ UNCHANGED <<own, txs, sended, failed, created, saved, descriptions, rows>>

-----------------------------------------------------------------------------
(* Results.                                                                *)

(* final_token_creation: the folder of contracts holds one file of that    *)
(* name, so an owner's second token is refused.                            *)
FinalToken(i) ==
  IF i \in created /\ \A j \in descriptions : txs[j].from # txs[i].from
  THEN descriptions \cup {i} ELSE descriptions

(* selfTxRepeatableAdded: the pending row names the transaction, whichever *)
(* device sent it; the row may be refused by the vector.                   *)
SubscriptionRows(i) ==
  IF pending = "none" \/ txs[i].from # System THEN {rows} ELSE {rows, rows \cup {<<pending, i>>}}

Mine(i) == txs[i].from \in {System, Wallet}
           \/ txs[i].to \in own \cup {<<"actor", System>>, <<"actor", Wallet>>}

(* check_self runs once for each own actor on either side of the           *)
(* transaction; what it stores the second time is there already.           *)
CheckSelf(i) ==
  /\ descriptions' = IF Mine(i) /\ txs[i].type = "InitContract" THEN FinalToken(i)
                     ELSE descriptions
  /\ rows' \in IF Mine(i) /\ txs[i].type = "Repeatable" THEN SubscriptionRows(i) ELSE {rows}

(* save_transaction, which may fail to write the section.                  *)
Save(i, written) == saved' = IF written THEN saved \cup {i} ELSE saved

Rejected(i) ==
  /\ sended' = sended \ {i} /\ failed' = failed \cup {i}
  /\ UNCHANGED <<saved, descriptions, rows>>

(* Mutant of Approved: what is to be stored is stored when the section     *)
(* could not be written, too.                                              *)
ApprovedUnsaved(i, written) ==
  /\ sended' = sended \ {i} /\ UNCHANGED failed
  /\ Save(i, written)
  /\ CheckSelf(i)

Approved(i, written) ==
  /\ sended' = sended \ {i} /\ UNCHANGED failed
  /\ Save(i, written)
  /\ IF written THEN CheckSelf(i) ELSE UNCHANGED <<descriptions, rows>>

(* network_transaction_result: every server that proves the transaction    *)
(* broadcasts a result; the first one to arrive decides.                   *)
NetworkResult(i, ok, written) ==
  /\ i \in sended
  /\ IF ok THEN Approved(i, written) ELSE Rejected(i)
  /\ UNCHANGED <<own, txs, created, pending, caller>>

(* network_transaction: a transaction that another device of the user sent *)
(* is proved here, saved, and looked at like an own one.                   *)
NetworkTransaction(t, written) ==
  /\ Len(txs) < MaxTxs /\ caller = Idle
  /\ txs' = Append(txs, t)
  /\ Save(Len(txs) + 1, written)
  /\ rows' \in IF written /\ t.type = "Repeatable" /\ t.from = System /\ pending # "none"
               THEN {rows, rows \cup {<<pending, Len(txs) + 1>>}} ELSE {rows}
  /\ UNCHANGED <<own, sended, failed, created, pending, caller, descriptions>>

-----------------------------------------------------------------------------
Init ==
  /\ own = {} /\ txs = <<>> /\ sended = {} /\ failed = {} /\ created = {}
  /\ pending = "none" /\ caller = Idle /\ saved = {}
  /\ descriptions = {} /\ rows = {}

Next ==
  \/ Pay(Wallet, Nobody)
  \/ \E owner \in {System, Wallet, Nobody} : CreateToken(owner)
  \/ \E l \in Links : AddSubscription(l, Nobody)
  \/ NoteToken \/ NoteSubscription
  \/ \E i \in sended, ok, written \in BOOLEAN : NetworkResult(i, ok, written)
  \/ \E type \in {"Regular", "Repeatable"}, written \in BOOLEAN :
       NetworkTransaction([NewTx(type, System, <<"actor", Nobody>>) EXCEPT !.here = FALSE], written)

Spec == Init /\ [][Next]_vars

-----------------------------------------------------------------------------
(* A description of a token or a row of a subscription is stored only for  *)
(* a transaction that is in a section here and was not reported as failed, *)
(* of the right type and by an actor of the user, whatever the order of    *)
(* sending, noting, results and transactions of other devices.             *)
ResultsTrue ==
  /\ \A i \in descriptions :
       i \in saved \ failed /\ txs[i].type = "InitContract" /\ txs[i].here
  /\ \A r \in rows :
       r[2] \in saved \ failed /\ txs[r[2]].type = "Repeatable" /\ txs[r[2]].from = System
=============================================================================
