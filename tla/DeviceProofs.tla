----------------------------- MODULE DeviceProofs -----------------------------
(***************************************************************************)
(* Proofs about the parts of a device, for every value of their constants. *)
(* Each part is proved from its own steps: the others leave its variables  *)
(* as they are.                                                            *)
(***************************************************************************)
EXTENDS MCDevice, FiniteSetTheorems, SequenceTheorems, WellFoundedInduction, TLAPS

------------------------------------------------------------------------------
(* Own transactions.  A transaction is decided once: what is still to be   *)
(* decided has neither failed nor a description nor a row.                 *)

Undecided ==
  /\ sended \cap failed = {}
  /\ sended \cap descriptions = {}
  /\ \A r \in rows : r[2] \notin sended

Numbered ==
  /\ txs \in Seq(OT!Tx)
  /\ sended \cup failed \cup saved \cup descriptions \subseteq DOMAIN txs
  /\ \A i \in sended : txs[i].here

TransactionsInv == Numbered /\ Undecided /\ ResultsTrue

LEMMA InitTransactions == OT!Init => TransactionsInv
BY DEF OT!Init, TransactionsInv, Numbered, Undecided, ResultsTrue, OT!ResultsTrue

(* A new transaction changes nothing about the others. *)
LEMMA NewTransaction ==
  ASSUME TransactionsInv, NEW t \in OT!Tx, txs' = Append(txs, t),
         UNCHANGED <<failed, descriptions>>,
         \/ sended' = sended \cup {Len(txs) + 1} /\ t.here /\ UNCHANGED <<saved, rows>>
         \/ /\ UNCHANGED sended
            /\ saved' \in {saved, saved \cup {Len(txs) + 1}}
            /\ \/ UNCHANGED rows
               \/ /\ t.type = "Repeatable" /\ t.from = System /\ Len(txs) + 1 \in saved'
                  /\ \E l : rows' = rows \cup {<<l, Len(txs) + 1>>}
  PROVE  TransactionsInv'
<1> DEFINE n == Len(txs) + 1
<1>1. /\ txs \in Seq(OT!Tx) /\ Len(txs) \in Nat /\ DOMAIN txs = 1..Len(txs)
      /\ sended \cup failed \cup saved \cup descriptions \subseteq DOMAIN txs
      /\ \A i \in sended : txs[i].here
  BY DEF TransactionsInv, Numbered
<1>2. /\ txs' \in Seq(OT!Tx) /\ DOMAIN txs' = DOMAIN txs \cup {n} /\ n \notin DOMAIN txs
      /\ \A i \in DOMAIN txs : txs'[i] = txs[i]
      /\ txs'[n] = t
  BY <1>1
<1> HIDE DEF n
<1>3. /\ sended \cap failed = {} /\ sended \cap descriptions = {}
      /\ \A r \in rows : r[2] \notin sended /\ r[2] \in saved \ failed
      /\ \A i \in descriptions : i \in saved \ failed /\ txs[i].type = "InitContract" /\ txs[i].here
      /\ \A r \in rows : txs[r[2]].type = "Repeatable" /\ txs[r[2]].from = System
  BY DEF TransactionsInv, Undecided, ResultsTrue, OT!ResultsTrue
<1>4. CASE sended' = sended \cup {n} /\ t.here /\ UNCHANGED <<saved, rows>>
  BY <1>1, <1>2, <1>3, <1>4 DEF TransactionsInv, Numbered, Undecided, ResultsTrue, OT!ResultsTrue
<1>5. CASE UNCHANGED <<sended, rows>> /\ saved' \in {saved, saved \cup {n}}
  BY <1>1, <1>2, <1>3, <1>5 DEF TransactionsInv, Numbered, Undecided, ResultsTrue, OT!ResultsTrue
<1>6. ASSUME UNCHANGED sended, saved' \in {saved, saved \cup {n}},
             t.type = "Repeatable", t.from = System, n \in saved',
             NEW l, rows' = rows \cup {<<l, n>>}
      PROVE  TransactionsInv'
  <2>1. \A r \in rows' : r \in rows \/ r[2] = n
    BY <1>6
  <2>2. n \notin failed /\ n \notin sended
    BY <1>1, <1>2
  <2> QED
    BY <1>1, <1>2, <1>3, <1>6, <2>1, <2>2
       DEF TransactionsInv, Numbered, Undecided, ResultsTrue, OT!ResultsTrue
<1> QED BY <1>4, <1>5, <1>6 DEF n

(* A result decides one transaction. *)
LEMMA OneResult ==
  ASSUME TransactionsInv, NEW i \in sended, NEW ok \in BOOLEAN, NEW kept \in BOOLEAN,
         OT!NetworkResult(i, ok, kept)
  PROVE  TransactionsInv'
<1>1. /\ txs \in Seq(OT!Tx)
      /\ sended \cup failed \cup saved \cup descriptions \subseteq DOMAIN txs
      /\ \A j \in sended : txs[j].here
      /\ sended \cap failed = {} /\ sended \cap descriptions = {}
      /\ \A r \in rows : r[2] \notin sended /\ r[2] \in saved \ failed
      /\ \A j \in descriptions : j \in saved \ failed /\ txs[j].type = "InitContract" /\ txs[j].here
      /\ \A r \in rows : txs[r[2]].type = "Repeatable" /\ txs[r[2]].from = System
  BY DEF TransactionsInv, Numbered, Undecided, ResultsTrue, OT!ResultsTrue
<1>2. sended' = sended \ {i} /\ UNCHANGED txs
  BY DEF OT!NetworkResult, OT!Approved, OT!Rejected
<1>3. CASE ~ok
  <2>1. failed' = failed \cup {i} /\ UNCHANGED <<saved, descriptions, rows>>
    BY <1>3 DEF OT!NetworkResult, OT!Rejected
  <2> QED
    BY <1>1, <1>2, <2>1 DEF TransactionsInv, Numbered, Undecided, ResultsTrue, OT!ResultsTrue
<1>4. CASE ok
  <2>1. OT!Approved(i, kept)
    BY <1>4 DEF OT!NetworkResult
  <2>2. UNCHANGED failed /\ saved' = IF kept THEN saved \cup {i} ELSE saved
    BY <2>1 DEF OT!Approved, OT!Save
  <2>3. ASSUME ~kept PROVE UNCHANGED <<descriptions, rows>>
    BY <2>1, <2>3 DEF OT!Approved
  <2>4. ASSUME kept
        PROVE  /\ \/ UNCHANGED descriptions
                  \/ descriptions' = descriptions \cup {i} /\ txs[i].type = "InitContract"
               /\ \/ UNCHANGED rows
                  \/ /\ rows' = rows \cup {<<pending, i>>}
                     /\ txs[i].type = "Repeatable" /\ txs[i].from = System
    <3>1. OT!CheckSelf(i)
      BY <2>1, <2>4 DEF OT!Approved
    <3>2. \/ UNCHANGED descriptions
          \/ descriptions' = descriptions \cup {i} /\ txs[i].type = "InitContract"
      BY <3>1 DEF OT!CheckSelf, OT!FinalToken
    <3>3. \/ UNCHANGED rows
          \/ /\ rows' = rows \cup {<<pending, i>>}
             /\ txs[i].type = "Repeatable" /\ txs[i].from = System
      BY <3>1 DEF OT!CheckSelf, OT!SubscriptionRows
    <3> QED BY <3>2, <3>3
  <2>5. \A r \in rows' : r \in rows \/ (r[2] = i /\ txs[i].type = "Repeatable" /\ txs[i].from = System
                                        /\ kept)
    BY <2>3, <2>4
  <2>6. \A j \in descriptions' : j \in descriptions
                                 \/ (j = i /\ txs[i].type = "InitContract" /\ kept)
    BY <2>3, <2>4
  <2>7. saved \subseteq saved' /\ (kept => i \in saved') /\ saved' \subseteq saved \cup {i}
    BY <2>2
  <2>8. Numbered'
    BY <1>1, <1>2, <2>2, <2>6, <2>7 DEF Numbered
  <2>9. Undecided'
    BY <1>1, <1>2, <2>2, <2>5, <2>6 DEF Undecided
  <2>10. ResultsTrue'
    BY <1>1, <1>2, <2>2, <2>5, <2>6, <2>7 DEF ResultsTrue, OT!ResultsTrue
  <2> QED BY <2>8, <2>9, <2>10 DEF TransactionsInv
<1> QED BY <1>3, <1>4

LEMMA TransactionsStep == TransactionsInv /\ OT!Next => TransactionsInv'
<1> SUFFICES ASSUME TransactionsInv, OT!Next PROVE TransactionsInv'
  OBVIOUS
<1>0. txs \in Seq(OT!Tx) /\ Len(txs) \in Nat /\ MaxTxs \in Nat
  BY DeviceAssumption DEF OT!OwnTransactionsAssumption, TransactionsInv, Numbered
<1>1. CASE OT!Pay(Wallet, Nobody)
  <2> DEFINE t == OT!NewTx("Regular", Wallet, <<"actor", Nobody>>)
  <2>1. t \in OT!Tx /\ t.here
    BY DEF OT!NewTx, OT!Tx
  <2>2. /\ txs' = Append(txs, t) /\ sended' = sended \cup {Len(txs) + 1}
        /\ UNCHANGED <<failed, saved, descriptions, rows>>
    BY <1>1 DEF OT!Pay, OT!Send
  <2> HIDE DEF t
  <2> QED BY <2>1, <2>2, NewTransaction
<1>2. ASSUME NEW owner \in {System, Wallet, Nobody}, OT!CreateToken(owner)
      PROVE  TransactionsInv'
  <2> DEFINE i == Len(txs) + 1
             t == OT!NewTx("InitContract", owner, OT!Service(i))
  <2>1. t \in OT!Tx /\ t.here
    <3>1. i \in 1..MaxTxs
      BY <1>0, <1>2 DEF OT!CreateToken
    <3> QED BY <3>1 DEF OT!NewTx, OT!Tx
  <2>2. /\ UNCHANGED <<failed, saved, descriptions, rows>>
        /\ \/ txs' = Append(txs, t) /\ sended' = sended \cup {Len(txs) + 1}
           \/ UNCHANGED <<txs, sended>>
    BY <1>2 DEF OT!CreateToken, OT!Send
  <2> HIDE DEF t, i
  <2>3. CASE txs' = Append(txs, t) /\ sended' = sended \cup {Len(txs) + 1}
    BY <2>1, <2>2, <2>3, NewTransaction
  <2>4. CASE UNCHANGED <<txs, sended>>
    BY <2>2, <2>4 DEF TransactionsInv, Numbered, Undecided, ResultsTrue, OT!ResultsTrue
  <2> QED BY <2>2, <2>3, <2>4
<1>3. ASSUME NEW l \in Links, OT!AddSubscription(l, Nobody) PROVE TransactionsInv'
  <2> DEFINE t == OT!NewTx("Repeatable", System, <<"actor", Nobody>>)
  <2>1. t \in OT!Tx /\ t.here
    BY DEF OT!NewTx, OT!Tx
  <2>2. /\ txs' = Append(txs, t) /\ sended' = sended \cup {Len(txs) + 1}
        /\ UNCHANGED <<failed, saved, descriptions, rows>>
    BY <1>3 DEF OT!AddSubscription, OT!Send
  <2> HIDE DEF t
  <2> QED BY <2>1, <2>2, NewTransaction
<1>4. CASE OT!NoteToken \/ OT!NoteSubscription
  BY <1>4 DEF OT!NoteToken, OT!NoteSubscription, TransactionsInv, Numbered, Undecided,
              ResultsTrue, OT!ResultsTrue
<1>5. ASSUME NEW i \in sended, NEW ok \in BOOLEAN, NEW kept \in BOOLEAN,
             OT!NetworkResult(i, ok, kept)
      PROVE  TransactionsInv'
  BY <1>5, OneResult
<1>6. ASSUME NEW kind \in {"Regular", "Repeatable"}, NEW kept \in BOOLEAN,
             OT!NetworkTransaction(
               [OT!NewTx(kind, System, <<"actor", Nobody>>) EXCEPT !.here = FALSE], kept)
      PROVE  TransactionsInv'
  <2> DEFINE t == [OT!NewTx(kind, System, <<"actor", Nobody>>) EXCEPT !.here = FALSE]
  <2>1. t \in OT!Tx /\ t.from = System /\ t.type = kind
    BY DEF OT!NewTx, OT!Tx
  <2>2. OT!NetworkTransaction(t, kept)
    BY <1>6
  <2> HIDE DEF t
  <2>3. /\ txs' = Append(txs, t) /\ UNCHANGED <<sended, failed, descriptions>>
        /\ saved' = IF kept THEN saved \cup {Len(txs) + 1} ELSE saved
        /\ rows' \in IF kept /\ t.type = "Repeatable" /\ t.from = System /\ pending # "none"
                     THEN {rows, rows \cup {<<pending, Len(txs) + 1>>}} ELSE {rows}
    BY <2>2 DEF OT!NetworkTransaction, OT!Save
  <2>4. saved' \in {saved, saved \cup {Len(txs) + 1}}
    BY <2>3
  <2>5. \/ UNCHANGED rows
        \/ /\ t.type = "Repeatable" /\ t.from = System /\ Len(txs) + 1 \in saved'
           /\ \E l : rows' = rows \cup {<<l, Len(txs) + 1>>}
    BY <2>3
  <2> QED BY <2>1, <2>3, <2>4, <2>5, NewTransaction
<1> QED BY <1>1, <1>2, <1>3, <1>4, <1>5, <1>6 DEF OT!Next

(* Whatever the order in which a transaction is sent, noted and decided,   *)
(* and whatever other devices send, what a node stores about its own       *)
(* transactions is about saved ones that were not refused                  *)
(* (network_transaction_result, check_self).                               *)
THEOREM StoredForSaved == DeviceSpec => []ResultsTrue
<1>1. DeviceInit => TransactionsInv
  BY InitTransactions DEF DeviceInit
<1>2. ASSUME TransactionsInv, UNCHANGED transactionsVars PROVE TransactionsInv'
  BY <1>2 DEF transactionsVars, TransactionsInv, Numbered, Undecided, ResultsTrue, OT!ResultsTrue
<1>3. TransactionsInv
        /\ [DeviceNext]_<<part, vars, filesVars, transactionsVars, rewardsVars, messagesVars>>
      => TransactionsInv'
  BY <1>2, TransactionsStep
     DEF DeviceNext, StepProfiles, StepFiles, StepTransactions, StepRewards, StepMessages
<1>4. TransactionsInv => ResultsTrue
  BY DEF TransactionsInv
<1> QED BY <1>1, <1>3, <1>4, PTL DEF DeviceSpec

------------------------------------------------------------------------------
(* Rewards.  A node that is forgotten got its last reward longer ago than  *)
(* places are kept, so that whoever was served within that time has a      *)
(* place.                                                                  *)

Times ==
  /\ clock \in Nat /\ DOMAIN last \subseteq Identifiers
  /\ \A n \in DOMAIN last : last[n] \in Nat /\ last[n] <= clock
  /\ accepted \subseteq Identifiers \X Nat
  /\ \A a \in accepted : a[2] <= clock

HasPlace ==
  \A a \in accepted : \/ a[1] \in DOMAIN last /\ a[2] <= last[a[1]]
                      \/ clock - a[2] > Forget

FewPlaces == IsFiniteSet(DOMAIN last) /\ Cardinality(DOMAIN last) <= Limit

RewardsInv == Times /\ HasPlace /\ FewPlaces /\ RewardsSpaced

(* The instance has a Cardinality of its own. *)
LEMMA SameCardinality == \A S : RW!Cardinality(S) = Cardinality(S)
BY DEF RW!Cardinality, Cardinality

LEMMA RewardsNumbers ==
  Cooldown \in Nat \ {0} /\ Forget \in Nat /\ Cooldown <= Forget /\ Limit \in Nat \ {0}
BY DeviceAssumption DEF RW!RewardsAssumption

(* A part of the places is few places, too. *)
LEMMA FewerPlaces ==
  ASSUME FewPlaces, NEW S, S \subseteq DOMAIN last
  PROVE  IsFiniteSet(S) /\ Cardinality(S) \in Nat /\ Cardinality(S) <= Limit
<1>1. IsFiniteSet(S) /\ Cardinality(S) <= Cardinality(DOMAIN last)
  BY FS_Subset DEF FewPlaces
<1>2. Cardinality(S) \in Nat /\ Cardinality(DOMAIN last) \in Nat
  BY <1>1, FS_CardinalityType DEF FewPlaces
<1>3. Cardinality(DOMAIN last) <= Limit /\ Limit \in Nat
  BY RewardsNumbers DEF FewPlaces
<1> QED BY <1>1, <1>2, <1>3

LEMMA InitRewards == RW!Init => RewardsInv
<1> SUFFICES ASSUME RW!Init PROVE RewardsInv
  OBVIOUS
<1>1. last = <<>> /\ clock = 0 /\ accepted = {}
  BY DEF RW!Init
<1>2. DOMAIN last = {}
  BY <1>1
<1>3. FewPlaces
  BY <1>2, FS_EmptySet, RewardsNumbers DEF FewPlaces
<1>4. \A t \in 0..clock : Cardinality(RW!ServedFrom(t)) <= Limit
  <2>1. \A t \in 0..clock : RW!ServedFrom(t) = {}
    BY <1>1 DEF RW!ServedFrom
  <2> QED BY <2>1, FS_EmptySet, RewardsNumbers
<1>5. RewardsSpaced
  BY <1>1, <1>4, SameCardinality DEF RewardsSpaced, RW!RewardsSpaced
<1> QED BY <1>1, <1>2, <1>3, <1>5 DEF RewardsInv, Times, HasPlace

LEMMA TickKeeps == RewardsInv /\ RW!Tick => RewardsInv'
<1> SUFFICES ASSUME RewardsInv, RW!Tick PROVE RewardsInv'
  OBVIOUS
<1>1. clock' = clock + 1 /\ UNCHANGED <<last, accepted>>
  BY DEF RW!Tick
<1>2. Times /\ HasPlace /\ FewPlaces /\ RewardsSpaced
  BY DEF RewardsInv
<1>3. Times' /\ HasPlace' /\ FewPlaces'
  BY <1>1, <1>2, RewardsNumbers DEF Times, HasPlace, FewPlaces
<1>4. \A t \in 0..clock' : Cardinality(RW!ServedFrom(t)) <= Limit
  <2>1. clock \in Nat /\ clock' = clock + 1
    BY <1>1, <1>2 DEF Times
  <2>2. RW!ServedFrom(clock + 1) = {}
    BY <1>2, <2>1 DEF Times, RW!ServedFrom
  <2>3. Cardinality(RW!ServedFrom(clock + 1)) <= Limit
    BY <2>2, FS_EmptySet, RewardsNumbers
  <2>4. \A t \in 0..clock : Cardinality(RW!ServedFrom(t)) <= Limit
    BY <1>2, SameCardinality DEF RewardsSpaced, RW!RewardsSpaced
  <2>5. \A t \in 0..clock' : t \in 0..clock \/ t = clock + 1
    BY <2>1
  <2> QED BY <2>3, <2>4, <2>5
<1>5. RewardsSpaced'
  <2>1. \A t : RW!ServedFrom(t)' = RW!ServedFrom(t)
    BY <1>1 DEF RW!ServedFrom
  <2>2. \A t \in 0..clock' : RW!Cardinality(RW!ServedFrom(t)') <= Limit
    BY <1>4, <2>1, SameCardinality
  <2> QED BY <1>1, <1>2, <2>2 DEF RewardsSpaced, RW!RewardsSpaced
<1> QED BY <1>3, <1>5 DEF RewardsInv

(* A request: who was served within Forget keeps its place. *)
LEMMA PlacesKept ==
  ASSUME Times, HasPlace, NEW n \in Identifiers, NEW a \in accepted, clock - a[2] <= Forget
  PROVE  a[1] \in RW!Places(n) /\ a[2] <= last[a[1]]
<1>1. a[2] \in Nat /\ a[2] <= clock /\ clock \in Nat
  BY DEF Times
<1>2. a[1] \in DOMAIN last /\ a[2] <= last[a[1]]
  BY <1>1, RewardsNumbers DEF HasPlace
<1>3. last[a[1]] \in Nat
  BY <1>2 DEF Times
<1>4. a[1] \in RW!Remembered
  BY <1>1, <1>2, <1>3, RewardsNumbers DEF RW!Remembered
<1> QED BY <1>2, <1>4 DEF RW!Places

LEMMA RequestKeeps ==
  ASSUME RewardsInv, NEW n \in Identifiers, NEW valid \in BOOLEAN,
         RW!NetworkRequestCoinReward(n, valid)
  PROVE  RewardsInv'
<1> DEFINE P == RW!Places(n)
<1>1. Times /\ HasPlace /\ FewPlaces /\ RewardsSpaced /\ UNCHANGED clock
  BY DEF RewardsInv, RW!NetworkRequestCoinReward
<1>2. P \subseteq DOMAIN last /\ P \subseteq Identifiers
  BY <1>1 DEF RW!Places, RW!Remembered, Times
<1>3. IsFiniteSet(P) /\ Cardinality(P) \in Nat /\ Cardinality(P) <= Limit
  BY <1>1, <1>2, FewerPlaces
<1>4. \A a \in accepted : clock - a[2] <= Forget => a[1] \in P /\ a[2] <= last[a[1]]
  BY <1>1, PlacesKept
<1>5. \/ /\ RW!Served(n)
         /\ last' = [m \in P \cup {n} |-> IF m = n THEN clock ELSE last[m]]
         /\ accepted' = accepted \cup {<<n, clock>>}
      \/ last' = [m \in P |-> last[m]] /\ UNCHANGED accepted
  BY DEF RW!NetworkRequestCoinReward, RW!Kept
<1>6. RW!Served(n) => (n \in DOMAIN last /\ n \in P /\ clock - last[n] >= Cooldown)
                      \/ (n \notin DOMAIN last /\ Cardinality(P) < Limit)
  <2>1. n \in DOMAIN last => P = DOMAIN last
    BY DEF RW!Places
  <2> QED BY <2>1, SameCardinality DEF RW!Served
<1> HIDE DEF P
<1>7. CASE last' = [m \in P |-> last[m]] /\ UNCHANGED accepted
  <2>1. Times'
    BY <1>1, <1>2, <1>7 DEF Times
  <2>2. HasPlace'
    <3>1. ASSUME NEW a \in accepted PROVE (a[1] \in P /\ a[2] <= last[a[1]]) \/ clock - a[2] > Forget
      <4>1. a[2] \in Nat /\ clock \in Nat /\ Forget \in Nat
        BY <1>1, RewardsNumbers DEF Times
      <4> QED BY <1>4, <4>1
    <3> QED BY <1>1, <1>7, <3>1 DEF HasPlace
  <2>3. FewPlaces'
    BY <1>3, <1>7 DEF FewPlaces
  <2>4. RewardsSpaced'
    <3>1. \A t : RW!ServedFrom(t)' = RW!ServedFrom(t)
      BY <1>7 DEF RW!ServedFrom
    <3> QED BY <1>1, <1>7, <3>1 DEF RewardsSpaced, RW!RewardsSpaced
  <2> QED BY <2>1, <2>2, <2>3, <2>4 DEF RewardsInv
<1>8. CASE /\ RW!Served(n)
           /\ last' = [m \in P \cup {n} |-> IF m = n THEN clock ELSE last[m]]
           /\ accepted' = accepted \cup {<<n, clock>>}
  <2>0. clock \in Nat /\ Forget \in Nat /\ Cooldown \in Nat /\ Limit \in Nat /\ Cooldown <= Forget
    BY <1>1, RewardsNumbers DEF Times
  <2>1. DOMAIN last' = P \cup {n} /\ last'[n] = clock /\ \A m \in P : m # n => last'[m] = last[m]
    BY <1>8
  <2>2. Times'
    BY <1>1, <1>2, <1>8, <2>0, <2>1 DEF Times
  <2>3. HasPlace'
    <3> SUFFICES ASSUME NEW a \in accepted'
                 PROVE  (a[1] \in DOMAIN last' /\ a[2] <= last'[a[1]]) \/ clock - a[2] > Forget
      BY <1>1 DEF HasPlace
    <3>1. CASE a = <<n, clock>>
      BY <2>0, <2>1, <3>1
    <3>2. CASE a \in accepted
      <4>1. a[2] \in Nat /\ a[2] <= clock
        BY <1>1, <3>2 DEF Times
      <4>2. CASE clock - a[2] <= Forget
        BY <1>4, <2>0, <2>1, <3>2, <4>1, <4>2
      <4> QED BY <2>0, <4>1, <4>2
    <3> QED BY <1>8, <3>1, <3>2
  <2>4. FewPlaces'
    <3>1. IsFiniteSet(P \cup {n})
          /\ Cardinality(P \cup {n}) = IF n \in P THEN Cardinality(P) ELSE Cardinality(P) + 1
      BY <1>3, FS_AddElement
    <3> QED BY <1>2, <1>3, <1>6, <1>8, <2>0, <2>1, <3>1 DEF FewPlaces
  <2>5. \A a, b \in accepted' : a[1] = b[1] /\ a[2] < b[2] => b[2] - a[2] >= Cooldown
    <3>1. ASSUME NEW a \in accepted, a[1] = n, a[2] < clock PROVE clock - a[2] >= Cooldown
      <4>1. a[2] \in Nat
        BY <1>1 DEF Times
      <4>2. CASE clock - a[2] > Forget
        BY <2>0, <4>1, <4>2
      <4>3. CASE clock - a[2] <= Forget
        <5>1. n \in P /\ a[2] <= last[n]
          BY <1>4, <3>1, <4>3
        <5>2. last[n] \in Nat /\ clock - last[n] >= Cooldown
          BY <1>1, <1>2, <1>6, <1>8, <5>1 DEF Times
        <5> QED BY <2>0, <4>1, <5>1, <5>2
      <4> QED BY <2>0, <4>1, <4>2, <4>3
    <3>2. \A a \in accepted : ~(clock < a[2])
      BY <1>1, <2>0 DEF Times
    <3>3. \A a, b \in accepted : a[1] = b[1] /\ a[2] < b[2] => b[2] - a[2] >= Cooldown
      BY <1>1, SameCardinality DEF RewardsSpaced, RW!RewardsSpaced
    <3> QED BY <1>8, <2>0, <3>1, <3>2, <3>3
  <2>6. ASSUME NEW t \in 0..clock' PROVE Cardinality(RW!ServedFrom(t)') <= Limit
    <3>0. t \in Nat /\ t <= clock
      BY <1>1, <2>0, <2>6
    <3>1. CASE t + Forget < clock
      <4>1. RW!ServedFrom(t)' = RW!ServedFrom(t)
        BY <1>8, <2>0, <3>0, <3>1 DEF RW!ServedFrom
      <4>2. t \in 0..clock
        BY <2>0, <3>0
      <4> QED BY <1>1, <4>1, <4>2, SameCardinality DEF RewardsSpaced, RW!RewardsSpaced
    <3>2. CASE t + Forget >= clock
      <4>1. \A a \in accepted' : a[2] >= t => a[1] \in DOMAIN last'
        BY <1>1, <2>0, <2>2, <2>3, <3>0, <3>2 DEF HasPlace, Times
      <4>2. \A a \in accepted' : a[2] \in t..(t + Forget) => a[2] >= t
        BY <2>0, <3>0
      <4>3. RW!ServedFrom(t)' \subseteq DOMAIN last'
        BY <4>1, <4>2 DEF RW!ServedFrom
      <4> DEFINE S == RW!ServedFrom(t)'
                 D == DOMAIN last'
      <4>4. S \subseteq D /\ IsFiniteSet(D) /\ Cardinality(D) <= Limit
        BY <2>4, <4>3 DEF FewPlaces
      <4> HIDE DEF S, D
      <4>5. IsFiniteSet(S) /\ Cardinality(S) <= Cardinality(D)
        BY <4>4, FS_Subset
      <4>6. Cardinality(S) \in Nat /\ Cardinality(D) \in Nat
        BY <4>4, <4>5, FS_CardinalityType
      <4>7. Cardinality(S) <= Limit
        BY <2>0, <4>4, <4>5, <4>6
      <4> QED BY <4>7 DEF S
    <3> QED BY <2>0, <3>0, <3>1, <3>2
  <2>7. RewardsSpaced'
    BY <2>5, <2>6, SameCardinality DEF RewardsSpaced, RW!RewardsSpaced
  <2> QED BY <2>2, <2>3, <2>4, <2>7 DEF RewardsInv
<1> QED BY <1>5, <1>7, <1>8

(* However requests repeat, arrive late or take turns, and whoever is      *)
(* refused in between, two rewards of a node are a cooldown apart and no   *)
(* more than Limit nodes are served within Forget                          *)
(* (network_request_coin_reward).                                          *)
THEOREM RewardsApart == DeviceSpec => []RewardsSpaced
<1>1. DeviceInit => RewardsInv
  BY InitRewards DEF DeviceInit
<1>2. ASSUME RewardsInv, UNCHANGED rewardsVars PROVE RewardsInv'
  <2>1. \A t : RW!ServedFrom(t)' = RW!ServedFrom(t)
    BY <1>2 DEF RW!ServedFrom, rewardsVars
  <2>2. UNCHANGED <<last, clock, accepted>>
    BY <1>2 DEF rewardsVars
  <2>3. RewardsSpaced'
    BY <1>2, <2>1, <2>2 DEF RewardsInv, RewardsSpaced, RW!RewardsSpaced
  <2> QED BY <1>2, <2>2, <2>3 DEF RewardsInv, Times, HasPlace, FewPlaces
<1>3. ASSUME RewardsInv, RW!Next PROVE RewardsInv'
  <2>1. ASSUME NEW n \in Identifiers,
               RW!StartMining(n) \/ RW!StopMining(n) \/ RW!RequestReward(n)
        PROVE  RewardsInv'
    <3>1. UNCHANGED <<last, clock, accepted>>
      BY <2>1 DEF RW!StartMining, RW!StopMining, RW!RequestReward
    <3>2. \A t : RW!ServedFrom(t)' = RW!ServedFrom(t)
      BY <3>1 DEF RW!ServedFrom
    <3>3. RewardsSpaced'
      BY <1>3, <3>1, <3>2 DEF RewardsInv, RewardsSpaced, RW!RewardsSpaced
    <3> QED BY <1>3, <3>1, <3>3 DEF RewardsInv, Times, HasPlace, FewPlaces
  <2> QED BY <1>3, <2>1, TickKeeps, RequestKeeps DEF RW!Next
<1>4. RewardsInv
        /\ [DeviceNext]_<<part, vars, filesVars, transactionsVars, rewardsVars, messagesVars>>
      => RewardsInv'
  BY <1>2, <1>3
     DEF DeviceNext, StepProfiles, StepFiles, StepTransactions, StepRewards, StepMessages
<1>5. RewardsInv => RewardsSpaced
  BY DEF RewardsInv
<1> QED BY <1>1, <1>4, <1>5, PTL DEF DeviceSpec

------------------------------------------------------------------------------
(* Files and their names.  An installation has every file it made in its   *)
(* directory, and only the renames are private, so that a search before a  *)
(* file is made sees those of its name.                                    *)

Renames(f) == f.folder = "vectors" /\ f.name = "Renames"
SameName(f, g) == <<f.owner, f.folder, f.name, f.by>> = <<g.owner, g.folder, g.name, g.by>>

Directory(d) ==
  /\ d = [files |-> d.files, copy |-> d.copy, rows |-> d.rows]
  /\ d.files \in Seq(NF!File) /\ Len(d.files) <= MaxFiles
  /\ d.copy \in [NF!Nodes -> [1..MaxFiles -> {"none", "known", "has", "ready"}]]

WellNamed(d, by) ==
  /\ Directory(d)
  /\ \A i \in DOMAIN d.files :
       LET f == d.files[i]
       IN  /\ f.private <=> Renames(f)
           /\ f.by <= by[f.owner]
           /\ f.by = by[f.owner] => d.copy[f.owner][i] # "none"
  /\ \A i, j \in DOMAIN d.files : i # j => ~SameName(d.files[i], d.files[j])

NamesInv == installs \in [NF!Nodes -> 0..MaxInstalls] /\ WellNamed(dfs, installs)

LEMMA MadeKeepsNames ==
  ASSUME installs \in [NF!Nodes -> 0..MaxInstalls], NEW d, WellNamed(d, installs),
         NEW n \in NF!Nodes, NEW folder \in {"templates", "vectors", "dictionaries"},
         NEW name \in NF!Names, NEW private \in BOOLEAN,
         private <=> (folder = "vectors" /\ name = "Renames"),
         Len(d.files) < MaxFiles,
         \A i \in DOMAIN d.files :
           d.copy[n][i] # "none" /\ d.files[i].owner = n /\ d.files[i].private = private
             => <<d.files[i].folder, d.files[i].name>> # <<folder, name>>
  PROVE  WellNamed(NF!Made(d, n, folder, name, private), installs)
<1> DEFINE k == Len(d.files) + 1
           g == [owner |-> n, folder |-> folder, name |-> name, private |-> private,
                 by |-> installs[n]]
           e == NF!Made(d, n, folder, name, private)
<1>0. MaxInstalls \in Nat /\ MaxFiles \in Nat
  BY DeviceAssumption DEF NF!NamedFilesAssumption
<1>1. Directory(d)
  BY DEF WellNamed
<1>2. Len(d.files) \in Nat /\ k \in 1..MaxFiles /\ DOMAIN d.files = 1..Len(d.files)
  BY <1>0, <1>1 DEF Directory
<1>3. g \in NF!File
  BY DEF NF!File
<1>4. e = [files |-> Append(d.files, g), copy |-> [d.copy EXCEPT ![n][k] = "ready"], rows |-> d.rows]
  <2> DEFINE F == d.files
             C == d.copy
             R == d.rows
  <2>1. d = [files |-> F, copy |-> C, rows |-> R]
    BY <1>1 DEF Directory
  <2>2. e = [d EXCEPT !.files = Append(d.files, g), !.copy[n][k] = "ready"]
    BY DEF NF!Made
  <2>3. d.files = F /\ d.copy = C /\ d.rows = R
    OBVIOUS
  <2> HIDE DEF F, C, R, g, e
  <2>4. e = [files |-> Append(F, g), copy |-> [C EXCEPT ![n][k] = "ready"], rows |-> R]
    BY <2>1, <2>2, <2>3
  <2> QED BY <2>3, <2>4
<1> HIDE DEF g, e
<1>5. /\ e.files \in Seq(NF!File) /\ Len(e.files) <= MaxFiles
      /\ DOMAIN e.files = DOMAIN d.files \cup {k} /\ e.files[k] = g
      /\ k \notin DOMAIN d.files
      /\ \A i \in DOMAIN d.files : e.files[i] = d.files[i]
  BY <1>1, <1>2, <1>3, <1>4 DEF Directory
<1>6. /\ e.copy \in [NF!Nodes -> [1..MaxFiles -> {"none", "known", "has", "ready"}]]
      /\ e.copy[n][k] = "ready"
      /\ \A m \in NF!Nodes, i \in DOMAIN d.files : e.copy[m][i] = d.copy[m][i]
  <2> DEFINE C == d.copy
             D == e.copy
  <2>1. C \in [NF!Nodes -> [1..MaxFiles -> {"none", "known", "has", "ready"}]]
    BY <1>1 DEF Directory
  <2>2. D = [C EXCEPT ![n][k] = "ready"]
    BY <1>4
  <2>3. DOMAIN d.files \subseteq 1..MaxFiles
    BY <1>0, <1>1, <1>2 DEF Directory
  <2> HIDE DEF C, D
  <2>4. D \in [NF!Nodes -> [1..MaxFiles -> {"none", "known", "has", "ready"}]]
    BY <1>2, <2>1, <2>2
  <2>5. D[n][k] = "ready"
    BY <1>2, <2>1, <2>2
  <2>6. \A m \in NF!Nodes, i \in DOMAIN d.files : D[m][i] = C[m][i]
    BY <1>5, <2>1, <2>2, <2>3
  <2> QED BY <2>4, <2>5, <2>6 DEF C, D
<1>7. Directory(e)
  BY <1>4, <1>5, <1>6 DEF Directory
<1>8. /\ g.owner = n /\ g.folder = folder /\ g.name = name /\ g.private = private
      /\ g.by = installs[n] /\ installs[n] \in Nat
  BY <1>0 DEF g
<1>9. \A i \in DOMAIN d.files :
        /\ d.files[i].owner \in NF!Nodes /\ d.files[i].private \in BOOLEAN
        /\ d.files[i].private <=> Renames(d.files[i])
        /\ d.files[i].by <= installs[d.files[i].owner]
        /\ d.files[i].by = installs[d.files[i].owner] => d.copy[d.files[i].owner][i] # "none"
  <2>1. \A i \in DOMAIN d.files : d.files[i] \in NF!File
    BY <1>1 DEF Directory
  <2>2. \A f \in NF!File : f.owner \in NF!Nodes /\ f.private \in BOOLEAN
    BY DEF NF!File
  <2>3. \A i \in DOMAIN d.files :
        /\ d.files[i].private <=> Renames(d.files[i])
        /\ d.files[i].by <= installs[d.files[i].owner]
        /\ d.files[i].by = installs[d.files[i].owner] => d.copy[d.files[i].owner][i] # "none"
    BY Zenon DEF WellNamed
  <2> QED BY <2>1, <2>2, <2>3
<1>10. ASSUME NEW i \in DOMAIN e.files
       PROVE  LET f == e.files[i]
              IN  /\ f.private <=> Renames(f)
                  /\ f.by <= installs[f.owner]
                  /\ f.by = installs[f.owner] => e.copy[f.owner][i] # "none"
  <2>1. CASE i = k
    <3>1. /\ g.private <=> Renames(g)
          /\ g.by <= installs[g.owner] /\ e.copy[g.owner][k] # "none"
      BY <1>6, <1>8 DEF Renames
    <3> QED BY <1>5, <2>1, <3>1
  <2>2. CASE i \in DOMAIN d.files
    <3> DEFINE f == d.files[i]
    <3>1. e.files[i] = f /\ f.owner \in NF!Nodes
      BY <1>5, <1>9, <2>2
    <3>2. e.copy[f.owner][i] = d.copy[f.owner][i]
      BY <1>6, <2>2, <3>1
    <3>3. /\ f.private <=> Renames(f)
          /\ f.by <= installs[f.owner]
          /\ f.by = installs[f.owner] => d.copy[f.owner][i] # "none"
      BY <1>9, <2>2, Zenon
    <3> HIDE DEF f
    <3> QED BY <3>1, <3>2, <3>3
  <2> QED BY <1>5, <2>1, <2>2
<1>11. ASSUME NEW i \in DOMAIN d.files PROVE ~SameName(d.files[i], g)
  <2>1. SUFFICES ASSUME SameName(d.files[i], g) PROVE FALSE
    OBVIOUS
  <2>2. /\ d.files[i].owner = n /\ d.files[i].folder = folder /\ d.files[i].name = name
        /\ d.files[i].by = installs[n]
    BY <1>8, <2>1 DEF SameName
  <2>3. d.copy[n][i] # "none" /\ d.files[i].private = private
    BY <1>9, <2>2 DEF Renames
  <2> QED BY <2>2, <2>3
<1>12. \A i, j \in DOMAIN d.files : i # j => ~SameName(d.files[i], d.files[j])
  BY DEF WellNamed
<1>13. \A i, j \in DOMAIN e.files : i # j => ~SameName(e.files[i], e.files[j])
  <2>1. \A i \in DOMAIN d.files : ~SameName(d.files[i], g) /\ ~SameName(g, d.files[i])
    BY <1>11 DEF SameName
  <2> QED BY <1>5, <1>12, <2>1
<1> QED BY <1>7, <1>10, <1>13 DEF WellNamed, e

(* Nothing but a new installation loses a file. *)
LEMMA CopiesKeepNames ==
  ASSUME NEW by, NEW d, WellNamed(d, by), NEW e, Directory(e), e.files = d.files,
         \A m \in NF!Nodes, i \in DOMAIN d.files : d.copy[m][i] # "none" => e.copy[m][i] # "none"
  PROVE  WellNamed(e, by)
<1>1. \A i \in DOMAIN d.files : d.files[i].owner \in NF!Nodes
  <2>1. \A f \in NF!File : f.owner \in NF!Nodes
    BY DEF NF!File
  <2> QED BY <2>1 DEF WellNamed, Directory
<1>2. ASSUME NEW i \in DOMAIN e.files
      PROVE  LET f == e.files[i]
             IN  /\ f.private <=> Renames(f)
                 /\ f.by <= by[f.owner]
                 /\ f.by = by[f.owner] => e.copy[f.owner][i] # "none"
  <2> DEFINE f == d.files[i]
  <2>1. /\ f.private <=> Renames(f)
        /\ f.by <= by[f.owner]
        /\ f.by = by[f.owner] => d.copy[f.owner][i] # "none"
    BY Zenon DEF WellNamed
  <2>2. f.owner \in NF!Nodes
    BY <1>1
  <2>3. e.files[i] = f /\ i \in DOMAIN d.files
    OBVIOUS
  <2> HIDE DEF f
  <2> QED BY <2>1, <2>2, <2>3
<1>3. \A i, j \in DOMAIN e.files : i # j => ~SameName(e.files[i], e.files[j])
  BY DEF WellNamed
<1> QED BY <1>2, <1>3 DEF WellNamed

LEMMA RowsKeepNames ==
  ASSUME NEW by, NEW d, WellNamed(d, by), NEW n, NEW i, NEW x
  PROVE  WellNamed([d EXCEPT !.rows[n][i] = x], by)
<1> DEFINE e == [d EXCEPT !.rows[n][i] = x]
           F == d.files
           C == d.copy
           R == d.rows
<1>1. d = [files |-> F, copy |-> C, rows |-> R] /\ Directory(d)
  BY DEF WellNamed, Directory
<1>2. d.files = F /\ d.copy = C
  OBVIOUS
<1>3. \E r : e = [files |-> F, copy |-> C, rows |-> r]
  <2> HIDE DEF F, C, R
  <2>1. e = [files |-> F, copy |-> C, rows |-> [R EXCEPT ![n][i] = x]]
    BY <1>1
  <2> QED BY <2>1
<1> HIDE DEF e, F, C, R
<1>4. Directory(e) /\ e.files = d.files /\ e.copy = d.copy
  BY <1>1, <1>2, <1>3 DEF Directory
<1>5. WellNamed(e, by)
  BY <1>4, CopiesKeepNames
<1> QED BY <1>5 DEF e

LEMMA CopyKeepsNames ==
  ASSUME NEW by, NEW d, WellNamed(d, by), NEW n \in NF!Nodes, NEW i,
         NEW c \in {"known", "has", "ready"}
  PROVE  WellNamed([d EXCEPT !.copy[n][i] = c], by)
<1> DEFINE e == [d EXCEPT !.copy[n][i] = c]
           F == d.files
           C == d.copy
           R == d.rows
<1>1. d = [files |-> F, copy |-> C, rows |-> R] /\ Directory(d)
  BY DEF WellNamed, Directory
<1>2. d.files = F /\ d.copy = C
  OBVIOUS
<1>3. e = [files |-> F, copy |-> [C EXCEPT ![n][i] = c], rows |-> R]
  <2> HIDE DEF F, C, R
  <2> QED BY <1>1
<1> HIDE DEF e, F, C, R
<1>4. C \in [NF!Nodes -> [1..MaxFiles -> {"none", "known", "has", "ready"}]]
  BY <1>1, <1>2 DEF Directory
<1>5. e.copy = [C EXCEPT ![n][i] = c] /\ e.files = d.files
  BY <1>2, <1>3
<1>6. e.copy \in [NF!Nodes -> [1..MaxFiles -> {"none", "known", "has", "ready"}]]
  BY <1>4, <1>5, ZenonT(30)
<1>7. Directory(e)
  BY <1>1, <1>2, <1>3, <1>5, <1>6 DEF Directory
<1>8. DOMAIN d.files \subseteq 1..MaxFiles
  <2>1. MaxFiles \in Nat
    BY DeviceAssumption DEF NF!NamedFilesAssumption
  <2> QED BY <1>1, <2>1 DEF Directory
<1>9. \A m \in NF!Nodes, j \in DOMAIN d.files : d.copy[m][j] # "none" => e.copy[m][j] # "none"
  BY <1>2, <1>4, <1>5, <1>8
<1>10. WellNamed(e, by)
  BY <1>5, <1>7, <1>9, CopiesKeepNames
<1> QED BY <1>10 DEF e

LEMMA StoreKeepsNames ==
  ASSUME installs \in [NF!Nodes -> 0..MaxInstalls], NEW d, WellNamed(d, installs),
         NEW n \in NF!Nodes, NEW name \in NF!Names
  PROVE  /\ \A e \in NF!StoreTemplate(d, n, name) : WellNamed(e, installs)
         /\ \A folder \in {"vectors", "dictionaries"}, private \in BOOLEAN :
              (private <=> (folder = "vectors" /\ name = "Renames")) =>
                \A e \in NF!StoreVector(d, n, folder, name, private) : WellNamed(e, installs)
<1>1. \A i \in DOMAIN d.files : d.files[i].private \in BOOLEAN
  <2>1. \A f \in NF!File : f.private \in BOOLEAN
    BY DEF NF!File
  <2> QED BY <2>1 DEF WellNamed, Directory
<1>2. ASSUME NEW e \in NF!StoreTemplate(d, n, name) PROVE WellNamed(e, installs)
  <2>1. /\ NF!Search(d, n, n, "templates", name) = {} /\ Len(d.files) < MaxFiles
        /\ e = NF!Made(d, n, "templates", name, FALSE)
    BY <1>2 DEF NF!StoreTemplate
  <2>2. \A i \in DOMAIN d.files :
           d.copy[n][i] # "none" /\ d.files[i].owner = n /\ d.files[i].private = FALSE
             => <<d.files[i].folder, d.files[i].name>> # <<"templates", name>>
    BY <2>1 DEF NF!Search
  <2> QED BY <2>1, <2>2, MadeKeepsNames
<1>3. ASSUME NEW folder \in {"vectors", "dictionaries"}, NEW private \in BOOLEAN,
             private <=> (folder = "vectors" /\ name = "Renames"),
             NEW e \in NF!StoreVector(d, n, folder, name, private)
      PROVE  WellNamed(e, installs)
  <2>1. /\ Len(d.files) < MaxFiles /\ e = NF!Made(d, n, folder, name, private)
        /\ IF private THEN \A i \in NF!FindSelf(d, n, name) : d.files[i].folder # folder
           ELSE NF!Search(d, n, n, folder, name) = {}
    BY <1>3 DEF NF!StoreVector
  <2>2. \A i \in DOMAIN d.files :
           d.copy[n][i] # "none" /\ d.files[i].owner = n /\ d.files[i].private = private
             => <<d.files[i].folder, d.files[i].name>> # <<folder, name>>
    <3>1. CASE private
      BY <2>1, <3>1 DEF NF!FindSelf
    <3>2. CASE ~private
      BY <2>1, <3>2, <1>1 DEF NF!Search
    <3> QED BY <3>1, <3>2
  <2> QED BY <1>3, <2>1, <2>2, MadeKeepsNames
<1> QED BY <1>2, <1>3

LEMMA FromTemplateKeepsNames ==
  ASSUME installs \in [NF!Nodes -> 0..MaxInstalls], NEW d, WellNamed(d, installs),
         NEW n \in NF!Nodes, NEW t, NEW name \in NF!Names, NEW private \in BOOLEAN,
         private <=> name = "Renames",
         NEW e \in NF!StoreFromTemplate(d, n, t, name, private)
  PROVE  WellNamed(e, installs)
<1>1. e \in NF!StoreVector(d, n, "vectors", name, private)
  BY DEF NF!StoreFromTemplate
<1> QED BY <1>1, StoreKeepsNames

LEMMA WriteKeepsNames ==
  ASSUME NEW by, NEW d, WellNamed(d, by), NEW n, NEW i, NEW k, NEW live,
         NF!Write(d, n, i, k, live)
  PROVE  WellNamed(dfs', by)
<1>1. \E x : dfs' = [d EXCEPT !.rows[n][i] = x]
  BY DEF NF!Write
<1> QED BY <1>1, RowsKeepNames

NamesKept == UNCHANGED installs /\ WellNamed(dfs', installs)

LEMMA TemplatesKeepNames == NamesInv /\ NF!Create => NamesKept
<1> SUFFICES ASSUME NamesInv, NF!Create PROVE NamesKept
  OBVIOUS
<1>0. /\ installs \in [NF!Nodes -> 0..MaxInstalls] /\ WellNamed(dfs, installs)
      /\ Founder \in NF!Nodes /\ Devices \subseteq NF!Nodes
  BY DEF NamesInv, NF!Nodes
<1>1. ASSUME NEW name \in NF!Names, NF!Template(name) PROVE NamesKept
  BY <1>0, <1>1, StoreKeepsNames DEF NF!Template, NF!Memory, NamesKept
<1>2. ASSUME NEW n \in NF!Nodes, NEW template \in NF!Names, NEW name \in NF!Names,
             name # "Renames",
             NF!FromTemplate(n, template, name)
      PROVE  NamesKept
  <2>1. PICK t \in NF!NetworkTemplates(n, template) :
          \E d \in NF!StoreFromTemplate(dfs, n, t, name, FALSE) :
            dfs' = d /\ UNCHANGED installs
    BY <1>2 DEF NF!FromTemplate, NF!Memory
  <2> QED BY <1>0, <1>2, <2>1, FromTemplateKeepsNames DEF NamesKept
<1>3. CASE NF!CreateChatTemplates
  <2>1. PICK a \in NF!StoreTemplate(dfs, Founder, "MyChats") :
          LET b == NF!StoreTemplate(a, Founder, "Chat")
          IN dfs' = IF b = {} THEN a ELSE CHOOSE d \in b : TRUE
    BY <1>3 DEF NF!CreateChatTemplates
  <2> DEFINE b == NF!StoreTemplate(a, Founder, "Chat")
  <2>2. WellNamed(a, installs)
    BY <1>0, StoreKeepsNames DEF NF!Names
  <2>3. \A e \in b : WellNamed(e, installs)
    BY <1>0, <2>2, StoreKeepsNames DEF NF!Names
  <2>4. dfs' = a \/ dfs' \in b
    BY <2>1
  <2>5. UNCHANGED installs
    BY <1>3 DEF NF!CreateChatTemplates, NF!Memory
  <2> HIDE DEF b
  <2> QED BY <2>2, <2>3, <2>4, <2>5 DEF NamesKept
<1>4. CASE NF!CreateUsernames
  <2>1. PICK a \in NF!StoreTemplate(dfs, Founder, "Usernames") :
          LET b == NF!StoreFromTemplate(a, Founder, Len(a.files), "Usernames", FALSE)
          IN dfs' = IF b = {} THEN a ELSE CHOOSE d \in b : TRUE
    BY <1>4 DEF NF!CreateUsernames
  <2> DEFINE b == NF!StoreFromTemplate(a, Founder, Len(a.files), "Usernames", FALSE)
  <2>2. WellNamed(a, installs)
    BY <1>0, StoreKeepsNames DEF NF!Names
  <2>3. \A e \in b : WellNamed(e, installs)
    BY <1>0, <2>2, FromTemplateKeepsNames DEF NF!Names
  <2>4. dfs' = a \/ dfs' \in b
    BY <2>1
  <2>5. UNCHANGED installs
    BY <1>4 DEF NF!CreateUsernames, NF!Memory
  <2> HIDE DEF b
  <2> QED BY <2>2, <2>3, <2>4, <2>5 DEF NamesKept
<1>5. CASE NF!CreateTokenVector
  <2>1. PICK t \in NF!NetworkTemplates(Founder, "TokensCache"), k \in Keys :
          \E d \in NF!StoreFromTemplate(dfs, Founder, t, "TokensCache", FALSE) :
            NF!AddVectorRow(d, Founder, Len(d.files), k)
    BY <1>5 DEF NF!CreateTokenVector
  <2>2. PICK d \in NF!StoreFromTemplate(dfs, Founder, t, "TokensCache", FALSE) :
               NF!Write(d, Founder, Len(d.files), k, TRUE)
    BY <2>1 DEF NF!AddVectorRow
  <2>3. WellNamed(d, installs)
    BY <1>0, FromTemplateKeepsNames DEF NF!Names
  <2>4. UNCHANGED installs
    BY <1>5 DEF NF!CreateTokenVector, NF!Memory
  <2> QED BY <2>2, <2>3, <2>4, WriteKeepsNames DEF NamesKept
<1>6. CASE NF!CreateAllocations
  <2>1. PICK d \in NF!StoreVector(dfs, Founder, "dictionaries", "token_allocations", FALSE) : dfs' = d
    BY <1>6 DEF NF!CreateAllocations
  <2>2. WellNamed(d, installs)
    BY <1>0, StoreKeepsNames DEF NF!Names
  <2>3. UNCHANGED installs
    BY <1>6 DEF NF!CreateAllocations, NF!Memory
  <2> QED BY <2>1, <2>2, <2>3 DEF NamesKept
<1>7. \/ \E name \in NF!Names : NF!Template(name)
      \/ NF!CreateChatTemplates \/ NF!CreateUsernames \/ NF!CreateTokenVector
      \/ NF!CreateAllocations
      \/ \E n \in NF!Nodes, template \in NF!Names, name \in NF!Names :
           name # "Renames" /\ NF!FromTemplate(n, template, name)
  BY <1>0
     DEF NF!Create, NF!CreateSubscriptionTemplate, NF!CreateTokenTemplate, NF!CreateRenamesTemplate,
         NF!CreateFileIdTemplate, NF!CreateBidTemplate, NF!CreateThothTemplate,
         NF!CreateThothVector, NF!CreateSubscriptionVector, NF!CreateItemVector,
         NF!CreateChannels, NF!CreateFileIdVector, NF!Names
<1> QED BY <1>1, <1>2, <1>3, <1>4, <1>5, <1>6, <1>7

LEMMA RowsAndCopies ==
  ASSUME NamesInv, NEW n \in NF!Nodes, NEW m, NEW i, NEW k, NEW p,
         \/ NF!AddFileId(n, k) \/ NF!AddThothRecord(n, k) \/ NF!SetAllocation(k)
         \/ NF!RemoveAllocation(k) \/ NF!Announce(n, i) \/ NF!Content(n, m, i)
         \/ NF!Deliver(p) \/ NF!Finish
  PROVE  NamesKept
<1>0. /\ installs \in [NF!Nodes -> 0..MaxInstalls] /\ WellNamed(dfs, installs)
      /\ Founder \in NF!Nodes /\ Server \in NF!Nodes
  BY DEF NamesInv, NF!Nodes
<1>1. UNCHANGED installs
  BY DEF NF!AddFileId, NF!AddThothRecord, NF!SetAllocation, NF!RemoveAllocation, NF!Announce,
         NF!Content, NF!Deliver, NF!Finish, NF!Memory
<1>2. CASE NF!AddFileId(n, k)
  <2>1. UNCHANGED dfs \/ \E f : NF!Write(dfs, n, f, k, TRUE)
    BY <1>2 DEF NF!AddFileId, NF!AddVectorRow
  <2> QED BY <1>0, <1>1, <2>1, WriteKeepsNames DEF NamesKept
<1>3. CASE NF!AddThothRecord(n, k)
  <2>1. UNCHANGED dfs \/ \E f : NF!Write(dfs, n, f, k, TRUE)
    BY <1>3 DEF NF!AddThothRecord, NF!AddVectorRow
  <2> QED BY <1>0, <1>1, <2>1, WriteKeepsNames DEF NamesKept
<1>4. CASE NF!SetAllocation(k)
  <2>1. \E f : NF!Write(dfs, Founder, f, k, TRUE)
    BY <1>4 DEF NF!SetAllocation, NF!AddVectorRow
  <2> QED BY <1>0, <1>1, <2>1, WriteKeepsNames DEF NamesKept
<1>5. CASE NF!RemoveAllocation(k)
  <2>1. \E f : NF!Write(dfs, Founder, f, k, FALSE)
    BY <1>5 DEF NF!RemoveAllocation, NF!RemoveVectorRow
  <2> QED BY <1>0, <1>1, <2>1, WriteKeepsNames DEF NamesKept
<1>6. CASE NF!Announce(n, i)
  <2> DEFINE e == [dfs EXCEPT !.copy[n][i] = "known"]
  <2>1. dfs' = e
    BY <1>6 DEF NF!Announce
  <2>2. WellNamed(e, installs)
    BY <1>0, CopyKeepsNames
  <2> HIDE DEF e
  <2> QED BY <1>1, <2>1, <2>2 DEF NamesKept
<1>7. CASE NF!Content(n, m, i)
  <2> DEFINE d == [dfs EXCEPT !.rows[n][i] = NF!Newest(@ \cup dfs.rows[m][i])]
         e(c) == [d EXCEPT !.copy[n][i] = c]
  <2>1. dfs' = d \/ dfs' = e("has") \/ dfs' = e("ready")
    BY <1>7 DEF NF!Content
  <2>2. WellNamed(d, installs)
    BY <1>0, RowsKeepNames
  <2> HIDE DEF d
  <2>3. WellNamed(e("has"), installs) /\ WellNamed(e("ready"), installs)
    BY <1>0, <2>2, CopyKeepsNames
  <2> HIDE DEF e
  <2> QED BY <1>1, <2>1, <2>2, <2>3 DEF NamesKept
<1>8. CASE NF!Deliver(p)
  <2> DEFINE e == [dfs EXCEPT !.rows[p.to][p.file] = NF!Newest(@ \cup {p.row})]
  <2>1. UNCHANGED dfs \/ dfs' = e
    BY <1>8 DEF NF!Deliver
  <2>2. WellNamed(e, installs)
    BY <1>0, RowsKeepNames
  <2> HIDE DEF e
  <2> QED BY <1>0, <1>1, <2>1, <2>2 DEF NamesKept
<1>9. CASE NF!Finish
  <2> DEFINE e(f) == [dfs EXCEPT !.copy[Server][f] = "ready"]
  <2>1. \E f : dfs' = e(f)
    BY <1>9 DEF NF!Finish
  <2>2. \A f : WellNamed(e(f), installs)
    BY <1>0, CopyKeepsNames
  <2> HIDE DEF e
  <2> QED BY <1>1, <2>1, <2>2 DEF NamesKept
<1> QED BY <1>2, <1>3, <1>4, <1>5, <1>6, <1>7, <1>8, <1>9

LEMMA RenameKeepsNames ==
  ASSUME NamesInv, NEW n \in NF!Nodes, NEW k, NF!Rename(n, k)
  PROVE  NamesKept
<1>0. installs \in [NF!Nodes -> 0..MaxInstalls] /\ WellNamed(dfs, installs)
  BY DEF NamesInv
<1>1. UNCHANGED installs
  BY DEF NF!Rename
<1>2. CASE \E d \in NF!CreateRenames(n) : NF!AddVectorRow(d, n, Len(d.files), k)
  <2>1. PICK d \in NF!CreateRenames(n) : NF!Write(d, n, Len(d.files), k, TRUE)
    BY <1>2 DEF NF!AddVectorRow
  <2>2. PICK t \in NF!NetworkTemplates(n, "Renames") :
               d \in NF!StoreFromTemplate(dfs, n, t, "Renames", TRUE)
    BY <2>1 DEF NF!CreateRenames
  <2>3. WellNamed(d, installs)
    BY <1>0, <2>2, FromTemplateKeepsNames DEF NF!Names
  <2> QED BY <1>1, <2>1, <2>3, WriteKeepsNames DEF NamesKept
<1>3. CASE \E i \in NF!StatusSelf(n) : NF!AddVectorRow(dfs, n, i, k)
  BY <1>0, <1>1, <1>3, WriteKeepsNames DEF NF!AddVectorRow, NamesKept
<1> QED BY <1>2, <1>3 DEF NF!Rename

(* A new installation has made nothing yet. *)
LEMMA ReinstallKeepsNames ==
  ASSUME NamesInv, NEW n \in NF!Nodes, NF!Reinstall(n)
  PROVE  NamesInv'
<1> DEFINE C == [dfs.copy EXCEPT ![n] = [i \in 1..MaxFiles |-> "none"]]
           by == [installs EXCEPT ![n] = @ + 1]
<1>0. /\ installs \in [NF!Nodes -> 0..MaxInstalls] /\ WellNamed(dfs, installs) /\ Directory(dfs)
      /\ MaxInstalls \in Nat /\ MaxFiles \in Nat
  BY DeviceAssumption DEF NamesInv, WellNamed, NF!NamedFilesAssumption
<1>1. installs' = by /\ installs[n] < MaxInstalls
  BY DEF NF!Reinstall
<1>2. installs' \in [NF!Nodes -> 0..MaxInstalls]
  BY <1>0, <1>1
<1>3. dfs'.files = dfs.files /\ dfs'.copy = C /\ \E r : dfs' = [files |-> dfs.files, copy |-> C, rows |-> r]
  <2> DEFINE F == dfs.files
             K == dfs.copy
             R == dfs.rows
             none == [i \in 1..MaxFiles |-> "none"]
             empty == [i \in 1..MaxFiles |-> {}]
  <2>1. dfs = [files |-> F, copy |-> K, rows |-> R]
    BY <1>0 DEF Directory
  <2>2. dfs' = [dfs EXCEPT !.copy[n] = none, !.rows[n] = empty]
    BY DEF NF!Reinstall
  <2> HIDE DEF F, K, R, none, empty
  <2>3. dfs' = [files |-> F, copy |-> [K EXCEPT ![n] = none], rows |-> [R EXCEPT ![n] = empty]]
    BY <2>1, <2>2
  <2> QED BY <2>3 DEF F, K, none
<1>4. /\ C \in [NF!Nodes -> [1..MaxFiles -> {"none", "known", "has", "ready"}]]
      /\ \A m \in NF!Nodes : m # n => C[m] = dfs.copy[m]
  BY <1>0 DEF Directory
<1> HIDE DEF C
<1>5. Directory(dfs')
  BY <1>0, <1>3, <1>4 DEF Directory
<1>6. ASSUME NEW i \in DOMAIN dfs.files
      PROVE  LET f == dfs.files[i]
             IN  /\ f.private <=> Renames(f)
                 /\ f.by <= by[f.owner]
                 /\ f.by = by[f.owner] => C[f.owner][i] # "none"
  <2> DEFINE f == dfs.files[i]
  <2>1. /\ f.private <=> Renames(f)
        /\ f.by <= installs[f.owner]
        /\ f.by = installs[f.owner] => dfs.copy[f.owner][i] # "none"
    BY <1>0, Zenon DEF WellNamed
  <2>2. f.owner \in NF!Nodes /\ f.by \in Nat
    <3>1. \A g \in NF!File : g.owner \in NF!Nodes /\ g.by \in 0..MaxInstalls
      BY DEF NF!File
    <3> QED BY <1>0, <3>1 DEF Directory
  <2> HIDE DEF f
  <2>3. installs[f.owner] \in Nat
    BY <1>0, <2>2
  <2>4. CASE f.owner = n
    <3>1. by[f.owner] = installs[f.owner] + 1
      BY <1>0, <2>2, <2>4
    <3> QED BY <2>1, <2>2, <2>3, <3>1 DEF f
  <2>5. CASE f.owner # n
    <3>1. by[f.owner] = installs[f.owner] /\ C[f.owner] = dfs.copy[f.owner]
      BY <1>0, <1>4, <2>2, <2>5
    <3> QED BY <2>1, <3>1 DEF f
  <2> QED BY <2>4, <2>5
<1>7. \A i, j \in DOMAIN dfs.files : i # j => ~SameName(dfs.files[i], dfs.files[j])
  BY <1>0 DEF WellNamed
<1> HIDE DEF by
<1>8. WellNamed(dfs', by)
  BY <1>3, <1>5, <1>6, <1>7 DEF WellNamed
<1> QED BY <1>1, <1>2, <1>8 DEF NamesInv

LEMMA InitNames == NF!Init => NamesInv
<1> SUFFICES ASSUME NF!Init PROVE NamesInv
  OBVIOUS
<1>0. MaxInstalls \in Nat /\ MaxFiles \in Nat
  BY DeviceAssumption DEF NF!NamedFilesAssumption
<1>1. /\ dfs.files = <<>> /\ installs = [n \in NF!Nodes |-> 0]
      /\ dfs.copy = [n \in NF!Nodes |-> [i \in 1..MaxFiles |-> "none"]]
      /\ dfs = [files |-> dfs.files, copy |-> dfs.copy, rows |-> dfs.rows]
  BY DEF NF!Init
<1>2. Directory(dfs)
  BY <1>0, <1>1 DEF Directory
<1>3. DOMAIN dfs.files = {}
  BY <1>1
<1> QED BY <1>0, <1>1, <1>2, <1>3 DEF NamesInv, WellNamed

LEMMA NamesStep == NamesInv /\ NF!Next => NamesInv'
<1> SUFFICES ASSUME NamesInv, NF!Next PROVE NamesInv'
  OBVIOUS
<1>1. NamesKept => NamesInv'
  BY DEF NamesKept, NamesInv
<1>2. Devices \subseteq NF!Nodes
  BY DEF NF!Nodes
<1>3. UNCHANGED <<dfs, installs>> => NamesKept
  BY DEF NamesKept, NamesInv
<1>4. CASE NF!Create
  BY <1>1, <1>4, TemplatesKeepNames
<1>5. ASSUME NEW n \in Devices, NF!Reinstall(n) PROVE NamesInv'
  BY <1>2, <1>5, ReinstallKeepsNames
<1>6. ASSUME NEW n \in Devices, NF!Rename(n, NF!Renamed) PROVE NamesInv'
  BY <1>1, <1>2, <1>6, RenameKeepsNames
<1>7. ASSUME NEW n \in Devices, NEW k \in Keys, NF!AddFileId(n, k) \/ NF!AddThothRecord(n, k)
      PROVE  NamesInv'
  BY <1>1, <1>2, <1>7, RowsAndCopies
<1>8. ASSUME NEW k \in Keys, NF!SetAllocation(k) \/ NF!RemoveAllocation(k) PROVE NamesInv'
  <2>1. Server \in NF!Nodes
    BY DEF NF!Nodes
  <2> QED BY <1>1, <1>8, <2>1, RowsAndCopies
<1>9. ASSUME NEW n \in NF!Nodes, NEW m \in NF!Nodes, NEW i, NF!Announce(n, i) \/ NF!Content(n, m, i)
      PROVE  NamesInv'
  BY <1>1, <1>9, RowsAndCopies
<1>10. ASSUME NEW p, NF!Deliver(p) \/ NF!Finish PROVE NamesInv'
  <2>1. Server \in NF!Nodes
    BY DEF NF!Nodes
  <2> QED BY <1>1, <1>10, <2>1, RowsAndCopies
<1>11. ASSUME \/ \E n \in Devices : NF!ReadRenames(n)
              \/ \E n \in NF!Nodes : NF!Restart(n)
              \/ NF!StartThoth \/ NF!StopThoth
              \/ \E t \in NF!Threads : NF!Lookup(t) \/ NF!Select(t) \/ NF!Insert(t)
              \/ NF!Waited \/ NF!Bind \/ NF!Check \/ NF!Record
       PROVE  NamesInv'
  <2>1. UNCHANGED <<dfs, installs>>
    BY <1>11 DEF NF!ReadRenames, NF!Restart, NF!StartThoth, NF!StopThoth, NF!Lookup, NF!Select,
                 NF!Insert, NF!Waited, NF!Bind, NF!Check, NF!Record
  <2> QED BY <1>1, <1>3, <2>1
<1> QED
  BY <1>4, <1>5, <1>6, <1>7, <1>8, <1>9, <1>10, <1>11 DEF NF!Next, NF!Backfill

(* Whatever a restart has forgotten, and whatever arrives when, no         *)
(* installation makes two files of one name in one folder, sealed names    *)
(* included (store_vector, search_file_by_folder_and_name).                *)
THEOREM NoNameTwice == DeviceSpec => []NamesUnique
<1>1. DeviceInit => NamesInv
  BY InitNames DEF DeviceInit
<1>2. NamesInv
        /\ [DeviceNext]_<<part, vars, filesVars, transactionsVars, rewardsVars, messagesVars>>
      => NamesInv'
  <2>1. ASSUME NamesInv, UNCHANGED filesVars PROVE NamesInv'
    BY <2>1 DEF filesVars, NamesInv
  <2> QED
    BY <2>1, NamesStep
       DEF DeviceNext, StepProfiles, StepFiles, StepTransactions, StepRewards, StepMessages
<1>3. NamesInv => NamesUnique
  BY DEF NamesInv, WellNamed, SameName, NamesUnique, NF!NamesUnique
<1> QED BY <1>1, <1>2, <1>3, PTL DEF DeviceSpec

------------------------------------------------------------------------------
(* Thoth.  A record of a complete vector that Thoth does not know yet is on *)
(* its way there: the vector will be read again, it has been read, or the   *)
(* record is the one that was just received.                                *)

IsVector(f) == f.folder = "vectors" /\ f.name = "Thoth"

(* Only the founder makes such a vector; what the server has is a file. *)
Placed(d) ==
  /\ \A i \in DOMAIN d.files : IsVector(d.files[i]) => d.files[i].owner = Founder
  /\ \A i \in 1..MaxFiles : d.copy[Server][i] # "none" => i \in DOMAIN d.files
  /\ \E R : d.rows \in [NF!Nodes -> [1..MaxFiles -> R]]

(* The calls that each thread makes. *)
Reads(s) ==
  s = [do |-> s.do, mine |-> s.mine, got |-> s.got] /\ s.do \in {"lookup", "select", "insert"}

Simple(do) == NF!Step(do, FALSE, {})
BindLast == Simple("bind")

AppCalls(c) == c = <<>> \/ \E s : Reads(s) /\ s.mine = FALSE /\ c = <<s>>

DfsCalls(c) ==
  \/ AppCalls(c)
  \/ c = <<Simple("finish")>> \/ c = <<Simple("waited"), BindLast>> \/ c = <<BindLast>>
  \/ \E s : Reads(s) /\ c = <<s, BindLast>>

NetCalls(c) ==
  c = <<>> \/ \E q, do : do \in {"check", "record"} /\ c = <<NF!Step(do, FALSE, {q})>>

Called ==
  /\ thread = [t \in NF!Threads |-> thread[t]]
  /\ AppCalls(thread["App"]) /\ DfsCalls(thread["Dfs"]) /\ NetCalls(thread["Net"])

(* The vector will be read again. *)
Ends(c) == c # <<>> /\ c[Len(c)].do \in {"finish", "bind"}
Reading(c, do) == c # <<>> /\ c[1].do = do /\ c[1].mine = FALSE
Again ==
  Ends(thread["Dfs"]) \/ Reading(thread["App"], "lookup") \/ Reading(thread["Dfs"], "lookup")

(* A thread will read r or has read it. *)
Holds(c, r) == c # <<>> /\ c[1].do = "insert" /\ \E q \in c[1].got : q.key = r.key
Got(r) == \E t \in {"App", "Dfs"} : Reading(thread[t], "select") \/ Holds(thread[t], r)

Seen(r) == thread["Net"] # <<>> /\ \E q \in thread["Net"][1].got : q.live /\ NF!SameRow(r, q)

Knows(r) == \E x \in thoth.infos : x[1] = r.key

Sure(i) ==
  /\ thoth.bound = i \/ Again
  /\ \A r \in NF!LiveRows(dfs, Server, i) :
       r.by # Server => Knows(r) \/ Again \/ Got(r) \/ Seen(r)

Informed ==
  thoth.enabled =>
    \A i \in NF!ThothFiles(Server) : dfs.copy[Server][i] = "ready" => Sure(i)

Listening ==
  /\ thoth = [enabled |-> thoth.enabled, bound |-> thoth.bound, infos |-> thoth.infos]
  /\ thoth.enabled \in BOOLEAN
  /\ thoth.bound = 0 \/ thoth.bound \in NF!ThothFiles(Server)

ThothInv ==
  NamesInv /\ installs[Founder] = 0 /\ Placed(dfs) /\ Called /\ Listening /\ Informed

(* The nodes and the bound on files. *)
LEMMA ThothNodes ==
  /\ Founder \in NF!Nodes /\ Server \in NF!Nodes /\ Devices \subseteq NF!Nodes
  /\ Founder # Server /\ Founder \notin Devices /\ Server \notin Devices /\ MaxFiles \in Nat
BY DeviceAssumption DEF NF!NamedFilesAssumption, NF!Nodes

(* The server knows at most one vector of Thoth. *)
LEMMA OneVector ==
  ASSUME NamesInv, installs[Founder] = 0, Placed(dfs)
  PROVE  /\ \A i, j \in NF!ThothFiles(Server) : i = j
         /\ \A i \in NF!ThothFiles(Server) : i \in DOMAIN dfs.files /\ i \in 1..MaxFiles
         /\ \A i \in DOMAIN dfs.files :
              NF!IsThoth(i) /\ dfs.copy[Server][i] # "none" => i \in NF!ThothFiles(Server)
<1>1. /\ WellNamed(dfs, installs) /\ dfs.files \in Seq(NF!File) /\ Len(dfs.files) <= MaxFiles
  BY DEF NamesInv, WellNamed, Directory
<1>2. DOMAIN dfs.files \subseteq 1..MaxFiles
  BY <1>1, ThothNodes
<1>3. \A f \in NF!File : f.by \in Nat /\ f.private \in BOOLEAN
  BY DEF NF!File
<1>4. \A i \in DOMAIN dfs.files : dfs.files[i] \in NF!File
  BY <1>1
<1>5. \A i \in DOMAIN dfs.files :
        /\ dfs.files[i].private <=> Renames(dfs.files[i])
        /\ dfs.files[i].by <= installs[dfs.files[i].owner]
  BY <1>1, Zenon DEF WellNamed
<1>6. \A i, j \in DOMAIN dfs.files : i # j => ~SameName(dfs.files[i], dfs.files[j])
  BY <1>1 DEF WellNamed
<1>7. \A i \in NF!ThothFiles(Server) :
        /\ i \in DOMAIN dfs.files /\ dfs.files[i].owner = Founder /\ dfs.files[i].folder = "vectors"
        /\ dfs.files[i].name = "Thoth"
  BY DEF NF!ThothFiles, NF!Search
<1>8. \A i \in NF!ThothFiles(Server) : dfs.files[i].by = 0
  BY <1>3, <1>4, <1>5, <1>7
<1>9. \A i, j \in NF!ThothFiles(Server) : i = j
  BY <1>6, <1>7, <1>8 DEF SameName
<1>10. ASSUME NEW i \in DOMAIN dfs.files, NF!IsThoth(i), dfs.copy[Server][i] # "none"
       PROVE  i \in NF!ThothFiles(Server)
  <2>1. dfs.files[i].owner = Founder
    BY <1>10 DEF Placed, IsVector, NF!IsThoth
  <2>2. ~dfs.files[i].private
    BY <1>5, <1>10 DEF Renames, NF!IsThoth
  <2> QED BY <1>10, <2>1, <2>2 DEF NF!ThothFiles, NF!Search, NF!IsThoth
<1> QED BY <1>2, <1>7, <1>9, <1>10

(* What other nodes do leaves what the server has as it is. *)
AsBefore(d, e) ==
  /\ Directory(e) /\ Placed(e)
  /\ e.copy[Server] = d.copy[Server] /\ e.rows[Server] = d.rows[Server]
  /\ \A i \in DOMAIN d.files : i \in DOMAIN e.files /\ e.files[i] = d.files[i]

(* Steps of other nodes leave the server the same vector ... *)
LEMMA SameFiles ==
  ASSUME Placed(dfs), AsBefore(dfs, dfs')
  PROVE  NF!ThothFiles(Server)' = NF!ThothFiles(Server)
<1>1. DOMAIN dfs'.files \subseteq 1..MaxFiles
  BY ThothNodes DEF AsBefore, Directory
<1>2. ASSUME NEW i \in DOMAIN dfs'.files, dfs'.copy[Server][i] # "none" PROVE i \in DOMAIN dfs.files
  BY <1>1, <1>2 DEF AsBefore, Placed
<1> QED BY <1>2 DEF AsBefore, NF!ThothFiles, NF!Search

(* ... and Thoth what it knows. *)
LEMMA Elsewhere ==
  ASSUME ThothInv, NamesInv', UNCHANGED installs[Founder], AsBefore(dfs, dfs'),
         UNCHANGED <<thoth, thread>>
  PROVE  ThothInv'
<1>1. NF!ThothFiles(Server)' = NF!ThothFiles(Server)
  BY SameFiles DEF ThothInv
<1>2. Placed(dfs') /\ dfs'.copy[Server] = dfs.copy[Server] /\ dfs'.rows[Server] = dfs.rows[Server]
  BY DEF AsBefore
<1>3. \A i : NF!LiveRows(dfs, Server, i)' = NF!LiveRows(dfs, Server, i)
  BY <1>2 DEF NF!LiveRows, NF!Loads
<1>4. Called' /\ Listening'
  BY <1>1 DEF ThothInv, Called, Listening
<1>5. /\ Again <=> Again'
      /\ \A r : (Got(r) <=> Got(r)') /\ (Seen(r) <=> Seen(r)') /\ (Knows(r) <=> Knows(r)')
  BY DEF Again, Got, Seen, Knows
<1>6. \A i : Sure(i) => Sure(i)'
  BY <1>3, <1>5 DEF Sure
<1>7. Informed'
  BY <1>1, <1>2, <1>6 DEF ThothInv, Informed
<1> QED BY <1>2, <1>4, <1>7 DEF ThothInv

(* A new file, a row and a copy of another node. *)
LEMMA MadeByOthers ==
  ASSUME NEW d, Directory(d), Placed(d), installs \in [NF!Nodes -> 0..MaxInstalls],
         NEW n \in NF!Nodes, n # Server, NEW folder \in {"templates", "vectors", "dictionaries"},
         NEW name \in NF!Names, NEW private \in BOOLEAN, Len(d.files) < MaxFiles,
         folder = "vectors" /\ name = "Thoth" => n = Founder
  PROVE  AsBefore(d, NF!Made(d, n, folder, name, private))
<1> DEFINE k == Len(d.files) + 1
           g == [owner |-> n, folder |-> folder, name |-> name, private |-> private,
                 by |-> installs[n]]
           e == NF!Made(d, n, folder, name, private)
           F == d.files
           C == d.copy
           R == d.rows
<1>1. Len(F) \in Nat /\ k \in 1..MaxFiles /\ DOMAIN F = 1..Len(F) /\ F \in Seq(NF!File)
  BY ThothNodes DEF Directory
<1>2. g \in NF!File /\ (IsVector(g) => g.owner = Founder)
  BY DEF NF!File, IsVector
<1>3. e = [files |-> Append(F, g), copy |-> [C EXCEPT ![n][k] = "ready"], rows |-> R]
  <2>1. d = [files |-> F, copy |-> C, rows |-> R]
    BY DEF Directory
  <2>2. e = [d EXCEPT !.files = Append(d.files, g), !.copy[n][k] = "ready"]
    BY DEF NF!Made
  <2>3. d.files = F /\ d.copy = C /\ d.rows = R
    OBVIOUS
  <2> HIDE DEF F, C, R, g, e, k
  <2>4. e = [files |-> Append(F, g), copy |-> [C EXCEPT ![n][k] = "ready"], rows |-> R]
    BY <2>1, <2>2, <2>3
  <2> QED BY <2>3, <2>4
<1> HIDE DEF g, e
<1>4. /\ e.files \in Seq(NF!File) /\ Len(e.files) <= MaxFiles
      /\ DOMAIN e.files = DOMAIN F \cup {k} /\ e.files[k] = g
      /\ \A i \in DOMAIN F : e.files[i] = F[i]
  BY <1>1, <1>2, <1>3, ThothNodes DEF Directory
<1>5. C \in [NF!Nodes -> [1..MaxFiles -> {"none", "known", "has", "ready"}]]
  BY DEF Directory
<1>6. e.copy = [C EXCEPT ![n][k] = "ready"] /\ e.rows = R
  BY <1>3
<1>7. /\ e.copy \in [NF!Nodes -> [1..MaxFiles -> {"none", "known", "has", "ready"}]]
      /\ e.copy[Server] = C[Server]
  <2> HIDE DEF C, k
  <2> QED BY <1>1, <1>5, <1>6, ThothNodes
<1>8. Directory(e)
  BY <1>3, <1>4, <1>7 DEF Directory
<1>9. Placed(e)
  BY <1>2, <1>4, <1>6, <1>7 DEF Placed
<1> QED BY <1>4, <1>6, <1>7, <1>8, <1>9 DEF AsBefore, e

LEMMA RowsOfOthers ==
  ASSUME NEW d, Directory(d), Placed(d), NEW n, n # Server, NEW i, NEW x
  PROVE  AsBefore(d, [d EXCEPT !.rows[n][i] = x])
<1> DEFINE e == [d EXCEPT !.rows[n][i] = x]
           F == d.files
           C == d.copy
           R == d.rows
<1>1. d = [files |-> F, copy |-> C, rows |-> R]
  BY DEF Directory
<1>2. PICK T : R \in [NF!Nodes -> [1..MaxFiles -> T]]
  BY DEF Placed
<1>3. e = [files |-> F, copy |-> C, rows |-> [R EXCEPT ![n][i] = x]]
  <2> HIDE DEF F, C, R
  <2> QED BY <1>1
<1> HIDE DEF e
<1>4. e.files = F /\ e.copy = C /\ e.rows = [R EXCEPT ![n][i] = x]
  BY <1>3
<1>5. [R EXCEPT ![n][i] = x] \in [NF!Nodes -> [1..MaxFiles -> T \cup {x}]]
  <2> HIDE DEF R
  <2>1. \A m \in NF!Nodes : [R[m] EXCEPT ![i] = x] \in [1..MaxFiles -> T \cup {x}]
    BY <1>2
  <2>2. \A m \in NF!Nodes : R[m] \in [1..MaxFiles -> T \cup {x}]
    BY <1>2
  <2> QED BY <1>2, <2>1, <2>2
<1>6. [R EXCEPT ![n][i] = x][Server] = R[Server]
  <2> HIDE DEF R
  <2> QED BY <1>2, ThothNodes
<1>7. Directory(e)
  BY <1>3, <1>4 DEF Directory
<1>8. Placed(e)
  <2>1. \E S : e.rows \in [NF!Nodes -> [1..MaxFiles -> S]]
    BY <1>4, <1>5
  <2> QED BY <1>4, <2>1 DEF Placed
<1> QED BY <1>4, <1>6, <1>7, <1>8 DEF AsBefore, e

LEMMA CopiesOfOthers ==
  ASSUME NEW d, Directory(d), Placed(d), NEW n \in NF!Nodes, n # Server, NEW i,
         NEW c \in {"known", "has", "ready"}
  PROVE  AsBefore(d, [d EXCEPT !.copy[n][i] = c])
<1> DEFINE e == [d EXCEPT !.copy[n][i] = c]
           F == d.files
           C == d.copy
           R == d.rows
<1>1. d = [files |-> F, copy |-> C, rows |-> R]
  BY DEF Directory
<1>2. e = [files |-> F, copy |-> [C EXCEPT ![n][i] = c], rows |-> R]
  <2> HIDE DEF F, C, R
  <2> QED BY <1>1
<1> HIDE DEF e
<1>3. C \in [NF!Nodes -> [1..MaxFiles -> {"none", "known", "has", "ready"}]]
  BY DEF Directory
<1>4. e.files = F /\ e.rows = R /\ e.copy = [C EXCEPT ![n][i] = c]
  BY <1>2
<1> HIDE DEF C
<1>5. e.copy \in [NF!Nodes -> [1..MaxFiles -> {"none", "known", "has", "ready"}]]
  BY <1>3, <1>4, ZenonT(30)
<1>6. e.copy[Server] = C[Server]
  BY <1>3, <1>4, ThothNodes
<1> USE DEF C
<1>7. Directory(e)
  BY <1>2, <1>4, <1>5 DEF Directory
<1>8. Placed(e)
  BY <1>4, <1>6 DEF Placed
<1> QED BY <1>4, <1>6, <1>7, <1>8 DEF AsBefore, e

LEMMA BeforeBefore ==
  ASSUME NEW a, NEW b, NEW c, AsBefore(a, b), AsBefore(b, c)
  PROVE  AsBefore(a, c)
BY DEF AsBefore

(* The store calls of other nodes, and a row that one writes. *)
LEMMA StoreByOthers ==
  ASSUME NEW d, Directory(d), Placed(d), installs \in [NF!Nodes -> 0..MaxInstalls],
         NEW n \in NF!Nodes, n # Server, NEW name \in NF!Names
  PROVE  /\ \A e \in NF!StoreTemplate(d, n, name) : AsBefore(d, e)
         /\ \A folder \in {"vectors", "dictionaries"}, private \in BOOLEAN :
              (folder = "vectors" /\ name = "Thoth" => n = Founder) =>
                \A e \in NF!StoreVector(d, n, folder, name, private) : AsBefore(d, e)
BY MadeByOthers DEF NF!StoreTemplate, NF!StoreVector

LEMMA FromTemplateByOthers ==
  ASSUME NEW d, Directory(d), Placed(d), installs \in [NF!Nodes -> 0..MaxInstalls],
         NEW n \in NF!Nodes, n # Server, NEW name \in NF!Names, name = "Thoth" => n = Founder,
         NEW t, NEW private \in BOOLEAN, NEW e \in NF!StoreFromTemplate(d, n, t, name, private)
  PROVE  AsBefore(d, e)
<1>1. e \in NF!StoreVector(d, n, "vectors", name, private)
  BY DEF NF!StoreFromTemplate
<1> QED BY <1>1, StoreByOthers

LEMMA WriteByOthers ==
  ASSUME NEW d, Directory(d), Placed(d), NEW n, n # Server, NEW i, NEW k, NEW live,
         NF!Write(d, n, i, k, live)
  PROVE  AsBefore(d, dfs')
<1>1. PICK x : dfs' = [d EXCEPT !.rows[n][i] = x]
  BY DEF NF!Write
<1>2. AsBefore(d, [d EXCEPT !.rows[n][i] = x])
  BY RowsOfOthers
<1> QED BY <1>1, <1>2

NothingHere == AsBefore(dfs, dfs') /\ UNCHANGED <<thoth, thread, installs[Founder]>>

(* The steps that are not of the server. *)
LEMMA CreatedElsewhere == ThothInv /\ NF!Create => NothingHere
<1> SUFFICES ASSUME ThothInv, NF!Create PROVE NothingHere
  OBVIOUS
<1>0. /\ installs \in [NF!Nodes -> 0..MaxInstalls] /\ Directory(dfs) /\ Placed(dfs)
      /\ Founder \in NF!Nodes /\ Devices \subseteq NF!Nodes
      /\ Founder # Server /\ Server \notin Devices
  BY ThothNodes DEF ThothInv, NamesInv, WellNamed
<1>1. ASSUME NEW name \in NF!Names, NF!Template(name) PROVE NothingHere
  BY <1>0, <1>1, StoreByOthers DEF NF!Template, NF!Memory, NothingHere
<1>2. ASSUME NEW n \in NF!Nodes, NEW template \in NF!Names, NEW name \in NF!Names, n # Server,
             name = "Thoth" => n = Founder, NF!FromTemplate(n, template, name)
      PROVE  NothingHere
  <2>1. PICK t \in NF!NetworkTemplates(n, template) :
          \E d \in NF!StoreFromTemplate(dfs, n, t, name, FALSE) :
            dfs' = d /\ UNCHANGED <<thoth, thread, installs>>
    BY <1>2 DEF NF!FromTemplate, NF!Memory
  <2> QED BY <1>0, <1>2, <2>1, FromTemplateByOthers DEF NothingHere
<1>3. CASE NF!CreateChatTemplates
  <2>1. PICK a \in NF!StoreTemplate(dfs, Founder, "MyChats") :
          LET b == NF!StoreTemplate(a, Founder, "Chat")
          IN dfs' = IF b = {} THEN a ELSE CHOOSE d \in b : TRUE
    BY <1>3 DEF NF!CreateChatTemplates
  <2> DEFINE b == NF!StoreTemplate(a, Founder, "Chat")
  <2>2. AsBefore(dfs, a)
    BY <1>0, StoreByOthers DEF NF!Names
  <2>3. \A e \in b : AsBefore(a, e)
    <3>1. Directory(a) /\ Placed(a)
      BY <2>2 DEF AsBefore
    <3> QED BY <1>0, <3>1, StoreByOthers DEF NF!Names
  <2>4. dfs' = a \/ dfs' \in b
    BY <2>1
  <2>5. UNCHANGED <<thoth, thread, installs>>
    BY <1>3 DEF NF!CreateChatTemplates, NF!Memory
  <2> HIDE DEF b
  <2> QED BY <2>2, <2>3, <2>4, <2>5, BeforeBefore DEF NothingHere
<1>4. CASE NF!CreateUsernames
  <2>1. PICK a \in NF!StoreTemplate(dfs, Founder, "Usernames") :
          LET b == NF!StoreFromTemplate(a, Founder, Len(a.files), "Usernames", FALSE)
          IN dfs' = IF b = {} THEN a ELSE CHOOSE d \in b : TRUE
    BY <1>4 DEF NF!CreateUsernames
  <2> DEFINE b == NF!StoreFromTemplate(a, Founder, Len(a.files), "Usernames", FALSE)
  <2>2. AsBefore(dfs, a)
    BY <1>0, StoreByOthers DEF NF!Names
  <2>3. \A e \in b : AsBefore(a, e)
    <3>1. Directory(a) /\ Placed(a)
      BY <2>2 DEF AsBefore
    <3> QED BY <1>0, <3>1, FromTemplateByOthers DEF NF!Names
  <2>4. dfs' = a \/ dfs' \in b
    BY <2>1
  <2>5. UNCHANGED <<thoth, thread, installs>>
    BY <1>4 DEF NF!CreateUsernames, NF!Memory
  <2> HIDE DEF b
  <2> QED BY <2>2, <2>3, <2>4, <2>5, BeforeBefore DEF NothingHere
<1>5. CASE NF!CreateTokenVector
  <2>1. PICK t \in NF!NetworkTemplates(Founder, "TokensCache"), k \in Keys :
          \E d \in NF!StoreFromTemplate(dfs, Founder, t, "TokensCache", FALSE) :
            NF!AddVectorRow(d, Founder, Len(d.files), k)
    BY <1>5 DEF NF!CreateTokenVector
  <2>2. PICK d \in NF!StoreFromTemplate(dfs, Founder, t, "TokensCache", FALSE) :
               NF!Write(d, Founder, Len(d.files), k, TRUE)
    BY <2>1 DEF NF!AddVectorRow
  <2>3. AsBefore(dfs, d)
    BY <1>0, FromTemplateByOthers DEF NF!Names
  <2>4. AsBefore(d, dfs')
    BY <1>0, <2>2, <2>3, WriteByOthers DEF AsBefore
  <2>5. UNCHANGED <<thoth, thread, installs>>
    BY <1>5 DEF NF!CreateTokenVector, NF!Memory
  <2> QED BY <2>3, <2>4, <2>5, BeforeBefore DEF NothingHere
<1>6. CASE NF!CreateAllocations
  <2>1. PICK d \in NF!StoreVector(dfs, Founder, "dictionaries", "token_allocations", FALSE) : dfs' = d
    BY <1>6 DEF NF!CreateAllocations
  <2>2. AsBefore(dfs, d)
    BY <1>0, StoreByOthers DEF NF!Names
  <2>3. UNCHANGED <<thoth, thread, installs>>
    BY <1>6 DEF NF!CreateAllocations, NF!Memory
  <2> QED BY <2>1, <2>2, <2>3 DEF NothingHere
<1>7. \/ \E name \in NF!Names : NF!Template(name)
      \/ NF!CreateChatTemplates \/ NF!CreateUsernames \/ NF!CreateTokenVector
      \/ NF!CreateAllocations
      \/ \E n \in NF!Nodes, template \in NF!Names, name \in NF!Names :
           n # Server /\ (name = "Thoth" => n = Founder) /\ NF!FromTemplate(n, template, name)
  BY <1>0
     DEF NF!Create, NF!CreateSubscriptionTemplate, NF!CreateTokenTemplate, NF!CreateRenamesTemplate,
         NF!CreateFileIdTemplate, NF!CreateBidTemplate, NF!CreateThothTemplate,
         NF!CreateThothVector, NF!CreateSubscriptionVector, NF!CreateItemVector,
         NF!CreateChannels, NF!CreateFileIdVector, NF!Names
<1> QED BY <1>1, <1>2, <1>3, <1>4, <1>5, <1>6, <1>7

LEMMA RowsElsewhere ==
  ASSUME ThothInv, NEW n \in NF!Nodes \ {Server}, NEW m, NEW i, NEW k, NEW p,
         \/ n \in Devices /\ (NF!AddFileId(n, k) \/ NF!AddThothRecord(n, k))
         \/ NF!SetAllocation(k) \/ NF!RemoveAllocation(k)
         \/ NF!Announce(n, i) \/ NF!Content(n, m, i)
         \/ p.to # Server /\ NF!Deliver(p)
  PROVE  NothingHere
<1>0. /\ Directory(dfs) /\ Placed(dfs) /\ Founder # Server /\ AsBefore(dfs, dfs)
  BY ThothNodes DEF ThothInv, NamesInv, WellNamed, AsBefore
<1>1. UNCHANGED <<thoth, installs>>
  BY DEF NF!AddFileId, NF!AddThothRecord, NF!SetAllocation, NF!RemoveAllocation, NF!Announce,
         NF!Content, NF!Deliver, NF!Memory
<1>2. CASE NF!AddFileId(n, k) \/ NF!AddThothRecord(n, k)
  <2>1. UNCHANGED thread /\ (UNCHANGED dfs \/ \E f : NF!Write(dfs, n, f, k, TRUE))
    BY <1>2 DEF NF!AddFileId, NF!AddThothRecord, NF!AddVectorRow
  <2> QED BY <1>0, <1>1, <2>1, WriteByOthers DEF NothingHere
<1>4. CASE NF!SetAllocation(k) \/ NF!RemoveAllocation(k)
  <2>1. UNCHANGED thread /\ \E f, live : NF!Write(dfs, Founder, f, k, live)
    BY <1>4 DEF NF!SetAllocation, NF!RemoveAllocation, NF!AddVectorRow, NF!RemoveVectorRow, NF!Memory
  <2> QED BY <1>0, <1>1, <2>1, WriteByOthers DEF NothingHere
<1>6. CASE NF!Announce(n, i)
  <2> DEFINE e == [dfs EXCEPT !.copy[n][i] = "known"]
  <2>1. dfs' = e /\ UNCHANGED thread
    BY <1>6 DEF NF!Announce, NF!Memory
  <2>2. AsBefore(dfs, e)
    BY <1>0, CopiesOfOthers
  <2> HIDE DEF e
  <2> QED BY <1>1, <2>1, <2>2 DEF NothingHere
<1>7. CASE NF!Content(n, m, i)
  <2> DEFINE d == [dfs EXCEPT !.rows[n][i] = NF!Newest(@ \cup dfs.rows[m][i])]
             e(c) == [d EXCEPT !.copy[n][i] = c]
  <2>1. (dfs' = d \/ dfs' = e("has") \/ dfs' = e("ready")) /\ UNCHANGED thread
    BY <1>7 DEF NF!Content
  <2>2. AsBefore(dfs, d)
    BY <1>0, RowsOfOthers
  <2> HIDE DEF d
  <2>3. AsBefore(d, e("has")) /\ AsBefore(d, e("ready"))
    <3>1. Directory(d) /\ Placed(d)
      BY <2>2 DEF AsBefore
    <3> QED BY <1>0, <3>1, CopiesOfOthers
  <2> HIDE DEF e
  <2> QED BY <1>1, <2>1, <2>2, <2>3, BeforeBefore DEF NothingHere
<1>8. CASE p.to # Server /\ NF!Deliver(p)
  <2> DEFINE e == [dfs EXCEPT !.rows[p.to][p.file] = NF!Newest(@ \cup {p.row})]
  <2>1. (UNCHANGED dfs \/ dfs' = e) /\ UNCHANGED thread
    BY <1>8 DEF NF!Deliver
  <2>2. AsBefore(dfs, e)
    BY <1>0, <1>8, RowsOfOthers
  <2> HIDE DEF e
  <2> QED BY <1>0, <1>1, <2>1, <2>2 DEF NothingHere
<1> QED BY <1>2, <1>4, <1>6, <1>7, <1>8

LEMMA RenamedElsewhere ==
  ASSUME ThothInv, NEW n \in Devices, NEW k,
         NF!Rename(n, k) \/ NF!ReadRenames(n) \/ NF!Restart(n)
  PROVE  NothingHere
<1>0. /\ installs \in [NF!Nodes -> 0..MaxInstalls] /\ Directory(dfs) /\ Placed(dfs)
      /\ n \in NF!Nodes /\ n # Server /\ AsBefore(dfs, dfs)
  BY ThothNodes DEF ThothInv, NamesInv, WellNamed, AsBefore
<1>1. UNCHANGED <<thoth, thread, installs>>
  BY <1>0 DEF NF!Rename, NF!ReadRenames, NF!Restart
<1>2. CASE NF!ReadRenames(n) \/ NF!Restart(n)
  BY <1>0, <1>1, <1>2 DEF NF!ReadRenames, NF!Restart, NothingHere
<1>3. CASE NF!Rename(n, k)
  <2>1. CASE \E d \in NF!CreateRenames(n) : NF!AddVectorRow(d, n, Len(d.files), k)
    <3>1. PICK d \in NF!CreateRenames(n) : NF!Write(d, n, Len(d.files), k, TRUE)
      BY <2>1 DEF NF!AddVectorRow
    <3>2. PICK t \in NF!NetworkTemplates(n, "Renames") :
                 d \in NF!StoreFromTemplate(dfs, n, t, "Renames", TRUE)
      BY <3>1 DEF NF!CreateRenames
    <3>3. AsBefore(dfs, d)
      BY <1>0, <3>2, FromTemplateByOthers DEF NF!Names
    <3>4. AsBefore(d, dfs')
      BY <1>0, <3>1, <3>3, WriteByOthers DEF AsBefore
    <3> QED BY <1>1, <3>3, <3>4, BeforeBefore DEF NothingHere
  <2>2. CASE \E i \in NF!StatusSelf(n) : NF!AddVectorRow(dfs, n, i, k)
    BY <1>0, <1>1, <2>2, WriteByOthers DEF NF!AddVectorRow, NothingHere
  <2> QED BY <1>3, <2>1, <2>2 DEF NF!Rename
<1> QED BY <1>2, <1>3

LEMMA ReinstalledElsewhere ==
  ASSUME ThothInv, NamesInv', NEW n \in Devices, NF!Reinstall(n)
  PROVE  NothingHere
<1> DEFINE F == dfs.files
           K == dfs.copy
           R == dfs.rows
           none == [i \in 1..MaxFiles |-> "none"]
           empty == [i \in 1..MaxFiles |-> {}]
<1>0. /\ Directory(dfs) /\ Placed(dfs) /\ Directory(dfs')
      /\ n \in NF!Nodes /\ n # Server /\ n # Founder
  BY ThothNodes DEF ThothInv, NamesInv, WellNamed
<1>1. dfs' = [files |-> F, copy |-> [K EXCEPT ![n] = none], rows |-> [R EXCEPT ![n] = empty]]
  <2>1. dfs = [files |-> F, copy |-> K, rows |-> R]
    BY <1>0 DEF Directory
  <2>2. dfs' = [dfs EXCEPT !.copy[n] = none, !.rows[n] = empty]
    BY DEF NF!Reinstall
  <2> HIDE DEF F, K, R, none, empty
  <2> QED BY <2>1, <2>2
<1>2. PICK T : R \in [NF!Nodes -> [1..MaxFiles -> T]]
  BY <1>0 DEF Placed
<1>3. empty \in [1..MaxFiles -> T \cup {{}}]
  OBVIOUS
<1>4. [R EXCEPT ![n] = empty] \in [NF!Nodes -> [1..MaxFiles -> T \cup {{}}]]
  <2> HIDE DEF R, empty
  <2>1. \A m \in NF!Nodes : R[m] \in [1..MaxFiles -> T \cup {{}}]
    BY <1>2
  <2> QED BY <1>2, <1>3, <2>1
<1>5. dfs'.files = F /\ dfs'.copy[Server] = K[Server] /\ dfs'.rows[Server] = R[Server]
  <2>1. DOMAIN K = NF!Nodes /\ DOMAIN R = NF!Nodes
    BY <1>0, <1>2 DEF Directory
  <2> HIDE DEF F, K, R, none, empty
  <2> QED BY <1>0, <1>1, <2>1, ThothNodes
<1>6. Placed(dfs')
  <2>1. \E S : dfs'.rows \in [NF!Nodes -> [1..MaxFiles -> S]]
    BY <1>1, <1>4
  <2> QED BY <1>0, <1>5, <2>1 DEF Placed
<1>7. AsBefore(dfs, dfs')
  BY <1>0, <1>5, <1>6 DEF AsBefore
<1>8. UNCHANGED installs[Founder]
  BY <1>0, ThothNodes DEF NF!Reinstall, ThothInv, NamesInv
<1>9. UNCHANGED <<thoth, thread>>
  BY DEF NF!Reinstall
<1> QED BY <1>7, <1>8, <1>9 DEF NothingHere

(* Short sequences: the calls of the server's threads have at most two steps. *)
LEMMA ShortCalls ==
  ASSUME NEW s, NEW b, NEW x, NEW y
  PROVE  /\ Head(<<s>>) = s /\ Tail(<<s>>) = <<>> /\ Head(<<s, b>>) = s /\ Tail(<<s, b>>) = <<b>>
         /\ Len(<<s>>) = 1 /\ Len(<<s, b>>) = 2 /\ <<s>> # <<>> /\ <<s, b>> # <<>>
         /\ <<>> \o <<>> = <<>> /\ <<x>> \o <<>> = <<x>> /\ <<x, y>> \o <<>> = <<x, y>>
         /\ <<>> \o <<b>> = <<b>> /\ <<x>> \o <<b>> = <<x, b>>
         /\ <<s>>[1] = s /\ <<s, b>>[1] = s /\ <<s, b>>[2] = b
<1> DEFINE S == {s, b, x, y}
<1>0. s \in S /\ b \in S /\ x \in S /\ y \in S
  OBVIOUS
<1> HIDE DEF S
<1>1. Len(<<s>>) = 1 /\ Len(<<s, b>>) = 2 /\ <<s>> # <<>> /\ <<s, b>> # <<>>
  OBVIOUS
<1>2. <<s>>[1] = s /\ <<s, b>>[1] = s /\ <<s, b>>[2] = b
  OBVIOUS
<1>3. Head(<<s>>) = s /\ Head(<<s, b>>) = s
  OBVIOUS
<1>4. Tail(<<s>>) = <<>>
  OBVIOUS
<1>5. Tail(<<s, b>>) = <<b>>
  OBVIOUS
<1>6. <<>> \o <<>> = <<>>
  OBVIOUS
<1>7. <<x>> \o <<>> = <<x>>
  BY <1>0
<1>8. <<x, y>> \o <<>> = <<x, y>>
  BY <1>0
<1>9. <<>> \o <<b>> = <<b>>
  BY <1>0
<1>10. <<x>> \o <<b>> = <<x, b>>
  <2>1. <<x>> \in Seq(S) /\ <<b>> \in Seq(S)
    BY <1>0
  <2>2. <<x, b>> \in Seq(S)
    BY <1>0
  <2>3. /\ <<x>> \o <<b>> \in Seq(S) /\ Len(<<x>> \o <<b>>) = 2
        /\ (<<x>> \o <<b>>)[1] = x /\ (<<x>> \o <<b>>)[2] = b
    BY <2>1, ConcatProperties
  <2>4. \A i \in 1..2 : (<<x>> \o <<b>>)[i] = <<x, b>>[i]
    BY <1>2, <2>3
  <2> QED BY <2>2, <2>3, <2>4, SeqEqual
<1> QED BY <1>1, <1>2, <1>3, <1>4, <1>5, <1>6, <1>7, <1>8, <1>9, <1>10

LEMMA Simples ==
  /\ \A do : Simple(do).do = do /\ Simple(do).mine = FALSE
  /\ BindLast.do = "bind"
  /\ \A do, mine, got : LET s == NF!Step(do, mine, got)
                        IN  s.do = do /\ s.mine = mine /\ s.got = got
  /\ \A do, mine, got :
       do \in {"lookup", "select", "insert"} => Reads(NF!Step(do, mine, got))
BY DEF Simple, BindLast, NF!Step, Reads

(* A step of a reading call goes on with it, or ends it. *)
LEMMA Moves ==
  ASSUME NEW c, DfsCalls(c), c # <<>>, c[1].do \in {"lookup", "select", "insert"}
  PROVE  /\ Head(c) = c[1] /\ Reads(c[1])
         /\ LET d == <<>> \o Tail(c)
            IN  DfsCalls(d) /\ (AppCalls(c) => AppCalls(d)) /\ (Ends(c) => Ends(d))
         /\ \A x : Reads(x) /\ x.mine = c[1].mine =>
              LET d == <<x>> \o Tail(c)
              IN  /\ DfsCalls(d) /\ (AppCalls(c) => AppCalls(d)) /\ (Ends(c) => Ends(d))
                  /\ d # <<>> /\ d[1] = x
<1>1. \/ \E s : Reads(s) /\ s.mine = FALSE /\ c = <<s>>
      \/ \E s : Reads(s) /\ c = <<s, BindLast>>
  <2>1. \A do, b : /\ <<Simple(do)>>[1].do = do /\ <<Simple(do), b>>[1].do = do
                   /\ <<BindLast>>[1].do = "bind"
    BY Simples, ShortCalls
  <2> QED BY <2>1 DEF DfsCalls, AppCalls
<1>2. CASE \E s : Reads(s) /\ s.mine = FALSE /\ c = <<s>>
  <2>1. PICK s : Reads(s) /\ s.mine = FALSE /\ c = <<s>>
    BY <1>2
  <2>2. Head(c) = s /\ c[1] = s /\ Tail(c) = <<>> /\ Len(c) = 1 /\ <<>> \o Tail(c) = <<>>
    BY <2>1, ShortCalls
  <2>3. ~Ends(c)
    BY <2>1, <2>2 DEF Ends, Reads
  <2>4. \A x : <<x>> \o Tail(c) = <<x>> /\ <<x>> # <<>> /\ <<x>>[1] = x
    BY <2>2, ShortCalls
  <2>5. AppCalls(<<>>) /\ \A x : Reads(x) /\ x.mine = FALSE => AppCalls(<<x>>)
    BY DEF AppCalls
  <2>6. \A d : AppCalls(d) => DfsCalls(d)
    BY DEF DfsCalls
  <2>7. s.mine = FALSE /\ Reads(s)
    BY <2>1
  <2> QED BY <2>2, <2>3, <2>4, <2>5, <2>6, <2>7
<1>3. CASE \E s : Reads(s) /\ c = <<s, BindLast>>
  <2>1. PICK s : Reads(s) /\ c = <<s, BindLast>>
    BY <1>3
  <2>2. /\ Head(c) = s /\ c[1] = s /\ Tail(c) = <<BindLast>> /\ Len(c) = 2
        /\ <<>> \o Tail(c) = <<BindLast>>
    BY <2>1, ShortCalls
  <2>3. ~AppCalls(c)
    <3>1. \A x : Len(<<x>>) = 1
      BY ShortCalls
    <3> QED BY <2>1, <2>2, <3>1 DEF AppCalls
  <2>4. \A x : /\ <<x>> \o Tail(c) = <<x, BindLast>> /\ <<x, BindLast>> # <<>>
               /\ <<x, BindLast>>[1] = x
    <3>1. ASSUME NEW x
          PROVE  /\ <<x>> \o <<BindLast>> = <<x, BindLast>> /\ <<x, BindLast>> # <<>>
                 /\ <<x, BindLast>>[1] = x
      BY ShortCalls
    <3> QED BY <2>2, <3>1
  <2>5. DfsCalls(<<BindLast>>) /\ \A x : Reads(x) => DfsCalls(<<x, BindLast>>)
    BY DEF DfsCalls
  <2>6. Ends(<<BindLast>>) /\ \A x : Ends(<<x, BindLast>>)
    BY ShortCalls, Simples DEF Ends
  <2> QED BY <2>1, <2>2, <2>3, <2>4, <2>5, <2>6
<1> QED BY <1>1, <1>2, <1>3

(* A thread goes on; the others stay. *)
LEMMA Going ==
  ASSUME Called, NEW t \in NF!Threads, NEW steps, NF!Go(t, steps)
  PROVE  /\ thread' = [u \in NF!Threads |-> thread'[u]]
         /\ thread'[t] = steps \o Tail(thread[t])
         /\ \A u \in NF!Threads : u # t => thread'[u] = thread[u]
BY DEF Called, NF!Go

(* Only the calls of App and Dfs read the vector. *)
LEMMA ReadersThread ==
  ASSUME Called, NEW t \in NF!Threads, NEW do \in {"lookup", "select", "insert"}, NF!At(t, do)
  PROVE  /\ t \in {"App", "Dfs"} /\ DfsCalls(thread[t]) /\ (t = "App" => AppCalls(thread[t]))
         /\ thread[t] # <<>> /\ Head(thread[t]) = thread[t][1] /\ thread[t][1].do = do
<1>1. thread[t] # <<>> /\ Head(thread[t]).do = do
  BY DEF NF!At
<1>2. t # "Net"
  <2>1. SUFFICES ASSUME t = "Net" PROVE FALSE
    OBVIOUS
  <2>2. PICK q, e : e \in {"check", "record"} /\ thread[t] = <<NF!Step(e, FALSE, {q})>>
    BY <1>1, <2>1 DEF Called, NetCalls
  <2>3. PICK z : z = NF!Step(e, FALSE, {q})
    OBVIOUS
  <2>4. z.do = e
    BY <2>3 DEF NF!Step
  <2>5. Head(thread[t]) = z
    BY <2>2, <2>3
  <2> QED BY <1>1, <2>2, <2>4, <2>5
<1>3. t \in {"App", "Dfs"}
  BY <1>2 DEF NF!Threads
<1>4. DfsCalls(thread[t]) /\ (t = "App" => AppCalls(thread[t]))
  BY <1>3 DEF Called, DfsCalls
<1>5. Head(thread[t]) = thread[t][1]
  BY <1>1, <1>4, ShortCalls DEF DfsCalls, AppCalls
<1> QED BY <1>1, <1>3, <1>4, <1>5

(* A reading call goes on with a step x, or ends that step. *)
LEMMA GoOn ==
  ASSUME Called, NEW t \in {"App", "Dfs"}, DfsCalls(thread[t]), t = "App" => AppCalls(thread[t]),
         thread[t] # <<>>, thread[t][1].do \in {"lookup", "select", "insert"}, NEW x,
         NF!Go(t, <<>>) \/ (NF!Go(t, <<x>>) /\ Reads(x) /\ x.mine = thread[t][1].mine)
  PROVE  /\ Called' /\ thread'["Net"] = thread["Net"]
         /\ \A u \in {"App", "Dfs"} : u # t => thread'[u] = thread[u]
         /\ Ends(thread["Dfs"]) => Ends(thread'["Dfs"])
         /\ NF!Go(t, <<x>>) /\ Reads(x) /\ x.mine = thread[t][1].mine =>
              thread'[t] # <<>> /\ thread'[t][1] = x
<1>1. t \in NF!Threads /\ "Net" \in NF!Threads /\ t # "Net" /\ {"App", "Dfs"} \subseteq NF!Threads
  BY DEF NF!Threads
<1>2. CASE NF!Go(t, <<x>>) /\ Reads(x) /\ x.mine = thread[t][1].mine
  <2>1. /\ thread' = [u \in NF!Threads |-> thread'[u]]
        /\ thread'[t] = <<x>> \o Tail(thread[t])
        /\ \A u \in NF!Threads : u # t => thread'[u] = thread[u]
    BY <1>1, <1>2, Going
  <2>2. /\ DfsCalls(thread'[t]) /\ (AppCalls(thread[t]) => AppCalls(thread'[t]))
        /\ Ends(thread[t]) => Ends(thread'[t])
        /\ thread'[t] # <<>> /\ thread'[t][1] = x
    BY <1>2, <2>1, Moves
  <2> QED BY <1>1, <2>1, <2>2 DEF Called
<1>3. CASE NF!Go(t, <<>>) /\ ~(NF!Go(t, <<x>>) /\ Reads(x) /\ x.mine = thread[t][1].mine)
  <2>1. /\ thread' = [u \in NF!Threads |-> thread'[u]]
        /\ thread'[t] = <<>> \o Tail(thread[t])
        /\ \A u \in NF!Threads : u # t => thread'[u] = thread[u]
    BY <1>1, <1>3, Going
  <2>2. /\ DfsCalls(thread'[t]) /\ (AppCalls(thread[t]) => AppCalls(thread'[t]))
        /\ Ends(thread[t]) => Ends(thread'[t])
    BY <2>1, Moves
  <2> QED BY <1>1, <1>3, <2>1, <2>2 DEF Called
<1> QED BY <1>2, <1>3

(* A step that changes no file. *)
LEMMA SameFilesStep ==
  ASSUME ThothInv, UNCHANGED <<dfs, installs>>, Called', Listening',
         thoth'.enabled =>
           \A i \in NF!ThothFiles(Server) : dfs.copy[Server][i] = "ready" => Sure(i)'
  PROVE  ThothInv'
<1>1. NF!ThothFiles(Server)' = NF!ThothFiles(Server)
  BY DEF NF!ThothFiles, NF!Search
<1>2. NamesInv' /\ Placed(dfs')
  BY DEF ThothInv, NamesInv
<1>3. Informed'
  BY <1>1 DEF Informed
<1> QED BY <1>2, <1>3 DEF ThothInv

(* What the server has stays when no file changes. *)
LEMMA SameRows ==
  ASSUME UNCHANGED dfs
  PROVE  /\ NF!ThothFiles(Server)' = NF!ThothFiles(Server)
         /\ \A i : NF!LiveRows(dfs, Server, i)' = NF!LiveRows(dfs, Server, i)
BY DEF NF!ThothFiles, NF!Search, NF!LiveRows, NF!Loads

(* The three steps of a read call: look up, select, insert. *)
LEMMA LookupInforms ==
  ASSUME ThothInv, NEW t \in NF!Threads, NF!Lookup(t)
  PROVE  ThothInv'
<1>1. /\ t \in {"App", "Dfs"} /\ DfsCalls(thread[t]) /\ (t = "App" => AppCalls(thread[t]))
      /\ thread[t] # <<>> /\ Head(thread[t]) = thread[t][1] /\ thread[t][1].do = "lookup"
  BY ReadersThread DEF ThothInv, NF!Lookup
<1> DEFINE m == thread[t][1].mine
           x == NF!Step("select", m, {})
<1>2. UNCHANGED <<dfs, installs>> /\ Called /\ Listening
  BY DEF NF!Lookup, ThothInv
<1>3. Reads(x) /\ x.mine = m /\ x.do = "select"
  BY Simples
<1>4. \/ NF!Go(t, <<>>) /\ UNCHANGED thoth
      \/ \E i \in NF!ThothFiles(Server) :
           thoth' = [thoth EXCEPT !.bound = i] /\ NF!Go(t, <<x>>)
  BY <1>1 DEF NF!Lookup
<1> HIDE DEF x
<1>5. /\ Called' /\ thread'["Net"] = thread["Net"]
      /\ \A u \in {"App", "Dfs"} : u # t => thread'[u] = thread[u]
      /\ Ends(thread["Dfs"]) => Ends(thread'["Dfs"])
  <2>1. NF!Go(t, <<>>) \/ (NF!Go(t, <<x>>) /\ Reads(x) /\ x.mine = thread[t][1].mine)
    BY <1>3, <1>4
  <2> QED BY <1>1, <1>2, <2>1, GoOn
<1>7. Listening' /\ thoth'.enabled = thoth.enabled /\ thoth'.infos = thoth.infos
  BY <1>2, <1>4, SameRows DEF Listening
<1>8. ASSUME thoth'.enabled, NEW i \in NF!ThothFiles(Server), dfs.copy[Server][i] = "ready"
      PROVE  Sure(i)'
  <2>1. \A j \in NF!ThothFiles(Server) : j = i
    BY <1>8, OneVector DEF ThothInv
  <2>2. thoth' = [thoth EXCEPT !.bound = i] /\ NF!Go(t, <<x>>)
    BY <1>8, <2>1 DEF NF!Lookup, x
  <2>3. thoth'.bound = i
    BY <1>2, <2>2 DEF Listening
  <2>4. thread'[t] # <<>> /\ thread'[t][1] = x
    BY <1>1, <1>2, <1>3, <2>2, GoOn
  <2>5. Sure(i)
    BY <1>7, <1>8 DEF ThothInv, Informed
  <2>6. ASSUME NEW r \in NF!LiveRows(dfs, Server, i), r.by # Server
        PROVE  Knows(r)' \/ Again' \/ Got(r)' \/ Seen(r)'
    <3>1. CASE Knows(r)
      BY <1>7, <3>1 DEF Knows
    <3>2. CASE Seen(r)
      BY <1>5, <3>2 DEF Seen
    <3>3. CASE Got(r)
      <4>1. PICK u \in {"App", "Dfs"} : Reading(thread[u], "select") \/ Holds(thread[u], r)
        BY <3>3 DEF Got
      <4>2. u # t
        BY <1>1, <4>1 DEF Reading, Holds
      <4> QED BY <1>5, <4>1, <4>2 DEF Got
    <3>4. CASE Ends(thread["Dfs"])
      BY <1>5, <3>4 DEF Again
    <3>5. ASSUME NEW u \in {"App", "Dfs"}, Reading(thread[u], "lookup") PROVE Again' \/ Got(r)'
      <4>1. CASE u = t
        BY <1>3, <2>4, <3>5, <4>1 DEF Reading, Got
      <4>2. CASE u # t
        BY <1>5, <3>5, <4>2 DEF Again
      <4> QED BY <4>1, <4>2
    <3> QED BY <2>5, <2>6, <3>1, <3>2, <3>3, <3>4, <3>5 DEF Sure, Again
  <2> QED BY <1>2, <2>3, <2>6, SameRows DEF Sure
<1> QED BY <1>2, <1>5, <1>7, <1>8, SameFilesStep

LEMMA SelectInforms ==
  ASSUME ThothInv, NEW t \in NF!Threads, NF!Select(t)
  PROVE  ThothInv'
<1>1. /\ t \in {"App", "Dfs"} /\ DfsCalls(thread[t]) /\ (t = "App" => AppCalls(thread[t]))
      /\ thread[t] # <<>> /\ Head(thread[t]) = thread[t][1] /\ thread[t][1].do = "select"
  BY ReadersThread DEF ThothInv, NF!Select
<1> DEFINE m == thread[t][1].mine
           got == {r \in NF!LiveRows(dfs, Server, thoth.bound) : m => r.by = Server}
           x == NF!Step("insert", m, got)
<1>2. UNCHANGED <<dfs, installs, thoth>> /\ Called /\ Listening
  BY DEF NF!Select, ThothInv
<1>3. Reads(x) /\ x.mine = m /\ x.do = "insert" /\ x.got = got
  BY Simples
<1>4. NF!Go(t, IF got = {} THEN <<>> ELSE <<x>>)
  BY <1>1 DEF NF!Select
<1> HIDE DEF x
<1>5. /\ Called' /\ thread'["Net"] = thread["Net"]
      /\ \A u \in {"App", "Dfs"} : u # t => thread'[u] = thread[u]
      /\ Ends(thread["Dfs"]) => Ends(thread'["Dfs"])
  <2>1. NF!Go(t, <<>>) \/ (NF!Go(t, <<x>>) /\ Reads(x) /\ x.mine = thread[t][1].mine)
    BY <1>3, <1>4
  <2> QED BY <1>1, <1>2, <2>1, GoOn
<1>7. Listening'
  BY <1>2, SameRows DEF Listening
<1>8. ASSUME thoth'.enabled, NEW i \in NF!ThothFiles(Server), dfs.copy[Server][i] = "ready"
      PROVE  Sure(i)'
  <2>1. Sure(i)
    BY <1>2, <1>8 DEF ThothInv, Informed
  <2>2. Again => Again'
    <3>1. CASE Ends(thread["Dfs"])
      BY <1>5, <3>1 DEF Again
    <3>2. ASSUME NEW u \in {"App", "Dfs"}, Reading(thread[u], "lookup") PROVE Again'
      <4>1. u # t
        BY <1>1, <3>2 DEF Reading
      <4> QED BY <1>5, <3>2, <4>1 DEF Again
    <3> QED BY <3>1, <3>2 DEF Again
  <2>3. ASSUME NEW r \in NF!LiveRows(dfs, Server, i), r.by # Server
        PROVE  Knows(r)' \/ Again' \/ Got(r)' \/ Seen(r)'
    <3>1. CASE Knows(r)
      BY <1>2, <3>1 DEF Knows
    <3>2. CASE Seen(r)
      BY <1>5, <3>2 DEF Seen
    <3>3. ASSUME NEW u \in {"App", "Dfs"}, u # t, Reading(thread[u], "select") \/ Holds(thread[u], r)
          PROVE  Got(r)'
      BY <1>5, <3>3 DEF Got
    <3>4. CASE Reading(thread[t], "select")
      <4>1. CASE thoth.bound = i
        <5>1. r \in got
          BY <2>3, <3>4, <4>1 DEF Reading
        <5>2. NF!Go(t, <<x>>)
          BY <1>4, <5>1
        <5>3. thread'[t] # <<>> /\ thread'[t][1] = x
          BY <1>1, <1>2, <1>3, <5>2, GoOn
        <5>4. Holds(thread'[t], r)
          BY <1>3, <5>1, <5>3 DEF Holds
        <5> QED BY <1>1, <5>4 DEF Got
      <4>2. CASE Again
        BY <2>2, <4>2
      <4> QED BY <2>1, <4>1, <4>2 DEF Sure
    <3>5. ~Holds(thread[t], r)
      BY <1>1 DEF Holds
    <3> QED BY <2>1, <2>2, <2>3, <3>1, <3>2, <3>3, <3>4, <3>5 DEF Sure, Got
  <2> QED BY <1>2, <2>1, <2>2, <2>3, SameRows DEF Sure
<1> QED BY <1>2, <1>5, <1>7, <1>8, SameFilesStep

LEMMA InsertInforms ==
  ASSUME ThothInv, NEW t \in NF!Threads, NF!Insert(t)
  PROVE  ThothInv'
<1>1. /\ t \in {"App", "Dfs"} /\ DfsCalls(thread[t]) /\ (t = "App" => AppCalls(thread[t]))
      /\ thread[t] # <<>> /\ Head(thread[t]) = thread[t][1] /\ thread[t][1].do = "insert"
  BY ReadersThread DEF ThothInv, NF!Insert
<1> DEFINE got == thread[t][1].got
<1>2. UNCHANGED <<dfs, installs>> /\ Called /\ Listening
  BY DEF NF!Insert, ThothInv
<1>3. PICK first \in got :
        thoth' = [thoth EXCEPT !.infos = @ \cup {<<r.key, first.by>> : r \in got}]
  <2>1. Head(thread[t]).got = got
    BY <1>1
  <2>2. \E first \in Head(thread[t]).got :
          thoth' = [thoth EXCEPT !.infos = @ \cup
                      {<<r.key, first.by>> : r \in Head(thread[t]).got}]
    BY Zenon DEF NF!Insert
  <2> QED BY <2>1, <2>2, Zenon
<1>4. NF!Go(t, <<>>)
  BY DEF NF!Insert
<1>5. /\ Called' /\ thread'["Net"] = thread["Net"]
      /\ \A u \in {"App", "Dfs"} : u # t => thread'[u] = thread[u]
      /\ Ends(thread["Dfs"]) => Ends(thread'["Dfs"])
  BY <1>1, <1>2, <1>4, GoOn
<1>7. /\ Listening' /\ thoth'.enabled = thoth.enabled /\ thoth'.bound = thoth.bound
      /\ thoth'.infos = thoth.infos \cup {<<r.key, first.by>> : r \in got}
  BY <1>2, <1>3, SameRows DEF Listening
<1>8. ASSUME thoth'.enabled, NEW i \in NF!ThothFiles(Server), dfs.copy[Server][i] = "ready"
      PROVE  Sure(i)'
  <2>1. Sure(i)
    BY <1>7, <1>8 DEF ThothInv, Informed
  <2>2. Again => Again'
    <3>1. CASE Ends(thread["Dfs"])
      BY <1>5, <3>1 DEF Again
    <3>2. ASSUME NEW u \in {"App", "Dfs"}, Reading(thread[u], "lookup") PROVE Again'
      <4>1. u # t
        BY <1>1, <3>2 DEF Reading
      <4> QED BY <1>5, <3>2, <4>1 DEF Again
    <3> QED BY <3>1, <3>2 DEF Again
  <2>3. ASSUME NEW r \in NF!LiveRows(dfs, Server, i), r.by # Server
        PROVE  Knows(r)' \/ Again' \/ Got(r)' \/ Seen(r)'
    <3>1. CASE Knows(r)
      BY <1>7, <3>1 DEF Knows
    <3>2. CASE Seen(r)
      BY <1>5, <3>2 DEF Seen
    <3>3. ASSUME NEW u \in {"App", "Dfs"}, u # t, Reading(thread[u], "select") \/ Holds(thread[u], r)
          PROVE  Got(r)'
      BY <1>5, <3>3 DEF Got
    <3>4. CASE Holds(thread[t], r)
      <4>1. PICK q \in got : q.key = r.key
        BY <3>4 DEF Holds
      <4>2. <<q.key, first.by>> \in thoth'.infos /\ <<q.key, first.by>>[1] = r.key
        BY <1>7, <4>1
      <4> QED BY <4>2 DEF Knows
    <3>5. ~Reading(thread[t], "select")
      BY <1>1 DEF Reading
    <3> QED BY <2>1, <2>2, <2>3, <3>1, <3>2, <3>3, <3>4, <3>5 DEF Sure, Got
  <2> QED BY <1>2, <1>7, <2>1, <2>2, <2>3, SameRows DEF Sure
<1> QED BY <1>2, <1>5, <1>7, <1>8, SameFilesStep

(* The server starts again, and Thoth is started and stopped. *)
LEMMA StartsInform ==
  ASSUME ThothInv, NF!Restart(Server) \/ NF!StartThoth \/ NF!StopThoth
  PROVE  ThothInv'
<1>0. Called /\ Listening /\ {"App", "Net", "Dfs"} = NF!Threads
  BY DEF ThothInv, NF!Threads
<1>1. CASE NF!Restart(Server)
  <2>1. /\ UNCHANGED <<dfs, installs>> /\ thoth' = NF!NoThoth
        /\ thread' = [t \in NF!Threads |-> <<>>]
    BY <1>1 DEF NF!Restart
  <2>2. Called'
    BY <1>0, <2>1 DEF Called, AppCalls, DfsCalls, NetCalls
  <2>3. Listening' /\ ~thoth'.enabled
    BY <2>1 DEF Listening, NF!NoThoth
  <2> QED BY <2>1, <2>2, <2>3, SameFilesStep
<1>2. CASE NF!StartThoth
  <2> DEFINE x == NF!Step("lookup", FALSE, {})
  <2>1. /\ UNCHANGED <<dfs, installs>> /\ thoth' = [thoth EXCEPT !.enabled = TRUE]
        /\ thread' = [thread EXCEPT !["App"] = <<x>>]
    BY <1>2 DEF NF!StartThoth, NF!ReadAll
  <2>2. Reads(x) /\ x.mine = FALSE /\ x.do = "lookup"
    <3>1. Reads(x)
      BY DEF NF!Step, Reads
    <3> QED BY <3>1 DEF NF!Step
  <2> HIDE DEF x
  <2>3. /\ thread' = [u \in NF!Threads |-> thread'[u]] /\ thread'["App"] = <<x>>
        /\ thread'["Dfs"] = thread["Dfs"] /\ thread'["Net"] = thread["Net"]
    BY <1>0, <2>1 DEF Called
  <2>4. Called'
    BY <1>0, <2>2, <2>3 DEF Called, AppCalls
  <2>5. Listening'
    BY <1>0, <2>1, SameRows DEF Listening
  <2>6. <<x>> # <<>> /\ <<x>>[1] = x
    BY ShortCalls
  <2>7. Again'
    BY <2>2, <2>3, <2>6 DEF Again, Reading
  <2> QED BY <2>1, <2>4, <2>5, <2>7, SameFilesStep DEF Sure
<1>3. CASE NF!StopThoth
  <2>1. /\ UNCHANGED <<dfs, installs, thread>>
        /\ thoth' = [thoth EXCEPT !.enabled = FALSE, !.bound = 0]
    BY <1>3 DEF NF!StopThoth
  <2>2. Called'
    BY <1>0, <2>1 DEF Called
  <2>3. Listening' /\ ~thoth'.enabled
    BY <1>0, <2>1 DEF Listening
  <2> QED BY <2>1, <2>2, <2>3, SameFilesStep
<1> QED BY <1>1, <1>2, <1>3

(* The slots of downloaded. *)
LEMMA Slots ==
  ASSUME Called
  PROVE  /\ NF!At("Dfs", "finish") => thread["Dfs"] = <<Simple("finish")>>
         /\ NF!At("Dfs", "waited") => thread["Dfs"] = <<Simple("waited"), BindLast>>
         /\ NF!At("Dfs", "bind") => thread["Dfs"] = <<BindLast>>
<1>1. \A do, b : Head(<<Simple(do)>>).do = do /\ Head(<<Simple(do), b>>).do = do
                 /\ Head(<<BindLast>>).do = "bind"
  BY Simples, ShortCalls
<1>2. \A s, b : Reads(s) => /\ Head(<<s>>).do \in {"lookup", "select", "insert"}
                            /\ Head(<<s, b>>).do \in {"lookup", "select", "insert"}
  BY ShortCalls DEF Reads
<1>3. DfsCalls(thread["Dfs"])
  BY DEF Called
<1> QED BY <1>1, <1>2, <1>3 DEF NF!At, DfsCalls, AppCalls

(* The slots of downloaded: rows waited for are read, and the vector is bound. *)
LEMMA WaitedInforms == ASSUME ThothInv, NF!Waited PROVE ThothInv'
<1>1. Called /\ Listening /\ UNCHANGED <<dfs, thoth, installs>>
  BY DEF ThothInv, NF!Waited
<1>2. thread["Dfs"] = <<Simple("waited"), BindLast>>
  BY <1>1, Slots DEF NF!Waited
<1>3. Tail(thread["Dfs"]) = <<BindLast>>
  BY <1>2, ShortCalls
<1> DEFINE x == NF!Step("lookup", ~thoth.enabled, {})
<1>4. NF!Go("Dfs", <<x>>) \/ NF!Go("Dfs", <<>>)
  BY DEF NF!Waited, NF!ReadAll
<1>5. Reads(x)
  BY Simples
<1> HIDE DEF x
<1>6. <<x>> \o <<BindLast>> = <<x, BindLast>> /\ <<>> \o <<BindLast>> = <<BindLast>>
  BY ShortCalls
<1>7. /\ thread' = [u \in NF!Threads |-> thread'[u]]
      /\ thread'["Dfs"] = <<x, BindLast>> \/ thread'["Dfs"] = <<BindLast>>
      /\ thread'["App"] = thread["App"] /\ thread'["Net"] = thread["Net"]
  <2>1. "Dfs" \in NF!Threads /\ "App" \in NF!Threads /\ "Net" \in NF!Threads
    BY DEF NF!Threads
  <2> QED BY <1>1, <1>3, <1>4, <1>6, <2>1, Going
<1>8. Called'
  BY <1>1, <1>5, <1>7 DEF Called, DfsCalls
<1>9. Ends(<<BindLast>>) /\ Ends(<<x, BindLast>>)
  BY ShortCalls, Simples DEF Ends
<1>10. Again'
  BY <1>7, <1>9 DEF Again
<1>11. Listening'
  BY <1>1, SameRows DEF Listening
<1> QED BY <1>1, <1>8, <1>10, <1>11, SameFilesStep DEF Sure

LEMMA BindInforms == ASSUME ThothInv, NF!Bind PROVE ThothInv'
<1>1. Called /\ Listening /\ UNCHANGED <<dfs, installs>>
  BY DEF ThothInv, NF!Bind
<1>2. thread["Dfs"] = <<BindLast>>
  BY <1>1, Slots DEF NF!Bind
<1>3. Tail(thread["Dfs"]) = <<>>
  BY <1>2, ShortCalls
<1> DEFINE x == NF!Step("lookup", FALSE, {})
<1>4. NF!Go("Dfs", IF thoth.enabled THEN <<x>> ELSE <<>>)
  BY DEF NF!Bind, NF!ReadAll
<1>5. Reads(x) /\ x.mine = FALSE /\ x.do = "lookup"
  <2>1. Reads(x)
    BY DEF NF!Step, Reads
  <2> QED BY <2>1 DEF NF!Step
<1> HIDE DEF x
<1>6. <<x>> \o <<>> = <<x>> /\ <<>> \o <<>> = <<>> /\ <<x>> # <<>> /\ <<x>>[1] = x
  BY ShortCalls
<1>7. /\ thread' = [u \in NF!Threads |-> thread'[u]]
      /\ thread'["Dfs"] = (IF thoth.enabled THEN <<x>> ELSE <<>>)
      /\ thread'["App"] = thread["App"] /\ thread'["Net"] = thread["Net"]
  <2>1. "Dfs" \in NF!Threads /\ "App" \in NF!Threads /\ "Net" \in NF!Threads
    BY DEF NF!Threads
  <2> QED BY <1>1, <1>3, <1>4, <1>6, <2>1, Going
<1>8. Called'
  BY <1>1, <1>5, <1>7 DEF Called, DfsCalls, AppCalls
<1>9. PICK i \in NF!ThothFiles(Server) : thoth' = [thoth EXCEPT !.bound = i]
  BY DEF NF!Bind
<1>10. Listening' /\ thoth'.enabled = thoth.enabled
  BY <1>1, <1>9, SameRows DEF Listening
<1>11. ASSUME thoth.enabled PROVE Again'
  BY <1>5, <1>6, <1>7, <1>11 DEF Again, Reading
<1> QED BY <1>1, <1>8, <1>10, <1>11, SameFilesStep DEF Sure

(* A record of the network. *)
LEMMA Received ==
  ASSUME Called, NEW do, NF!At("Net", do)
  PROVE  \E q : /\ do \in {"check", "record"} /\ thread["Net"] # <<>>
                /\ Head(thread["Net"]) = thread["Net"][1]
                /\ thread["Net"][1].got = {q} /\ Tail(thread["Net"]) = <<>>
<1>1. PICK q, e : e \in {"check", "record"} /\ thread["Net"] = <<NF!Step(e, FALSE, {q})>>
  BY DEF Called, NetCalls, NF!At
<1>2. PICK z : z = NF!Step(e, FALSE, {q})
  OBVIOUS
<1>3. z.do = e /\ z.got = {q}
  BY <1>2 DEF NF!Step
<1>4. /\ Head(thread["Net"]) = z /\ thread["Net"][1] = z /\ Tail(thread["Net"]) = <<>>
      /\ thread["Net"] # <<>>
  BY <1>1, <1>2, ShortCalls
<1>5. do = e
  BY <1>3, <1>4 DEF NF!At
<1> QED BY <1>1, <1>3, <1>4, <1>5

(* The handler of a row: it counts when Thoth runs and is bound, and is read again. *)
LEMMA CheckInforms == ASSUME ThothInv, NF!Check PROVE ThothInv'
<1>1. Called /\ Listening /\ UNCHANGED <<dfs, thoth, installs>>
  BY DEF ThothInv, NF!Check
<1>2. PICK q : /\ Head(thread["Net"]) = thread["Net"][1] /\ thread["Net"][1].got = {q}
               /\ Tail(thread["Net"]) = <<>>
  BY <1>1, Received DEF NF!Check
<1>3. q = CHOOSE r \in Head(thread["Net"]).got : TRUE
  BY <1>2
<1> DEFINE x == NF!Step("record", FALSE, {q})
<1>4. NF!Go("Net", IF thoth.enabled /\ thoth.bound # 0 /\ q.live THEN <<x>> ELSE <<>>)
  BY <1>3 DEF NF!Check
<1>5. x.got = {q} /\ NetCalls(<<x>>) /\ NetCalls(<<>>)
  BY DEF NF!Step, NetCalls
<1> HIDE DEF x
<1>6. <<x>> \o <<>> = <<x>> /\ <<>> \o <<>> = <<>> /\ <<x>> # <<>> /\ <<x>>[1] = x
  BY ShortCalls
<1>7. /\ thread' = [u \in NF!Threads |-> thread'[u]]
      /\ thread'["Net"] = (IF thoth.enabled /\ thoth.bound # 0 /\ q.live THEN <<x>> ELSE <<>>)
      /\ thread'["App"] = thread["App"] /\ thread'["Dfs"] = thread["Dfs"]
  <2>1. "Dfs" \in NF!Threads /\ "App" \in NF!Threads /\ "Net" \in NF!Threads
    BY DEF NF!Threads
  <2> QED BY <1>1, <1>2, <1>4, <1>6, <2>1, Going
<1>8. Called'
  BY <1>1, <1>5, <1>7 DEF Called
<1>9. Listening'
  BY <1>1, SameRows DEF Listening
<1>10. (Again => Again') /\ \A r : (Got(r) => Got(r)') /\ (Knows(r) => Knows(r)')
  BY <1>1, <1>7 DEF Again, Got, Knows
<1>11. ASSUME thoth'.enabled, NEW i \in NF!ThothFiles(Server), dfs.copy[Server][i] = "ready"
       PROVE  Sure(i)'
  <2>1. Sure(i)
    BY <1>1, <1>11 DEF ThothInv, Informed
  <2>2. i # 0
    BY OneVector DEF ThothInv
  <2>3. ASSUME NEW r, Seen(r) PROVE Again' \/ Seen(r)'
    <3>1. q.live /\ NF!SameRow(r, q)
      BY <1>2, <2>3 DEF Seen
    <3>2. CASE thoth.bound = i
      BY <1>1, <1>5, <1>6, <1>7, <1>11, <2>2, <3>1, <3>2 DEF Seen
    <3> QED BY <1>10, <2>1, <3>2 DEF Sure
  <2> QED BY <1>1, <1>10, <2>1, <2>3, SameRows DEF Sure
<1> QED BY <1>1, <1>8, <1>9, <1>11, SameFilesStep

LEMMA RecordInforms == ASSUME ThothInv, NF!Record PROVE ThothInv'
<1>1. Called /\ Listening /\ UNCHANGED <<dfs, installs>>
  BY DEF ThothInv, NF!Record
<1>2. PICK q : /\ Head(thread["Net"]) = thread["Net"][1] /\ thread["Net"][1].got = {q}
               /\ Tail(thread["Net"]) = <<>>
  BY <1>1, Received DEF NF!Record
<1> DEFINE new == {r \in NF!LiveRows(dfs, Server, thoth.bound) :
                     \E p \in Head(thread["Net"]).got : NF!SameRow(r, p)}
<1>3. thoth' = [thoth EXCEPT !.infos = @ \cup {<<r.key, r.by>> : r \in new}]
  BY Zenon DEF NF!Record
<1>4. \A r \in NF!LiveRows(dfs, Server, thoth.bound) : NF!SameRow(r, q) => r \in new
  BY <1>2
<1> HIDE DEF new
<1>5. /\ thoth'.enabled = thoth.enabled /\ thoth'.bound = thoth.bound
      /\ thoth'.infos = thoth.infos \cup {<<r.key, r.by>> : r \in new}
  BY <1>1, <1>3 DEF Listening
<1>6. Listening'
  BY <1>1, <1>3, SameRows DEF Listening
<1>7. /\ thread' = [u \in NF!Threads |-> thread'[u]] /\ thread'["Net"] = <<>>
      /\ thread'["App"] = thread["App"] /\ thread'["Dfs"] = thread["Dfs"]
  <2>1. "Dfs" \in NF!Threads /\ "App" \in NF!Threads /\ "Net" \in NF!Threads
    BY DEF NF!Threads
  <2>2. NF!Go("Net", <<>>) /\ <<>> \o <<>> = <<>>
    BY ShortCalls DEF NF!Record
  <2> QED BY <1>1, <1>2, <2>1, <2>2, Going
<1>8. Called'
  BY <1>1, <1>7 DEF Called, NetCalls
<1>10. (Again => Again') /\ \A r : (Got(r) => Got(r)') /\ (Knows(r) => Knows(r)')
  BY <1>5, <1>7 DEF Again, Got, Knows
<1>11. ASSUME thoth'.enabled, NEW i \in NF!ThothFiles(Server), dfs.copy[Server][i] = "ready"
       PROVE  Sure(i)'
  <2>1. Sure(i)
    BY <1>5, <1>11 DEF ThothInv, Informed
  <2>2. ASSUME NEW r \in NF!LiveRows(dfs, Server, i), Seen(r) PROVE Again' \/ Knows(r)'
    <3>1. NF!SameRow(r, q)
      BY <1>2, <2>2 DEF Seen
    <3>2. CASE thoth.bound = i
      <4>1. r \in new
        BY <1>4, <2>2, <3>1, <3>2
      <4>2. <<r.key, r.by>> \in thoth'.infos /\ <<r.key, r.by>>[1] = r.key
        BY <1>5, <4>1
      <4> QED BY <4>2 DEF Knows
    <3> QED BY <1>10, <2>1, <3>2 DEF Sure
  <2> QED BY <1>1, <1>5, <1>10, <2>1, <2>2, SameRows DEF Sure
<1> QED BY <1>1, <1>6, <1>8, <1>11, SameFilesStep

(* What changes in the server's own copies and rows. *)
RowsAre(d, e, i, x) ==
  /\ Directory(e) /\ Placed(e) /\ e.files = d.files /\ e.copy = d.copy
  /\ \A j \in 1..MaxFiles : e.rows[Server][j] = IF j = i THEN x ELSE d.rows[Server][j]

CopyIs(d, e, i, c) ==
  /\ Directory(e) /\ Placed(e) /\ e.files = d.files /\ e.rows = d.rows
  /\ \A j \in 1..MaxFiles : e.copy[Server][j] = IF j = i THEN c ELSE d.copy[Server][j]

LEMMA RowsHere ==
  ASSUME NEW d, Directory(d), Placed(d), NEW i, NEW x
  PROVE  RowsAre(d, [d EXCEPT !.rows[Server][i] = x], i, x)
<1> DEFINE e == [d EXCEPT !.rows[Server][i] = x]
           F == d.files
           C == d.copy
           R == d.rows
<1>1. d = [files |-> F, copy |-> C, rows |-> R]
  BY DEF Directory
<1>2. PICK T : R \in [NF!Nodes -> [1..MaxFiles -> T]]
  BY DEF Placed
<1>3. e = [files |-> F, copy |-> C, rows |-> [R EXCEPT ![Server][i] = x]]
  <2> HIDE DEF F, C, R
  <2> QED BY <1>1
<1> HIDE DEF e
<1>4. e.files = F /\ e.copy = C /\ e.rows = [R EXCEPT ![Server][i] = x]
  BY <1>3
<1>5. [R EXCEPT ![Server][i] = x] \in [NF!Nodes -> [1..MaxFiles -> T \cup {x}]]
  <2> HIDE DEF R
  <2>1. \A m \in NF!Nodes : [R[m] EXCEPT ![i] = x] \in [1..MaxFiles -> T \cup {x}]
    BY <1>2
  <2>2. \A m \in NF!Nodes : R[m] \in [1..MaxFiles -> T \cup {x}]
    BY <1>2
  <2> QED BY <1>2, <2>1, <2>2
<1>6. \A j \in 1..MaxFiles : e.rows[Server][j] = IF j = i THEN x ELSE R[Server][j]
  <2> HIDE DEF R
  <2> QED BY <1>2, <1>4, ThothNodes
<1>7. Directory(e)
  BY <1>3, <1>4 DEF Directory
<1>8. Placed(e)
  <2>1. \E S : e.rows \in [NF!Nodes -> [1..MaxFiles -> S]]
    BY <1>4, <1>5
  <2> QED BY <1>4, <2>1 DEF Placed
<1> QED BY <1>4, <1>6, <1>7, <1>8 DEF RowsAre, e

LEMMA CopyHere ==
  ASSUME NEW d, Directory(d), Placed(d), NEW i \in DOMAIN d.files,
         NEW c \in {"known", "has", "ready"}
  PROVE  CopyIs(d, [d EXCEPT !.copy[Server][i] = c], i, c)
<1> DEFINE e == [d EXCEPT !.copy[Server][i] = c]
           F == d.files
           C == d.copy
           R == d.rows
<1>1. d = [files |-> F, copy |-> C, rows |-> R]
  BY DEF Directory
<1>2. e = [files |-> F, copy |-> [C EXCEPT ![Server][i] = c], rows |-> R]
  <2> HIDE DEF F, C, R
  <2> QED BY <1>1
<1> HIDE DEF e
<1>3. C \in [NF!Nodes -> [1..MaxFiles -> {"none", "known", "has", "ready"}]]
  BY DEF Directory
<1>4. e.files = F /\ e.rows = R /\ e.copy = [C EXCEPT ![Server][i] = c]
  BY <1>2
<1> HIDE DEF C
<1>5. e.copy \in [NF!Nodes -> [1..MaxFiles -> {"none", "known", "has", "ready"}]]
  <2>1. ASSUME NEW n \in NF!Nodes
        PROVE  [C EXCEPT ![n][i] = c] \in
                 [NF!Nodes -> [1..MaxFiles -> {"none", "known", "has", "ready"}]]
    BY <1>3, ZenonT(30)
  <2> QED BY <1>4, <2>1, ThothNodes
<1>6. \A j \in 1..MaxFiles : e.copy[Server][j] = IF j = i THEN c ELSE C[Server][j]
  BY <1>3, <1>4, ThothNodes
<1> USE DEF C
<1>7. Directory(e)
  BY <1>2, <1>4, <1>5 DEF Directory
<1>8. Placed(e)
  BY <1>4, <1>6 DEF Placed
<1> QED BY <1>4, <1>6, <1>7, <1>8 DEF CopyIs, e

(* What is sure about a vector stays while its rows and Thoth do. *)
LEMMA SureStays ==
  ASSUME UNCHANGED <<thoth, thread>>, NEW i,
         NF!LiveRows(dfs, Server, i)' = NF!LiveRows(dfs, Server, i), Sure(i)
  PROVE  Sure(i)'
BY DEF Sure, Again, Got, Seen, Knows

(* A step that changes copies or rows of the server. *)
LEMMA ChangedHere ==
  ASSUME ThothInv, NamesInv', UNCHANGED <<thoth, installs>>, Placed(dfs'), Called',
         dfs'.files = dfs.files,
         \A i \in DOMAIN dfs.files : dfs.copy[Server][i] # "none" => dfs'.copy[Server][i] # "none",
         thoth.enabled => \A i \in NF!ThothFiles(Server)' :
                            dfs'.copy[Server][i] = "ready" => Sure(i)'
  PROVE  ThothInv'
<1>1. NF!ThothFiles(Server) \subseteq NF!ThothFiles(Server)'
  BY DEF NF!ThothFiles, NF!Search
<1>2. Listening'
  BY <1>1 DEF ThothInv, Listening
<1>3. Informed'
  BY DEF Informed
<1> QED BY <1>2, <1>3 DEF ThothInv

(* A row of the directory. *)
LEMMA AnnounceInforms ==
  ASSUME ThothInv, NamesInv', NEW i \in DOMAIN dfs.files, NF!Announce(Server, i)
  PROVE  ThothInv'
<1>1. Directory(dfs) /\ Placed(dfs) /\ DOMAIN dfs.files \subseteq 1..MaxFiles
  BY ThothNodes DEF ThothInv, NamesInv, WellNamed, Directory
<1>2. UNCHANGED <<thoth, thread, installs>> /\ dfs.copy[Server][i] = "none"
  BY DEF NF!Announce, NF!Memory
<1>3. CopyIs(dfs, dfs', i, "known")
  BY <1>1, CopyHere DEF NF!Announce
<1>4. \A j \in DOMAIN dfs.files :
        dfs.copy[Server][j] # "none" => dfs'.copy[Server][j] = dfs.copy[Server][j]
  BY <1>1, <1>2, <1>3 DEF CopyIs
<1>5. Called'
  BY <1>2 DEF ThothInv, Called
<1>6. ASSUME thoth.enabled, NEW j \in NF!ThothFiles(Server)', dfs'.copy[Server][j] = "ready"
      PROVE  Sure(j)'
  <2>1. j \in DOMAIN dfs.files /\ j # i /\ dfs.copy[Server][j] = "ready"
    BY <1>1, <1>3, <1>6 DEF CopyIs, NF!ThothFiles, NF!Search
  <2>2. j \in NF!ThothFiles(Server)
    BY <1>3, <1>6, <2>1 DEF CopyIs, NF!ThothFiles, NF!Search
  <2>3. Sure(j)
    BY <1>6, <2>1, <2>2 DEF ThothInv, Informed
  <2>4. NF!LiveRows(dfs, Server, j)' = NF!LiveRows(dfs, Server, j)
    BY <1>3, <1>6, <2>1 DEF CopyIs, NF!LiveRows, NF!Loads
  <2> QED BY <1>2, <2>3, <2>4, SureStays
<1> QED BY <1>2, <1>3, <1>4, <1>5, <1>6, ChangedHere DEF CopyIs

(* The state of the vector: it will be read. *)
LEMMA FinishInforms == ASSUME ThothInv, NamesInv', NF!Finish PROVE ThothInv'
<1>1. Directory(dfs) /\ Placed(dfs) /\ DOMAIN dfs.files \subseteq 1..MaxFiles
  BY ThothNodes DEF ThothInv, NamesInv, WellNamed, Directory
<1>2. Called /\ UNCHANGED <<thoth, installs>>
  BY DEF NF!Finish, ThothInv
<1>3. PICK i \in NF!ThothFiles(Server) : dfs' = [dfs EXCEPT !.copy[Server][i] = "ready"]
  BY DEF NF!Finish
<1>4. CopyIs(dfs, dfs', i, "ready")
  <2>1. i \in DOMAIN dfs.files
    BY DEF NF!ThothFiles, NF!Search
  <2> QED BY <1>1, <1>3, <2>1, CopyHere
<1>5. \A j \in DOMAIN dfs.files : dfs.copy[Server][j] # "none" => dfs'.copy[Server][j] # "none"
  BY <1>1, <1>4 DEF CopyIs
<1>6. thread["Dfs"] = <<Simple("finish")>>
  BY <1>2, Slots DEF NF!Finish
<1>7. Tail(thread["Dfs"]) = <<>>
  BY <1>6, ShortCalls
<1>8. NF!Go("Dfs", <<Simple("waited"), BindLast>>)
  BY DEF NF!Finish, Simple, BindLast
<1>9. <<Simple("waited"), BindLast>> \o <<>> = <<Simple("waited"), BindLast>>
  BY ShortCalls
<1>10. /\ thread' = [u \in NF!Threads |-> thread'[u]]
       /\ thread'["Dfs"] = <<Simple("waited"), BindLast>>
       /\ thread'["App"] = thread["App"] /\ thread'["Net"] = thread["Net"]
  <2>1. "Dfs" \in NF!Threads /\ "App" \in NF!Threads /\ "Net" \in NF!Threads
    BY DEF NF!Threads
  <2> QED BY <1>2, <1>7, <1>8, <1>9, <2>1, Going
<1>11. Called'
  BY <1>2, <1>10 DEF Called, DfsCalls
<1>12. Again'
  <2>1. Ends(<<Simple("waited"), BindLast>>)
    BY ShortCalls, Simples DEF Ends
  <2> QED BY <1>10, <2>1 DEF Again
<1> QED BY <1>2, <1>4, <1>5, <1>11, <1>12, ChangedHere DEF CopyIs, Sure

(* Content of a file, Thoth's vector or another. *)
LEMMA ContentInforms ==
  ASSUME ThothInv, NamesInv', NEW m, NEW i \in DOMAIN dfs.files, NF!Content(Server, m, i)
  PROVE  ThothInv'
<1> DEFINE x == NF!Newest(dfs.rows[Server][i] \cup dfs.rows[m][i])
           d == [dfs EXCEPT !.rows[Server][i] = x]
           e(c) == [d EXCEPT !.copy[Server][i] = c]
<1>1. Directory(dfs) /\ Placed(dfs) /\ DOMAIN dfs.files \subseteq 1..MaxFiles
  BY ThothNodes DEF ThothInv, NamesInv, WellNamed, Directory
<1>2. Called /\ UNCHANGED <<thoth, installs>> /\ dfs.copy[Server][i] # "none"
  BY DEF NF!Content, ThothInv
<1>3. RowsAre(dfs, d, i, x)
  BY <1>1, RowsHere
<1>4. dfs' = d \/ \E c \in {"known", "has", "ready"} : dfs' = e(c)
  BY DEF NF!Content
<1> HIDE DEF d
<1>5. \A c \in {"known", "has", "ready"} : CopyIs(d, e(c), i, c)
  <2>1. Directory(d) /\ Placed(d) /\ i \in DOMAIN d.files
    BY <1>3 DEF RowsAre
  <2> QED BY <2>1, CopyHere
<1> HIDE DEF e
<1>6. /\ Placed(dfs') /\ dfs'.files = dfs.files
      /\ \A j \in 1..MaxFiles : j # i => /\ dfs'.rows[Server][j] = dfs.rows[Server][j]
                                         /\ dfs'.copy[Server][j] = dfs.copy[Server][j]
      /\ dfs'.copy[Server][i] # "none"
  <2>1. CASE dfs' = d
    BY <1>2, <1>3, <2>1 DEF RowsAre
  <2>2. ASSUME NEW c \in {"known", "has", "ready"}, dfs' = e(c)
        PROVE  /\ Placed(dfs') /\ dfs'.files = dfs.files
               /\ \A j \in 1..MaxFiles : j # i => /\ dfs'.rows[Server][j] = dfs.rows[Server][j]
                                                  /\ dfs'.copy[Server][j] = dfs.copy[Server][j]
               /\ dfs'.copy[Server][i] # "none"
    BY <1>1, <1>3, <1>5, <2>2 DEF RowsAre, CopyIs
  <2> QED BY <1>4, <2>1, <2>2
<1>7. \A j \in DOMAIN dfs.files : dfs.copy[Server][j] # "none" => dfs'.copy[Server][j] # "none"
  BY <1>1, <1>6
<1>8. CASE NF!IsThoth(i)
  <2> DEFINE y == NF!Step("finish", FALSE, {})
  <2>1. thread' = [thread EXCEPT !["Dfs"] = <<y>>] /\ y = Simple("finish")
    BY <1>8 DEF NF!Content, Simple
  <2> HIDE DEF y
  <2>2. /\ thread' = [u \in NF!Threads |-> thread'[u]] /\ thread'["Dfs"] = <<Simple("finish")>>
        /\ thread'["App"] = thread["App"] /\ thread'["Net"] = thread["Net"]
    BY <1>2, <2>1 DEF Called, NF!Threads
  <2>3. Called'
    BY <1>2, <2>2 DEF Called, DfsCalls
  <2>4. Again'
    <3>1. Ends(<<Simple("finish")>>)
      BY ShortCalls, Simples DEF Ends
    <3> QED BY <2>2, <3>1 DEF Again
  <2> QED BY <1>2, <1>6, <1>7, <2>3, <2>4, ChangedHere DEF Sure
<1>9. CASE ~NF!IsThoth(i)
  <2>1. UNCHANGED thread
    BY <1>9 DEF NF!Content
  <2>2. Called'
    BY <1>2, <2>1 DEF Called
  <2>3. ASSUME thoth.enabled, NEW j \in NF!ThothFiles(Server)', dfs'.copy[Server][j] = "ready"
        PROVE  Sure(j)'
    <3>1. j \in DOMAIN dfs.files /\ j # i /\ dfs.copy[Server][j] = "ready"
      BY <1>1, <1>6, <1>9, <2>3 DEF NF!ThothFiles, NF!Search, NF!IsThoth
    <3>2. j \in NF!ThothFiles(Server)
      BY <1>6, <2>3, <3>1 DEF NF!ThothFiles, NF!Search
    <3>3. Sure(j)
      BY <2>3, <3>1, <3>2 DEF ThothInv, Informed
    <3>4. NF!LiveRows(dfs, Server, j)' = NF!LiveRows(dfs, Server, j)
      BY <1>1, <1>6, <3>1 DEF NF!LiveRows, NF!Loads
    <3> QED BY <1>2, <2>1, <3>3, <3>4, SureStays
  <2> QED BY <1>2, <1>6, <1>7, <2>2, <2>3, ChangedHere
<1> QED BY <1>8, <1>9

(* A row from the network, for Thoth's vector or another. *)
LEMMA DeliverInforms ==
  ASSUME ThothInv, NamesInv', NEW p, p.to = Server, NF!Deliver(p)
  PROVE  ThothInv'
<1> DEFINE i == p.file
           x == NF!Newest(dfs.rows[Server][i] \cup {p.row})
<1>1. Directory(dfs) /\ Placed(dfs) /\ DOMAIN dfs.files \subseteq 1..MaxFiles
  BY ThothNodes DEF ThothInv, NamesInv, WellNamed, Directory
<1>2. Called /\ UNCHANGED <<thoth, installs>>
  BY DEF NF!Deliver, ThothInv
<1>3. CASE UNCHANGED <<dfs, thread>>
  <2>1. AsBefore(dfs, dfs')
    BY <1>1, <1>3 DEF AsBefore
  <2> QED BY <1>2, <1>3, <2>1, Elsewhere
<1>4. CASE dfs' = [dfs EXCEPT !.rows[Server][i] = x] /\ ~NF!IsThoth(i) /\ UNCHANGED thread
  <2>1. RowsAre(dfs, dfs', i, x)
    BY <1>1, <1>4, RowsHere
  <2>2. Called'
    BY <1>2, <1>4 DEF Called
  <2>3. ASSUME thoth.enabled, NEW j \in NF!ThothFiles(Server)', dfs'.copy[Server][j] = "ready"
        PROVE  Sure(j)'
    <3>1. j \in NF!ThothFiles(Server) /\ j # i /\ dfs.copy[Server][j] = "ready" /\ j \in 1..MaxFiles
      BY <1>1, <1>4, <2>1, <2>3 DEF RowsAre, NF!ThothFiles, NF!Search, NF!IsThoth
    <3>2. Sure(j)
      BY <2>3, <3>1 DEF ThothInv, Informed
    <3>3. NF!LiveRows(dfs, Server, j)' = NF!LiveRows(dfs, Server, j)
      BY <2>1, <3>1 DEF RowsAre, NF!LiveRows, NF!Loads
    <3> QED BY <1>2, <1>4, <3>2, <3>3, SureStays
  <2> QED BY <1>2, <2>1, <2>2, <2>3, ChangedHere DEF RowsAre
<1>5. ASSUME dfs' = [dfs EXCEPT !.rows[Server][i] = x], thread["Net"] = <<>>,
             thread' = [thread EXCEPT !["Net"] = <<NF!Step("check", FALSE, {p.row})>>]
      PROVE  ThothInv'
  <2> DEFINE y == NF!Step("check", FALSE, {p.row})
  <2>1. RowsAre(dfs, dfs', i, x)
    BY <1>1, <1>5, RowsHere
  <2>2. y.got = {p.row} /\ NetCalls(<<y>>)
    BY DEF NF!Step, NetCalls
  <2>3. thread' = [thread EXCEPT !["Net"] = <<y>>]
    BY <1>5
  <2> HIDE DEF y
  <2>4. /\ thread' = [u \in NF!Threads |-> thread'[u]] /\ thread'["Net"] = <<y>>
        /\ thread'["App"] = thread["App"] /\ thread'["Dfs"] = thread["Dfs"]
    BY <1>2, <2>3 DEF Called, NF!Threads
  <2>5. Called'
    BY <1>2, <2>2, <2>4 DEF Called
  <2>6. (Again => Again') /\ \A r : (Got(r) => Got(r)') /\ (Knows(r) => Knows(r)') /\ ~Seen(r)
    BY <1>2, <1>5, <2>4 DEF Again, Got, Knows, Seen
  <2>7. \A r : r.live /\ r = p.row => Seen(r)'
    <3>1. <<y>> # <<>> /\ <<y>>[1] = y
      BY ShortCalls
    <3> QED BY <2>2, <2>4, <3>1 DEF Seen, NF!SameRow
  <2>8. ASSUME thoth.enabled, NEW j \in NF!ThothFiles(Server)', dfs'.copy[Server][j] = "ready"
        PROVE  Sure(j)'
    <3>1. j \in NF!ThothFiles(Server) /\ dfs.copy[Server][j] = "ready" /\ j \in 1..MaxFiles
      BY <1>1, <2>1, <2>8 DEF RowsAre, NF!ThothFiles, NF!Search
    <3>2. Sure(j)
      BY <2>8, <3>1 DEF ThothInv, Informed
    <3>3. \A r \in NF!LiveRows(dfs, Server, j)' :
            r.live /\ (r \in NF!LiveRows(dfs, Server, j) \/ r = p.row)
      <4>1. dfs'.rows[Server][j] \subseteq dfs.rows[Server][j] \cup {p.row}
        BY <2>1, <3>1 DEF RowsAre, NF!Newest
      <4> QED BY <2>1, <3>1, <4>1 DEF RowsAre, NF!LiveRows, NF!Loads
    <3> QED BY <1>2, <2>6, <2>7, <3>2, <3>3 DEF Sure
  <2> QED BY <1>2, <2>1, <2>5, <2>8, ChangedHere DEF RowsAre
<1> QED BY <1>3, <1>4, <1>5 DEF NF!Deliver

(* Nothing is known of any vector at first. *)
LEMMA InitThoth == NF!Init => ThothInv
<1> SUFFICES ASSUME NF!Init PROVE ThothInv
  OBVIOUS
<1> DEFINE empty == [i \in 1..MaxFiles |-> {}]
           copies == [n \in NF!Nodes |-> [i \in 1..MaxFiles |-> "none"]]
           rows0 == [n \in NF!Nodes |-> empty]
<1>1. NamesInv
  BY InitNames
<1>2. installs[Founder] = 0
  BY ThothNodes DEF NF!Init
<1>3. dfs.files = <<>> /\ dfs.copy = copies /\ dfs.rows = rows0
  BY DEF NF!Init
<1>4. Placed(dfs)
  <2>1. \A i \in 1..MaxFiles : dfs.copy[Server][i] = "none"
    BY <1>3, ThothNodes
  <2>2. empty \in [1..MaxFiles -> {{}}]
    OBVIOUS
  <2> HIDE DEF empty
  <2>3. dfs.rows \in [NF!Nodes -> [1..MaxFiles -> {{}}]]
    BY <1>3, <2>2
  <2>4. DOMAIN dfs.files = {}
    BY <1>3
  <2> QED BY <2>1, <2>3, <2>4 DEF Placed
<1>5. thread = [t \in NF!Threads |-> <<>>]
  BY DEF NF!Init
<1>6. Called
  BY <1>5 DEF Called, AppCalls, DfsCalls, NetCalls, NF!Threads
<1>7. Listening /\ ~thoth.enabled
  BY DEF NF!Init, NF!NoThoth, Listening
<1> QED BY <1>1, <1>2, <1>4, <1>6, <1>7 DEF ThothInv, Informed

(* No step loses a record. *)
LEMMA ThothStep == ThothInv /\ NF!Next => ThothInv'
<1> SUFFICES ASSUME ThothInv, NF!Next PROVE ThothInv'
  OBVIOUS
<1>1. NamesInv'
  BY NamesStep DEF ThothInv
<1>2. NothingHere => ThothInv'
  BY <1>1, Elsewhere DEF NothingHere
<1>3. Server \notin Devices /\ Devices \subseteq NF!Nodes /\ Founder \in NF!Nodes /\ Founder # Server
      /\ Devices \subseteq NF!Nodes \ {Server} /\ NF!Nodes = Devices \cup {Founder, Server}
  BY ThothNodes DEF NF!Nodes
<1>4. CASE NF!Create
  BY <1>2, <1>4, CreatedElsewhere
<1>5. ASSUME NEW k \in Keys, NF!SetAllocation(k) \/ NF!RemoveAllocation(k) PROVE ThothInv'
  BY <1>2, <1>3, <1>5, RowsElsewhere
<1>6. ASSUME NEW n \in Devices, NEW k \in Keys, NF!AddFileId(n, k) \/ NF!AddThothRecord(n, k)
      PROVE  ThothInv'
  BY <1>2, <1>3, <1>6, RowsElsewhere
<1>7. ASSUME NEW n \in Devices,
             NF!Rename(n, NF!Renamed) \/ NF!ReadRenames(n) \/ NF!Restart(n)
      PROVE  ThothInv'
  BY <1>2, <1>7, RenamedElsewhere
<1>8. ASSUME NEW n \in Devices, NF!Reinstall(n) PROVE ThothInv'
  BY <1>1, <1>2, <1>8, ReinstalledElsewhere
<1>9. ASSUME NEW n \in NF!Nodes, NEW m \in NF!Nodes, NEW i \in DOMAIN dfs.files,
             NF!Announce(n, i) \/ NF!Content(n, m, i)
      PROVE  ThothInv'
  <2>1. CASE n = Server
    BY <1>1, <1>9, <2>1, AnnounceInforms, ContentInforms
  <2>2. CASE n # Server
    BY <1>2, <1>9, <2>2, RowsElsewhere
  <2> QED BY <2>1, <2>2
<1>10. ASSUME NEW p, NF!Deliver(p) PROVE ThothInv'
  <2>1. CASE p.to = Server
    BY <1>1, <1>10, <2>1, DeliverInforms
  <2>2. CASE p.to # Server
    BY <1>2, <1>3, <1>10, <2>2, RowsElsewhere
  <2> QED BY <2>1, <2>2
<1>11. CASE NF!Restart(Server) \/ NF!StartThoth \/ NF!StopThoth
  BY <1>11, StartsInform
<1>12. ASSUME NEW t \in NF!Threads, NF!Lookup(t) \/ NF!Select(t) \/ NF!Insert(t) PROVE ThothInv'
  BY <1>12, LookupInforms, SelectInforms, InsertInforms
<1>13. CASE NF!Finish \/ NF!Waited \/ NF!Bind \/ NF!Check \/ NF!Record
  BY <1>1, <1>13, FinishInforms, WaitedInforms, BindInforms, CheckInforms, RecordInforms
<1> QED
  BY <1>3, <1>4, <1>5, <1>6, <1>7, <1>8, <1>9, <1>10, <1>11, <1>12, <1>13
     DEF NF!Next, NF!Backfill

(* Once no call is under way, none is on its way. *)
LEMMA ThothInformed == ThothInv => ThothKnows
<1> SUFFICES ASSUME ThothInv, thoth.enabled, \A t \in NF!Threads : thread[t] = <<>>,
                    NEW i \in NF!ThothFiles(Server), dfs.copy[Server][i] = "ready",
                    NEW r \in NF!LiveRows(dfs, Server, i), r.by # Server
             PROVE  Knows(r)
  BY DEF ThothKnows, NF!ThothKnows, Knows
<1>1. thread["App"] = <<>> /\ thread["Dfs"] = <<>> /\ thread["Net"] = <<>>
  BY DEF NF!Threads
<1>2. ~Again /\ ~Got(r) /\ ~Seen(r)
  BY <1>1 DEF Again, Ends, Reading, Got, Holds, Seen
<1> QED BY <1>2 DEF ThothInv, Informed, Sure

(* Whenever Thoth is started and stopped, its vector looked up, downloaded *)
(* and bound and records received, each step on the thread of its own,     *)
(* Thoth knows whom to notify of every record of the complete vector once  *)
(* these calls have ended (read_all, bind and the handler of rows).        *)
THEOREM RecordsKnown == DeviceSpec => []ThothKnows
<1>1. DeviceInit => ThothInv
  BY InitThoth DEF DeviceInit
<1>2. ThothInv
        /\ [DeviceNext]_<<part, vars, filesVars, transactionsVars, rewardsVars, messagesVars>>
      => ThothInv'
  <2>1. ASSUME ThothInv, UNCHANGED filesVars PROVE ThothInv'
    <3>1. NamesInv'
      BY <2>1 DEF filesVars, NamesInv, ThothInv
    <3>2. UNCHANGED <<dfs, thoth, thread, installs>>
      BY <2>1 DEF filesVars
    <3>3. AsBefore(dfs, dfs')
      BY <2>1, <3>2 DEF AsBefore, ThothInv, NamesInv, WellNamed
    <3> QED BY <2>1, <3>1, <3>2, <3>3, Elsewhere
  <2> QED
    BY <2>1, ThothStep
       DEF DeviceNext, StepProfiles, StepFiles, StepTransactions, StepRewards, StepMessages
<1>3. ThothInv => ThothKnows
  BY ThothInformed
<1> QED BY <1>1, <1>2, <1>3, PTL DEF DeviceSpec

------------------------------------------------------------------------------
(* The messages of a connection.  While it can still become or is active,  *)
(* at most one write and one dequeue are posted, the write first; a        *)
(* message is in its queue, in the posted write or written.                *)

Calls == [do : {"dequeue", "hello"}] \cup [do : {"write"}, p : SQ!Priorities, m : Nat]
         \cup [do : {"binary"}, m : Nat]

MessagesTyped ==
  /\ socket \in {"opening", "active", "broken", "closed"}
  /\ queue \in [SQ!Priorities -> Seq(Nat)] /\ taken \in [SQ!Priorities -> Seq(Nat)]
  /\ written \in [SQ!Priorities -> Seq(Nat)]
  /\ posted \in Seq(Calls) /\ cache \in Seq(Nat) /\ handled \in Seq(Nat)
  /\ buffer \in Nat /\ arrived \in Nat
  /\ dequeue_pending \in BOOLEAN /\ waiting_buffer_space \in BOOLEAN

IsOpen == socket \in {"opening", "active"}

Is(i, do) == i \in DOMAIN posted /\ posted[i].do = do

CallsInOrder ==
  /\ \A i, j : Is(i, "write") /\ Is(j, "write") => i = j
  /\ \A i, j : Is(i, "dequeue") /\ Is(j, "dequeue") => i = j
  /\ \A i, j : Is(i, "write") /\ Is(j, "dequeue") => i < j

Kept ==
  /\ \A p \in SQ!Priorities :
       (\A i : Is(i, "write") => posted[i].p # p) => taken[p] = written[p] \o queue[p]
  /\ \A i : Is(i, "write") =>
       taken[posted[i].p] = written[posted[i].p] \o (<<posted[i].m>> \o queue[posted[i].p])

WillWake ==
  /\ dequeue_pending <=> \E i : Is(i, "dequeue")
  /\ queue # SQ!NoMessages <=> dequeue_pending \/ waiting_buffer_space
  /\ waiting_buffer_space => dequeue_pending \/ buffer > 0
  /\ buffer <= Room
  /\ (\E i : Is(i, "write")) => buffer < Room
  /\ socket = "opening" => queue = SQ!NoMessages /\ \A i : ~Is(i, "write")

Handled == Len(handled) + Len(cache)

InOrder ==
  /\ \A i \in DOMAIN handled : handled[i] = i
  /\ \A i \in DOMAIN cache : cache[i] = i
  /\ socket = "opening" => handled = <<>>
  /\ socket = "active" => cache = <<>>
  /\ Handled <= arrived
  /\ \A i : Is(i, "binary") => Handled < posted[i].m /\ posted[i].m <= arrived
  /\ \A m \in Nat : Handled < m /\ m <= arrived => \E i : Is(i, "binary") /\ posted[i].m = m
  /\ \A i, j : Is(i, "binary") /\ Is(j, "binary") /\ i < j => posted[i].m < posted[j].m

MessagesInv == MessagesTyped /\ (IsOpen => CallsInOrder /\ Kept /\ WillWake /\ InOrder)

(* A call is posted behind the others, and the first one is taken.         *)
LEMMA Posts ==
  ASSUME posted \in Seq(Calls), NEW c \in Calls, posted' = Append(posted, c)
  PROVE  /\ posted' \in Seq(Calls)
         /\ DOMAIN posted' = DOMAIN posted \cup {Len(posted) + 1}
         /\ \A i \in DOMAIN posted : posted'[i] = posted[i] /\ i < Len(posted) + 1
         /\ Len(posted) + 1 \notin DOMAIN posted
         /\ posted'[Len(posted) + 1] = c
OBVIOUS

LEMMA Takes ==
  ASSUME posted \in Seq(Calls), posted # <<>>, posted' = Tail(posted)
  PROVE  /\ posted' \in Seq(Calls) /\ Head(posted) = posted[1] /\ 1 \in DOMAIN posted
         /\ \A i \in DOMAIN posted' : i \in Nat /\ i + 1 \in DOMAIN posted /\ posted'[i] = posted[i + 1]
         /\ \A i \in DOMAIN posted : i # 1 => i - 1 \in DOMAIN posted' /\ posted'[i - 1] = posted[i]
OBVIOUS

LEMMA CallFields ==
  \A c \in Calls : /\ c.do \in {"dequeue", "hello", "write", "binary"}
                   /\ c.do = "write" => c.p \in SQ!Priorities /\ c.m \in Nat
                   /\ c.do = "binary" => c.m \in Nat
BY DEF Calls

LEMMA Joined ==
  ASSUME NEW a \in Seq(Nat), NEW b \in Seq(Nat), NEW x \in Nat
  PROVE  /\ Append(a \o b, x) = a \o Append(b, x)
         /\ a \o (<<x>> \o b) = Append(a, x) \o b
         /\ a \o (<<x>> \o b) = a \o <<x>> \o b
         /\ a \o b = a \o <<>> \o b
         /\ a \o b \in Seq(Nat)
<1>1. <<x>> \in Seq(Nat) /\ <<>> \in Seq(Nat) /\ a \o b \in Seq(Nat)
  BY ConcatProperties
<1>2. Append(a \o b, x) = a \o b \o <<x>> /\ Append(b, x) = b \o <<x>> /\ Append(a, x) = a \o <<x>>
  BY <1>1, AppendIsConcat
<1>3. ASSUME NEW c \in Seq(Nat), NEW d \in Seq(Nat) PROVE (a \o c) \o d = a \o (c \o d)
  <2>1. /\ (a \o c) \o d \in Seq(Nat) /\ a \o (c \o d) \in Seq(Nat)
        /\ Len((a \o c) \o d) = Len(a \o (c \o d))
    BY ConcatProperties
  <2>2. ASSUME NEW i \in 1..Len((a \o c) \o d) PROVE ((a \o c) \o d)[i] = (a \o (c \o d))[i]
    OBVIOUS
  <2>3. \A s, t \in Seq(Nat) : Len(s) = Len(t) /\ (\A i \in 1..Len(s) : s[i] = t[i]) => s = t
    BY SeqEqual
  <2> QED BY <2>1, <2>2, <2>3
<1>4. a \o <<>> = a
  BY ConcatEmptySeq
<1>5. (a \o <<x>>) \o b = a \o (<<x>> \o b)
  BY <1>1, <1>3
<1>6. (a \o b) \o <<x>> = a \o (b \o <<x>>)
  BY <1>1, <1>3
<1> QED BY <1>1, <1>2, <1>4, <1>5, <1>6

LEMMA Split ==
  ASSUME NEW b \in Seq(Nat), b # <<>>
  PROVE  /\ Head(b) \in Nat /\ Tail(b) \in Seq(Nat)
         /\ b = <<Head(b)>> \o Tail(b)
<1>1. Head(b) \in Nat /\ Tail(b) \in Seq(Nat) /\ <<Head(b)>> \in Seq(Nat)
  BY HeadTailProperties
<1>2. PICK a \in Seq(Nat) : a = <<Head(b)>> \o Tail(b)
  BY <1>1, ConcatProperties
<1>3. Len(a) = Len(b) /\ \A i \in 1..Len(b) : a[i] = b[i]
  BY <1>1, <1>2, HeadTailProperties, ConcatProperties
<1> QED BY <1>1, <1>2, <1>3

LEMMA InitMessages == SQ!Init => MessagesInv
<1> SUFFICES ASSUME SQ!Init PROVE MessagesInv
  OBVIOUS
<1>1. Room \in Nat \ {0}
  BY DeviceAssumption DEF SQ!SendQueueAssumption
<1>2. posted = <<[do |-> "hello"]>> /\ [do |-> "hello"] \in Calls
  BY DEF SQ!Init, Calls
<1>3. posted \in Seq(Calls) /\ DOMAIN posted = {1} /\ posted[1].do = "hello"
  BY <1>2
<1>4. \A p \in SQ!Priorities : SQ!NoMessages[p] = <<>>
  BY DEF SQ!NoMessages
<1>5. MessagesTyped
  <2>1. SQ!NoMessages \in [SQ!Priorities -> Seq(Nat)]
    BY DEF SQ!NoMessages
  <2>2. 0 \in Nat /\ <<>> \in Seq(Nat)
    OBVIOUS
  <2> QED BY <1>3, <2>1, <2>2 DEF SQ!Init, MessagesTyped
<1>6. CallsInOrder /\ WillWake
  BY <1>1, <1>3 DEF SQ!Init, CallsInOrder, WillWake, Is
<1>7. Kept
  <2>1. <<>> = <<>> \o <<>>
    OBVIOUS
  <2> QED BY <1>3, <1>4, <2>1 DEF SQ!Init, Kept, Is
<1>8. InOrder
  BY <1>3 DEF SQ!Init, InOrder, Handled, Is
<1> QED BY <1>5, <1>6, <1>7, <1>8 DEF MessagesInv

LEMMA SomeQueued ==
  ASSUME NEW q \in [SQ!Priorities -> Seq(Nat)]
  PROVE  q # SQ!NoMessages <=> \E p \in SQ!Priorities : q[p] # <<>>
BY DEF SQ!NoMessages

(* A wakeup that is posted, when none is, disturbs no other call.          *)
LEMMA Wakes ==
  ASSUME posted \in Seq(Calls), CallsInOrder, InOrder,
         \/ UNCHANGED posted
         \/ posted' = Append(posted, [do |-> "dequeue"]) /\ \A i : ~Is(i, "dequeue"),
         UNCHANGED <<socket, cache, handled, arrived>>
  PROVE  /\ posted' \in Seq(Calls) /\ CallsInOrder' /\ InOrder'
         /\ \A i : Is(i, "write")' <=> Is(i, "write")
         /\ \A i : Is(i, "write") => posted'[i] = posted[i]
         /\ ~UNCHANGED posted => \E i : Is(i, "dequeue")'
         /\ UNCHANGED posted => \A i : Is(i, "dequeue")' <=> Is(i, "dequeue")
<1>1. CASE UNCHANGED posted
  BY <1>1 DEF CallsInOrder, InOrder, Handled, Is
<1>2. CASE posted' = Append(posted, [do |-> "dequeue"]) /\ \A i : ~Is(i, "dequeue")
  <2> DEFINE c == [do |-> "dequeue"]
             n == Len(posted) + 1
  <2>1. c \in Calls /\ c.do = "dequeue"
    BY DEF Calls
  <2> HIDE DEF c
  <2>2. /\ posted' \in Seq(Calls)
        /\ DOMAIN posted' = DOMAIN posted \cup {n}
        /\ \A i \in DOMAIN posted : posted'[i] = posted[i] /\ i < n
        /\ n \notin DOMAIN posted
        /\ posted'[n] = c
    BY <1>2, <2>1, Posts DEF c
  <2> HIDE DEF n
  <2>3. \A i, do : Is(i, do)' <=> (Is(i, do) \/ (i = n /\ do = "dequeue"))
    BY <2>1, <2>2 DEF Is
  <2>4. CallsInOrder'
    BY <1>2, <2>2, <2>3 DEF CallsInOrder, Is
  <2>5. InOrder'
    BY <2>2, <2>3 DEF InOrder, Handled, Is
  <2> QED BY <2>2, <2>3, <2>4, <2>5 DEF Is
<1> QED BY <1>1, <1>2

LEMMA SendStep ==
  ASSUME MessagesInv, NEW p \in SQ!Priorities, SQ!SendMessage(p)
  PROVE  MessagesInv'
<1> DEFINE n == SQ!Sent + 1
           q == [queue EXCEPT ![p] = Append(@, n)]
<1>1. /\ MessagesTyped /\ CallsInOrder /\ Kept /\ WillWake /\ InOrder /\ socket = "active"
  BY DEF MessagesInv, SQ!SendMessage, IsOpen
<1>2. n \in Nat
  <2>1. \A s \in Seq(Nat) : Len(s) \in Nat
    OBVIOUS
  <2>2. /\ taken["High"] \in Seq(Nat) /\ taken["Normal"] \in Seq(Nat)
        /\ taken["Low"] \in Seq(Nat)
    BY <1>1 DEF MessagesTyped, SQ!Priorities
  <2>3. /\ Len(taken["High"]) \in Nat /\ Len(taken["Normal"]) \in Nat
        /\ Len(taken["Low"]) \in Nat
    BY <2>1, <2>2
  <2>4. \A x, y, z \in Nat : x + y + z + 1 \in Nat
    OBVIOUS
  <2> QED BY <2>3, <2>4, Zenon DEF SQ!Sent
<1>3. /\ queue' = q /\ taken' = [taken EXCEPT ![p] = Append(@, n)]
      /\ UNCHANGED <<socket, waiting_buffer_space, buffer, cache, arrived, handled, written>>
  BY DEF SQ!SendMessage, SQ!receiving
<1>4. IF waiting_buffer_space THEN UNCHANGED <<dequeue_pending, posted>>
      ELSE SQ!ScheduleDequeue(queue', dequeue_pending, posted)
  BY DEF SQ!SendMessage
<1> HIDE DEF n
<1>5. /\ queue' \in [SQ!Priorities -> Seq(Nat)] /\ taken' \in [SQ!Priorities -> Seq(Nat)]
      /\ queue'[p] # <<>>
  <2>1. \A s \in Seq(Nat) : Append(s, n) \in Seq(Nat) /\ Append(s, n) # <<>>
    BY <1>2, AppendProperties
  <2>2. queue \in [SQ!Priorities -> Seq(Nat)] /\ taken \in [SQ!Priorities -> Seq(Nat)]
    BY <1>1 DEF MessagesTyped
  <2> QED BY <1>3, <2>1, <2>2
<1>6. queue' # SQ!NoMessages
  BY <1>5, SomeQueued
<1>7. \/ (waiting_buffer_space \/ dequeue_pending) /\ UNCHANGED <<dequeue_pending, posted>>
      \/ /\ ~waiting_buffer_space /\ ~dequeue_pending /\ dequeue_pending' = TRUE
         /\ posted' = Append(posted, [do |-> "dequeue"])
  BY <1>1, <1>4, <1>6 DEF SQ!ScheduleDequeue, MessagesTyped
<1>8. \/ UNCHANGED posted
      \/ posted' = Append(posted, [do |-> "dequeue"]) /\ \A i : ~Is(i, "dequeue")
  BY <1>1, <1>7 DEF WillWake
<1>9. /\ posted' \in Seq(Calls) /\ CallsInOrder' /\ InOrder'
      /\ \A i : Is(i, "write")' <=> Is(i, "write")
      /\ \A i : Is(i, "write") => posted'[i] = posted[i]
      /\ ~UNCHANGED posted => \E i : Is(i, "dequeue")'
      /\ UNCHANGED posted => \A i : Is(i, "dequeue")' <=> Is(i, "dequeue")
  BY <1>1, <1>3, <1>8, Wakes DEF MessagesTyped
<1>10. MessagesTyped'
  BY <1>1, <1>3, <1>5, <1>7, <1>9 DEF MessagesTyped
<1>11. WillWake'
  BY <1>1, <1>3, <1>6, <1>7, <1>9, SMTT(30) DEF WillWake
<1>12. Kept'
  <2> DEFINE Keeps(s, r) == taken[s] = written[s] \o r \o queue[s]
  <2>1. ASSUME NEW s \in SQ!Priorities, NEW r \in Seq(Nat), taken[s] = written[s] \o (r \o queue[s])
        PROVE  taken'[s] = written'[s] \o (r \o queue'[s])
    <3>1. CASE s = p
      <4>1. queue'[s] = Append(queue[s], n) /\ taken'[s] = Append(taken[s], n)
        BY <1>1, <1>3, <3>1 DEF MessagesTyped
      <4>2. queue[s] \in Seq(Nat) /\ written[s] \in Seq(Nat) /\ r \o queue[s] \in Seq(Nat)
        BY <1>1, Joined DEF MessagesTyped
      <4>3. Append(r \o queue[s], n) = r \o Append(queue[s], n)
        BY <1>2, <4>2, Joined
      <4>4. Append(written[s] \o (r \o queue[s]), n) = written[s] \o Append(r \o queue[s], n)
        BY <1>2, <4>2, Joined, ZenonT(30)
      <4> QED BY <1>3, <2>1, <4>1, <4>3, <4>4
    <3>2. CASE s # p
      BY <1>1, <1>3, <2>1, <3>2 DEF MessagesTyped
    <3> QED BY <3>1, <3>2
  <2>2. ASSUME NEW s \in SQ!Priorities, \A i : Is(i, "write")' => posted'[i].p # s
        PROVE  taken'[s] = written'[s] \o queue'[s]
    <3>1. taken[s] = written[s] \o queue[s]
      BY <1>1, <1>9, <2>2 DEF Kept
    <3>2. <<>> \in Seq(Nat) /\ <<>> \o queue[s] = queue[s] /\ <<>> \o queue'[s] = queue'[s]
      BY <1>1, <1>5, ConcatEmptySeq DEF MessagesTyped
    <3> QED BY <2>1, <3>1, <3>2
  <2>3. ASSUME NEW i, Is(i, "write")'
        PROVE  taken'[posted'[i].p] = written'[posted'[i].p] \o (<<posted'[i].m>> \o queue'[posted'[i].p])
    <3>1. Is(i, "write") /\ posted'[i] = posted[i]
      BY <1>9, <2>3
    <3>2. posted[i].p \in SQ!Priorities /\ <<posted[i].m>> \in Seq(Nat)
      BY <1>1, <3>1, CallFields DEF Is, MessagesTyped
    <3> QED BY <1>1, <2>1, <3>1, <3>2 DEF Kept
  <2> QED BY <2>2, <2>3 DEF Kept
<1> QED BY <1>9, <1>10, <1>11, <1>12 DEF MessagesInv

(* The first call is taken; it was not a message that had arrived.         *)
LEMMA TakesCall ==
  ASSUME posted \in Seq(Calls), posted # <<>>, posted' = Tail(posted)
  PROVE  /\ posted' \in Seq(Calls) /\ Is(1, Head(posted).do) /\ Head(posted) = posted[1]
         /\ \A i, do : Is(i, do)' => i \in Nat /\ Is(i + 1, do) /\ posted'[i] = posted[i + 1]
         /\ \A i, do : Is(i, do) /\ i # 1 => i \in Nat /\ Is(i - 1, do)' /\ posted'[i - 1] = posted[i]
         /\ CallsInOrder => CallsInOrder'
         /\ InOrder /\ Head(posted).do # "binary" /\ UNCHANGED <<socket, cache, handled, arrived>>
              => InOrder'
<1>1. /\ posted' \in Seq(Calls) /\ Head(posted) = posted[1] /\ 1 \in DOMAIN posted
      /\ \A i \in DOMAIN posted' : i \in Nat /\ i + 1 \in DOMAIN posted /\ posted'[i] = posted[i + 1]
      /\ \A i \in DOMAIN posted : i # 1 => i - 1 \in DOMAIN posted' /\ posted'[i - 1] = posted[i]
  BY Takes
<1>2. DOMAIN posted \subseteq Nat /\ DOMAIN posted' \subseteq Nat
  BY <1>1
<1>3. \A i, do : Is(i, do)' => i \in Nat /\ Is(i + 1, do) /\ posted'[i] = posted[i + 1]
  BY <1>1 DEF Is
<1>4. \A i, do : Is(i, do) /\ i # 1 => i \in Nat /\ Is(i - 1, do)' /\ posted'[i - 1] = posted[i]
  BY <1>1, <1>2 DEF Is
<1>5. Is(1, Head(posted).do)
  BY <1>1 DEF Is
<1>6. CallsInOrder => CallsInOrder'
  <2> SUFFICES ASSUME CallsInOrder PROVE CallsInOrder'
    OBVIOUS
  <2>1. ASSUME NEW i, NEW j, NEW do \in {"write", "dequeue"}, Is(i, do)', Is(j, do)' PROVE i = j
    <3>1. i \in Nat /\ Is(i + 1, do) /\ j \in Nat /\ Is(j + 1, do)
      BY <1>3, <2>1
    <3>2. i + 1 = j + 1
      BY <3>1 DEF CallsInOrder
    <3> QED BY <3>1, <3>2
  <2>2. ASSUME NEW i, NEW j, Is(i, "write")', Is(j, "dequeue")' PROVE i < j
    <3>1. i \in Nat /\ Is(i + 1, "write") /\ j \in Nat /\ Is(j + 1, "dequeue")
      BY <1>3, <2>2
    <3>2. i + 1 < j + 1
      BY <3>1 DEF CallsInOrder
    <3> QED BY <3>1, <3>2
  <2> QED BY <2>1, <2>2 DEF CallsInOrder
<1>7. ASSUME InOrder, Head(posted).do # "binary", UNCHANGED <<cache, handled, arrived>>,
             UNCHANGED socket
      PROVE  InOrder'
  <2>1. ~Is(1, "binary")
    BY <1>1, <1>7 DEF Is
  <2>2. ASSUME NEW i, NEW j, Is(i, "binary")', Is(j, "binary")', i < j
        PROVE  posted'[i].m < posted'[j].m
    <3>1. /\ i \in Nat /\ Is(i + 1, "binary") /\ posted'[i] = posted[i + 1]
          /\ j \in Nat /\ Is(j + 1, "binary") /\ posted'[j] = posted[j + 1]
      BY <1>3, <2>2
    <3>2. i + 1 < j + 1
      BY <2>2, <3>1
    <3> QED BY <1>7, <3>1, <3>2 DEF InOrder
  <2>3. Handled' = Handled
    BY <1>7 DEF Handled
  <2>4. ASSUME NEW i, Is(i, "binary")'
        PROVE  Handled < posted'[i].m /\ posted'[i].m <= arrived
    BY <1>3, <1>7, <2>4 DEF InOrder
  <2>5. ASSUME NEW m \in Nat, Handled < m, m <= arrived
        PROVE  \E i : Is(i, "binary")' /\ posted'[i].m = m
    <3>1. PICK i : Is(i, "binary") /\ posted[i].m = m
      BY <1>7, <2>5 DEF InOrder
    <3> QED BY <1>4, <2>1, <3>1
  <2> HIDE DEF Handled
  <2> QED BY <1>7, <2>2, <2>3, <2>4, <2>5 DEF InOrder
<1> QED BY <1>1, <1>3, <1>4, <1>5, <1>6, <1>7

(* The priority of the message that is taken, and what is left.            *)
LEMMA HighestQueued ==
  ASSUME MessagesTyped, queue # SQ!NoMessages
  PROVE  SQ!Highest \in SQ!Priorities /\ queue[SQ!Highest] # <<>>
<1>1. \E p \in SQ!Priorities : queue[p] # <<>>
  BY SomeQueued DEF MessagesTyped
<1> QED BY <1>1 DEF SQ!Highest, SQ!Priorities

LEMMA RefusedStep ==
  ASSUME MessagesInv, SQ!Next1("dequeue"), ~SQ!CanSendMore, dequeue_pending' = FALSE,
         posted' = Tail(posted),
         waiting_buffer_space' = (waiting_buffer_space \/ socket # "closed"),
         UNCHANGED <<queue, socket, taken, buffer, cache, arrived, handled, written>>
  PROVE  MessagesInv'
<1>1. posted \in Seq(Calls) /\ posted # <<>> /\ Head(posted).do = "dequeue" /\ Room \in Nat \ {0}
  BY DeviceAssumption DEF MessagesInv, MessagesTyped, SQ!Next1, SQ!SendQueueAssumption
<1>2. /\ posted' \in Seq(Calls) /\ Is(1, "dequeue")
      /\ \A i, do : Is(i, do)' => i \in Nat /\ Is(i + 1, do) /\ posted'[i] = posted[i + 1]
      /\ \A i, do : Is(i, do) /\ i # 1 => i \in Nat /\ Is(i - 1, do)' /\ posted'[i - 1] = posted[i]
      /\ CallsInOrder => CallsInOrder'
      /\ InOrder => InOrder'
  BY <1>1, TakesCall
<1>3. MessagesTyped'
  BY <1>2 DEF MessagesInv, MessagesTyped
<1>4. ASSUME IsOpen PROVE CallsInOrder' /\ InOrder' /\ Kept' /\ WillWake'
  <2>1. CallsInOrder /\ InOrder /\ Kept /\ WillWake /\ MessagesTyped
    BY <1>4 DEF MessagesInv
  <2>2. queue # SQ!NoMessages /\ socket = "active" /\ buffer >= Room /\ buffer \in Nat
    BY <1>1, <1>2, <1>4, <2>1 DEF WillWake, IsOpen, SQ!CanSendMore, MessagesTyped
  <2>3. \A i : ~Is(i, "dequeue")'
    <3> SUFFICES ASSUME NEW i, Is(i, "dequeue")' PROVE FALSE
      OBVIOUS
    <3>1. i \in Nat /\ Is(i + 1, "dequeue")
      BY <1>2
    <3>2. i + 1 = 1
      BY <1>2, <2>1, <3>1 DEF CallsInOrder
    <3>3. Is(0, "dequeue")'
      BY <3>1, <3>2
    <3>4. 0 \notin DOMAIN posted'
      BY <1>2
    <3> QED BY <3>3, <3>4 DEF Is
  <2>4. \A i : ~Is(i, "write")
    BY <1>1, <2>1, <2>2 DEF WillWake
  <2>5. \A i : ~Is(i, "write")'
    BY <1>2, <2>4
  <2>6. Kept'
    BY <2>1, <2>4, <2>5 DEF Kept
  <2>7. WillWake'
    <3>1. waiting_buffer_space' = TRUE /\ dequeue_pending' = FALSE
      BY <2>2
    <3>2. buffer > 0 /\ buffer <= Room
      BY <1>1, <2>1, <2>2 DEF WillWake
    <3> QED BY <2>2, <2>3, <2>5, <3>1, <3>2 DEF WillWake
  <2> QED BY <1>2, <2>1, <2>6, <2>7
<1> QED BY <1>3, <1>4 DEF MessagesInv, IsOpen

(* A message leaves its queue for a posted write, behind which the next    *)
(* wakeup is posted while messages wait.                                   *)
LEMMA DequeueStep ==
  ASSUME MessagesInv, SQ!Next1("dequeue"), SQ!Dequeue,
         UNCHANGED <<socket, taken, buffer, cache, arrived, handled, written>>
  PROVE  MessagesInv'
<1> DEFINE p == SQ!Highest
           h == Head(queue[p])
           q == [queue EXCEPT ![p] = Tail(@)]
           w == [do |-> "write", p |-> p, m |-> h]
           d == [do |-> "dequeue"]
           rest == Tail(posted)
           n == Len(posted)
<1>1. /\ posted \in Seq(Calls) /\ posted # <<>> /\ Head(posted).do = "dequeue" /\ Room \in Nat \ {0}
      /\ socket = "active" /\ buffer < Room /\ waiting_buffer_space' = FALSE
      /\ CallsInOrder /\ InOrder /\ Kept /\ WillWake /\ MessagesTyped /\ IsOpen
  BY DeviceAssumption
     DEF MessagesInv, MessagesTyped, SQ!Next1, SQ!SendQueueAssumption, SQ!Dequeue, SQ!CanSendMore, IsOpen
<1>2. Is(1, "dequeue") /\ n \in Nat \ {0} /\ DOMAIN posted = 1..n
  BY <1>1 DEF Is
<1>3. queue # SQ!NoMessages
  BY <1>1, <1>2 DEF WillWake
<1>4. queue' = q /\ SQ!ScheduleDequeue(q, FALSE, Append(rest, w))
  BY <1>3 DEF SQ!Dequeue
<1>5. p \in SQ!Priorities /\ queue[p] # <<>>
  BY <1>1, <1>3, HighestQueued
<1>6. /\ h \in Nat /\ queue \in [SQ!Priorities -> Seq(Nat)]
      /\ Tail(queue[p]) \in Seq(Nat) /\ queue[p] = <<h>> \o Tail(queue[p])
  BY <1>1, <1>5, Split DEF MessagesTyped
<1>7. w \in Calls /\ w.do = "write" /\ w.p = p /\ w.m = h /\ d \in Calls /\ d.do = "dequeue"
  BY <1>5, <1>6 DEF Calls
<1>8. /\ q \in [SQ!Priorities -> Seq(Nat)] /\ q[p] = Tail(queue[p])
      /\ \A s \in SQ!Priorities : s # p => q[s] = queue[s]
  BY <1>5, <1>6
<1>9. \/ q = SQ!NoMessages /\ dequeue_pending' = FALSE /\ posted' = Append(rest, w)
      \/ q # SQ!NoMessages /\ dequeue_pending' = TRUE /\ posted' = Append(Append(rest, w), d)
  BY <1>4 DEF SQ!ScheduleDequeue
<1> HIDE DEF p, h, q, w, d
<1>10. /\ rest \in Seq(Calls) /\ Len(rest) = n - 1
       /\ \A i \in 1..(n - 1) : rest[i] = posted[i + 1]
  BY <1>1, HeadTailProperties
<1>11. /\ posted' \in Seq(Calls)
       /\ DOMAIN posted' = IF q = SQ!NoMessages THEN 1..n ELSE 1..(n + 1)
       /\ \A i \in 1..(n - 1) : posted'[i] = posted[i + 1]
       /\ posted'[n] = w
       /\ q # SQ!NoMessages => posted'[n + 1] = d
  <2> HIDE DEF rest
  <2>1. /\ Append(rest, w) \in Seq(Calls) /\ Len(Append(rest, w)) = n
        /\ \A i \in 1..(n - 1) : Append(rest, w)[i] = rest[i]
        /\ Append(rest, w)[n] = w
    <3>1. Len(rest) + 1 = n
      BY <1>2, <1>10
    <3>2. /\ Append(rest, w) \in Seq(Calls)
          /\ Len(Append(rest, w)) = Len(rest) + 1
          /\ \A i \in 1..Len(rest) : Append(rest, w)[i] = rest[i]
          /\ Append(rest, w)[Len(rest) + 1] = w
      BY <1>7, <1>10, AppendProperties
    <3> QED BY <1>10, <3>1, <3>2
  <2> DEFINE a == Append(rest, w)
  <2> HIDE DEF a
  <2>2. /\ Append(a, d) \in Seq(Calls) /\ Len(Append(a, d)) = n + 1
        /\ \A i \in 1..n : Append(a, d)[i] = a[i]
        /\ Append(a, d)[n + 1] = d
    BY <1>2, <1>7, <2>1, AppendProperties DEF a
  <2>3. \A s \in Seq(Calls) : DOMAIN s = 1..Len(s)
    OBVIOUS
  <2>4. CASE q = SQ!NoMessages
    <3>1. posted' = a
      BY <1>9, <2>4 DEF a
    <3> QED BY <1>10, <2>1, <2>3, <2>4, <3>1 DEF a
  <2>5. CASE q # SQ!NoMessages
    <3>1. posted' = Append(a, d)
      BY <1>9, <2>5 DEF a
    <3>2. \A i \in 1..(n - 1) : i \in 1..n
      BY <1>2
    <3>3. n \in 1..n
      BY <1>2
    <3>4. DOMAIN posted' = 1..(n + 1)
      BY <2>2, <2>3, <3>1
    <3>5. \A i \in 1..(n - 1) : posted'[i] = posted[i + 1]
      BY <1>10, <2>1, <2>2, <3>1, <3>2 DEF a
    <3> QED BY <2>1, <2>2, <2>5, <3>1, <3>3, <3>4, <3>5 DEF a
  <2> QED BY <2>4, <2>5
<1> HIDE DEF rest, n
<1>12. \A i, do : Is(i, do)' <=> \/ i \in 1..(n - 1) /\ Is(i + 1, do)
                                 \/ i = n /\ do = "write"
                                 \/ i = n + 1 /\ do = "dequeue" /\ q # SQ!NoMessages
  <2>1. \A i : i \in 1..(n - 1) => i + 1 \in 1..n
    BY <1>2
  <2>2. DOMAIN posted' = (1..(n - 1)) \cup {n} \cup (IF q = SQ!NoMessages THEN {} ELSE {n + 1})
    BY <1>2, <1>11
  <2>3. n \notin 1..(n - 1) /\ n + 1 \notin 1..(n - 1) /\ n # n + 1
    BY <1>2
  <2> QED BY <1>2, <1>7, <1>11, <2>1, <2>2, <2>3 DEF Is
<1>13. \A i \in 1..(n - 1) : ~Is(i + 1, "write") /\ ~Is(i + 1, "dequeue")
  <2>1. ASSUME NEW i \in 1..(n - 1), Is(i + 1, "write") \/ Is(i + 1, "dequeue") PROVE FALSE
    <3>1. Is(i + 1, "dequeue") => i + 1 = 1
      BY <1>1, <1>2 DEF CallsInOrder
    <3>2. Is(i + 1, "write") => i + 1 < 1
      BY <1>1, <1>2 DEF CallsInOrder
    <3>3. i + 1 <= 1
      BY <1>2, <2>1, <3>1, <3>2
    <3> QED BY <1>2, <3>3
  <2> QED BY <2>1
<1>14. \A i : /\ Is(i, "write")' <=> i = n
              /\ Is(i, "dequeue")' <=> i = n + 1 /\ q # SQ!NoMessages
  BY <1>2, <1>12, <1>13
<1>15. CallsInOrder'
  BY <1>2, <1>14 DEF CallsInOrder
<1>16. InOrder'
  <2>1. \A i : Is(i, "binary")' <=> i \in 1..(n - 1) /\ Is(i + 1, "binary")
    BY <1>12
  <2>2. Handled' = Handled
    BY DEF Handled
  <2>3. ASSUME NEW i, NEW j, Is(i, "binary")', Is(j, "binary")', i < j
        PROVE  posted'[i].m < posted'[j].m
    <3>1. i \in 1..(n - 1) /\ j \in 1..(n - 1) /\ Is(i + 1, "binary") /\ Is(j + 1, "binary")
      BY <2>1, <2>3
    <3>2. i + 1 < j + 1
      BY <1>2, <2>3, <3>1
    <3>3. posted[i + 1].m < posted[j + 1].m
      BY <1>1, <3>1, <3>2 DEF InOrder
    <3> QED BY <1>11, <3>1, <3>3
  <2>4. ASSUME NEW i, Is(i, "binary")'
        PROVE  Handled < posted'[i].m /\ posted'[i].m <= arrived
    BY <1>1, <1>11, <2>1, <2>4 DEF InOrder
  <2>5. ASSUME NEW m \in Nat, Handled < m, m <= arrived
        PROVE  \E i : Is(i, "binary")' /\ posted'[i].m = m
    <3>1. PICK i : Is(i, "binary") /\ posted[i].m = m
      BY <1>1, <2>5 DEF InOrder
    <3>2. i \in 2..n
      BY <1>1, <1>2, <3>1, "binary" # "dequeue" DEF Is
    <3>3. i - 1 \in 1..(n - 1) /\ i - 1 + 1 = i
      BY <1>2, <3>2
    <3> QED BY <1>11, <2>1, <3>1, <3>3
  <2> HIDE DEF Handled
  <2> QED BY <1>1, <2>2, <2>3, <2>4, <2>5 DEF InOrder
<1>17. WillWake'
  <2>1. waiting_buffer_space' = FALSE /\ buffer' < Room /\ buffer' <= Room /\ socket' = "active"
    BY <1>1 DEF MessagesTyped
  <2>2. /\ (\E i : Is(i, "write")') /\ queue' = q
        /\ (\E i : Is(i, "dequeue")') <=> q # SQ!NoMessages
    BY <1>4, <1>14
  <2>3. dequeue_pending' <=> q # SQ!NoMessages
    BY <1>9
  <2> QED BY <2>1, <2>2, <2>3, SMTT(30) DEF WillWake
<1>18. Kept'
  <2>1. \A i : ~Is(i, "write")
    <3> SUFFICES ASSUME NEW i, Is(i, "write") PROVE FALSE
      OBVIOUS
    <3>1. i < 1
      BY <1>1, <1>2 DEF CallsInOrder
    <3>2. i \in 1..n
      BY <1>2 DEF Is
    <3> QED BY <1>2, <3>1, <3>2
  <2>2. \A s \in SQ!Priorities : taken[s] = written[s] \o queue[s]
    BY <1>1, <2>1 DEF Kept
  <2>3. taken[p] = written[p] \o (<<h>> \o q[p])
    BY <1>5, <1>6, <1>8, <2>2
  <2>4. ASSUME NEW s \in SQ!Priorities, \A i : Is(i, "write")' => posted'[i].p # s
        PROVE  taken[s] = written[s] \o q[s]
    <3>1. s # p
      BY <1>7, <1>11, <1>14, <2>4
    <3> QED BY <1>8, <2>2, <3>1
  <2>5. ASSUME NEW i, Is(i, "write")'
        PROVE  posted'[i].p = p /\ posted'[i].m = h
    BY <1>7, <1>11, <1>14, <2>5
  <2> QED BY <1>4, <2>3, <2>4, <2>5 DEF Kept
<1>19. MessagesTyped'
  BY <1>1, <1>4, <1>8, <1>9, <1>11 DEF MessagesTyped
<1> QED BY <1>15, <1>16, <1>17, <1>18, <1>19 DEF MessagesInv

(* A write is handed to the socket.                                        *)
LEMMA WriteStep ==
  ASSUME MessagesInv, SQ!Next1("write"), posted' = Tail(posted), socket = "active",
         buffer' = buffer + 1,
         written' = [written EXCEPT ![Head(posted).p] = Append(@, Head(posted).m)],
         UNCHANGED <<socket, queue, dequeue_pending, waiting_buffer_space, taken, cache, arrived,
                     handled>>
  PROVE  MessagesInv'
<1> DEFINE p == Head(posted).p
           h == Head(posted).m
<1>1. /\ posted \in Seq(Calls) /\ posted # <<>> /\ Head(posted).do = "write" /\ Room \in Nat \ {0}
      /\ CallsInOrder /\ InOrder /\ Kept /\ WillWake /\ MessagesTyped /\ IsOpen
  BY DeviceAssumption DEF MessagesInv, MessagesTyped, SQ!Next1, SQ!SendQueueAssumption, IsOpen
<1>2. /\ posted' \in Seq(Calls) /\ Is(1, "write") /\ Head(posted) = posted[1]
      /\ \A i, do : Is(i, do)' => i \in Nat /\ Is(i + 1, do) /\ posted'[i] = posted[i + 1]
      /\ \A i, do : Is(i, do) /\ i # 1 => i \in Nat /\ Is(i - 1, do)' /\ posted'[i - 1] = posted[i]
      /\ CallsInOrder' /\ InOrder'
  BY <1>1, TakesCall
<1>3. p \in SQ!Priorities /\ h \in Nat
  <2>1. Head(posted) \in Calls
    BY <1>1
  <2> QED BY <1>1, <2>1, CallFields
<1>4. written' \in [SQ!Priorities -> Seq(Nat)] /\ written'[p] = Append(written[p], h)
      /\ \A s \in SQ!Priorities : s # p => written'[s] = written[s]
  <2>1. \A s \in Seq(Nat) : Append(s, h) \in Seq(Nat)
    BY <1>3, AppendProperties
  <2>2. written \in [SQ!Priorities -> Seq(Nat)] /\ written' = [written EXCEPT ![p] = Append(@, h)]
    BY <1>1 DEF MessagesTyped
  <2> HIDE DEF p, h
  <2> QED BY <1>3, <2>1, <2>2
<1>5. \A i : ~Is(i, "write")'
  <2> SUFFICES ASSUME NEW i, Is(i, "write")' PROVE FALSE
    OBVIOUS
  <2>1. i \in Nat /\ Is(i + 1, "write") /\ i \in DOMAIN posted'
    BY <1>2 DEF Is
  <2>2. i + 1 = 1
    BY <1>1, <1>2, <2>1 DEF CallsInOrder
  <2>3. 0 \notin DOMAIN posted'
    BY <1>2
  <2> QED BY <2>1, <2>2, <2>3
<1>6. \A i : Is(i, "write") => i = 1
  BY <1>1, <1>2 DEF CallsInOrder
<1>7. Kept'
  <2>1. taken[p] = written[p] \o (<<h>> \o queue[p])
    BY <1>1, <1>2 DEF Kept
  <2>2. written[p] \in Seq(Nat) /\ queue[p] \in Seq(Nat)
    BY <1>1, <1>3 DEF MessagesTyped
  <2>3. taken[p] = written'[p] \o queue[p]
    <3>1. written[p] \o (<<h>> \o queue[p]) = Append(written[p], h) \o queue[p]
      BY <1>3, <2>2, Joined
    <3> QED BY <1>4, <2>1, <3>1
  <2>4. \A s \in SQ!Priorities : s # p => taken[s] = written[s] \o queue[s]
    BY <1>1, <1>2, <1>6 DEF Kept
  <2> HIDE DEF p, h
  <2> QED BY <1>4, <1>5, <2>3, <2>4 DEF Kept
<1>8. WillWake'
  <2>1. (\E i : Is(i, "dequeue")') <=> (\E i : Is(i, "dequeue"))
    BY <1>1, <1>2 DEF Is
  <2>2. buffer < Room /\ buffer \in Nat
    BY <1>1, <1>2 DEF WillWake, MessagesTyped
  <2>3. buffer' > 0 /\ buffer' <= Room
    BY <1>1, <2>2
  <2> QED BY <1>1, <1>5, <2>1, <2>3 DEF WillWake
<1>9. MessagesTyped'
  <2>1. buffer' \in Nat
    BY <1>1 DEF MessagesTyped
  <2> QED BY <1>1, <1>2, <1>4, <2>1 DEF MessagesTyped
<1> QED BY <1>2, <1>7, <1>8, <1>9 DEF MessagesInv

(* What ends a connection, or is taken when it has ended, keeps the types. *)
LEMMA EndStep ==
  ASSUME MessagesInv, SQ!Closes,
         UNCHANGED posted \/ (posted # <<>> /\ posted' = Tail(posted))
  PROVE  MessagesInv'
<1>1. posted' \in Seq(Calls)
  BY TakesCall DEF MessagesInv, MessagesTyped
<1>2. SQ!NoMessages \in [SQ!Priorities -> Seq(Nat)] /\ <<>> \in Seq(Nat)
  BY DEF SQ!NoMessages
<1>3. socket' = "closed" /\ MessagesTyped'
  BY <1>1, <1>2 DEF SQ!Closes, MessagesInv, MessagesTyped
<1> QED BY <1>3 DEF MessagesInv, IsOpen

(* A written byte makes room, and wakes the queue when it waits for room.  *)
LEMMA BytesStep ==
  ASSUME MessagesInv, SQ!BytesWritten
  PROVE  MessagesInv'
<1>1. /\ posted \in Seq(Calls) /\ socket = "active" /\ Room \in Nat \ {0} /\ buffer \in Nat
      /\ CallsInOrder /\ InOrder /\ Kept /\ WillWake /\ MessagesTyped /\ IsOpen
  BY DeviceAssumption DEF MessagesInv, MessagesTyped, SQ!BytesWritten, SQ!SendQueueAssumption, IsOpen
<1>2. /\ buffer > 0 /\ buffer' = buffer - 1
      /\ UNCHANGED <<socket, queue, waiting_buffer_space, taken, cache, arrived, handled, written>>
      /\ IF waiting_buffer_space THEN SQ!ScheduleDequeue(queue, dequeue_pending, posted)
         ELSE UNCHANGED <<dequeue_pending, posted>>
  BY DEF SQ!BytesWritten, SQ!receiving
<1>3. \/ UNCHANGED <<dequeue_pending, posted>> /\ (dequeue_pending \/ ~waiting_buffer_space)
      \/ /\ ~dequeue_pending /\ dequeue_pending' = TRUE
         /\ posted' = Append(posted, [do |-> "dequeue"])
  BY <1>1, <1>2 DEF SQ!ScheduleDequeue, WillWake, MessagesTyped
<1>4. \/ UNCHANGED posted
      \/ posted' = Append(posted, [do |-> "dequeue"]) /\ \A i : ~Is(i, "dequeue")
  BY <1>1, <1>3 DEF WillWake
<1>5. /\ posted' \in Seq(Calls) /\ CallsInOrder' /\ InOrder'
      /\ \A i : Is(i, "write")' <=> Is(i, "write")
      /\ \A i : Is(i, "write") => posted'[i] = posted[i]
      /\ ~UNCHANGED posted => \E i : Is(i, "dequeue")'
      /\ UNCHANGED posted => \A i : Is(i, "dequeue")' <=> Is(i, "dequeue")
  BY <1>1, <1>2, <1>4, Wakes
<1>6. buffer' \in Nat /\ buffer' < buffer
  BY <1>1, <1>2
<1>7. MessagesTyped'
  BY <1>1, <1>2, <1>3, <1>5, <1>6 DEF MessagesTyped
<1>8. WillWake'
  <2>1. buffer' <= Room /\ ((\E i : Is(i, "write")') => buffer' < Room)
    BY <1>1, <1>5, <1>6 DEF WillWake
  <2>2. waiting_buffer_space => dequeue_pending'
    BY <1>3
  <2> QED BY <1>1, <1>2, <1>3, <1>5, <2>1, <2>2 DEF WillWake
<1>9. Kept'
  BY <1>1, <1>2, <1>5 DEF Kept
<1> QED BY <1>5, <1>7, <1>8, <1>9 DEF MessagesInv

(* What arrives is posted behind what arrived before.                      *)
LEMMA ArriveStep ==
  ASSUME MessagesInv, SQ!Arrive
  PROVE  MessagesInv'
<1> DEFINE c == [do |-> "binary", m |-> arrived + 1]
<1>1. /\ posted \in Seq(Calls) /\ arrived \in Nat /\ arrived' = arrived + 1
      /\ CallsInOrder /\ InOrder /\ Kept /\ WillWake /\ MessagesTyped
      /\ UNCHANGED <<socket, queue, dequeue_pending, waiting_buffer_space, taken, buffer, cache,
                     handled, written>>
      /\ posted' = Append(posted, c)
  BY DEF MessagesInv, MessagesTyped, SQ!Arrive, SQ!sending, IsOpen
<1>2. c \in Calls /\ c.do = "binary" /\ c.m = arrived + 1
  BY <1>1 DEF Calls
<1> HIDE DEF c
<1>3. PICK n \in Nat : n = Len(posted) + 1
  BY <1>1
<1>4. /\ posted' \in Seq(Calls)
      /\ DOMAIN posted' = DOMAIN posted \cup {n}
      /\ \A i \in DOMAIN posted : posted'[i] = posted[i] /\ i < n
      /\ n \notin DOMAIN posted
      /\ posted'[n] = c
  BY <1>3, <1>1, <1>2, Posts
<1>5. \A i, do : Is(i, do)' <=> Is(i, do) \/ (i = n /\ do = "binary")
  BY <1>2, <1>4 DEF Is
<1>6. \A i, do : Is(i, do) => posted'[i] = posted[i] /\ i < n /\ i \in Nat
  BY <1>1, <1>4 DEF Is
<1>7. \A i : /\ Is(i, "write")' <=> Is(i, "write")
             /\ Is(i, "dequeue")' <=> Is(i, "dequeue")
  BY <1>5
<1>8. CallsInOrder' /\ Kept' /\ WillWake'
  BY <1>1, <1>6, <1>7 DEF CallsInOrder, Kept, WillWake
<1>9. MessagesTyped'
  <2>1. arrived' \in Nat
    BY <1>1
  <2> QED BY <1>1, <1>4, <2>1 DEF MessagesTyped
<1>10. InOrder'
  <2>1. Handled' = Handled /\ Handled \in Nat
    BY <1>1 DEF Handled, MessagesTyped
  <2>2. ASSUME NEW i, Is(i, "binary")'
        PROVE  /\ i = n => posted'[i].m = arrived + 1
               /\ i # n => /\ Is(i, "binary") /\ posted'[i].m = posted[i].m /\ i < n
                           /\ Handled < posted[i].m /\ posted[i].m <= arrived
                           /\ posted[i].m \in Nat
    <3>1. i = n => posted'[i].m = arrived + 1
      BY <1>2, <1>4
    <3>2. i # n => Is(i, "binary") /\ posted'[i] = posted[i] /\ i < n
      BY <1>5, <1>6, <2>2
    <3>3. Is(i, "binary") => Handled < posted[i].m /\ posted[i].m <= arrived
      BY <1>1 DEF InOrder
    <3>4. Is(i, "binary") => posted[i].m \in Nat
      BY <1>1, CallFields DEF Is
    <3> QED BY <3>1, <3>2, <3>3, <3>4
  <2>3. ASSUME NEW i, Is(i, "binary")'
        PROVE  Handled' < posted'[i].m /\ posted'[i].m <= arrived'
    <3>1. Handled <= arrived
      BY <1>1 DEF InOrder
    <3>2. arrived \in Nat /\ arrived' = arrived + 1 /\ Handled' = Handled /\ Handled \in Nat
      BY <1>1, <2>1
    <3>3. CASE i = n
      <4>1. posted'[i].m = arrived + 1
        BY <2>2, <2>3, <3>3
      <4> QED BY <3>1, <3>2, <4>1
    <3>4. CASE i # n
      <4>1. /\ posted'[i].m = posted[i].m /\ Handled < posted[i].m /\ posted[i].m <= arrived
            /\ posted[i].m \in Nat
        BY <2>2, <2>3, <3>4
      <4> QED BY <3>2, <4>1
    <3> QED BY <3>3, <3>4
  <2>4. ASSUME NEW i, NEW j, Is(i, "binary")', Is(j, "binary")', i < j
        PROVE  posted'[i].m < posted'[j].m
    <3>1. i \in Nat /\ j \in Nat /\ i # n
      <4>1. i \in DOMAIN posted' /\ j \in DOMAIN posted' /\ \A k \in DOMAIN posted' : k \in Nat /\ k <= n
        BY <1>3, <1>1, <1>4, <2>4 DEF Is
      <4> QED BY <2>4, <4>1
    <3>2. CASE j = n
      <4>1. posted'[j].m = arrived + 1
        BY <2>2, <2>4, <3>2
      <4>2. posted'[i].m = posted[i].m /\ posted[i].m <= arrived /\ posted[i].m \in Nat
        BY <2>2, <2>4, <3>1
      <4> QED BY <1>1, <4>1, <4>2
    <3>3. CASE j # n
      <4>1. /\ Is(i, "binary") /\ Is(j, "binary")
            /\ posted'[i].m = posted[i].m /\ posted'[j].m = posted[j].m
        BY <2>2, <2>4, <3>1, <3>3
      <4>2. posted[i].m < posted[j].m
        BY <1>1, <2>4, <4>1 DEF InOrder
      <4> QED BY <4>1, <4>2
    <3> QED BY <3>2, <3>3
  <2>5. ASSUME NEW m \in Nat, Handled' < m, m <= arrived'
        PROVE  \E i : Is(i, "binary")' /\ posted'[i].m = m
    <3>1. CASE m = arrived + 1
      <4>1. Is(n, "binary")' /\ posted'[n].m = m
        BY <1>2, <1>4, <1>5, <3>1
      <4> QED BY <4>1
    <3>2. CASE m <= arrived
      <4>1. PICK i : Is(i, "binary") /\ posted[i].m = m
        BY <1>1, <2>1, <2>5, <3>2 DEF InOrder
      <4>2. Is(i, "binary")' /\ posted'[i].m = m
        BY <1>5, <1>6, <4>1
      <4> QED BY <4>2
    <3>3. m = arrived + 1 \/ m <= arrived
      BY <1>1, <2>5
    <3> QED BY <3>1, <3>2, <3>3
  <2>6. Handled' <= arrived'
    BY <1>1, <2>1 DEF InOrder
  <2>7. (socket' = "opening" => handled' = <<>>) /\ (socket' = "active" => cache' = <<>>)
    BY <1>1 DEF InOrder
  <2>8. (\A i \in DOMAIN handled' : handled'[i] = i) /\ (\A i \in DOMAIN cache' : cache'[i] = i)
    BY <1>1 DEF InOrder
  <2> HIDE DEF Handled
  <2> QED BY <2>3, <2>4, <2>5, <2>6, <2>7, <2>8 DEF InOrder
<1> QED BY <1>8, <1>9, <1>10 DEF MessagesInv

(* The connection becomes active, and handles what came early.             *)
LEMMA HelloStep ==
  ASSUME MessagesInv, SQ!Next1("hello"), posted' = Tail(posted),
         socket = "opening", socket' = "active",
         handled' = handled \o cache, cache' = <<>>,
         UNCHANGED <<queue, dequeue_pending, waiting_buffer_space, taken, buffer, arrived, written>>
  PROVE  MessagesInv'
<1>1. /\ posted \in Seq(Calls) /\ posted # <<>> /\ Head(posted).do = "hello"
      /\ CallsInOrder /\ InOrder /\ Kept /\ WillWake /\ MessagesTyped
  BY DEF MessagesInv, MessagesTyped, SQ!Next1, IsOpen
<1>2. /\ posted' \in Seq(Calls) /\ Is(1, "hello") /\ Head(posted) = posted[1]
      /\ \A i, do : Is(i, do)' => i \in Nat /\ Is(i + 1, do) /\ posted'[i] = posted[i + 1]
      /\ \A i, do : Is(i, do) /\ i # 1 => i \in Nat /\ Is(i - 1, do)' /\ posted'[i - 1] = posted[i]
      /\ CallsInOrder'
  BY <1>1, TakesCall
<1>3. handled' = cache /\ handled = <<>>
  BY <1>1, ConcatEmptySeq DEF InOrder, MessagesTyped
<1>4. MessagesTyped'
  <2>1. <<>> \in Seq(Nat)
    OBVIOUS
  <2> QED BY <1>1, <1>2, <1>3, <2>1 DEF MessagesTyped
<1>5. queue = SQ!NoMessages /\ \A i : ~Is(i, "write")
  BY <1>1 DEF WillWake
<1>6. ~dequeue_pending /\ ~waiting_buffer_space
  BY <1>1, <1>5 DEF WillWake
<1>7. \A i : ~Is(i, "write")' /\ ~Is(i, "dequeue")'
  <2>1. \A i : ~Is(i, "dequeue")
    BY <1>1, <1>6 DEF WillWake
  <2> QED BY <1>2, <1>5, <2>1
<1>8. WillWake'
  BY <1>1, <1>5, <1>6, <1>7 DEF WillWake
<1>9. Kept'
  BY <1>1, <1>5, <1>7 DEF Kept
<1>10. InOrder'
  <2>1. Handled' = Handled
    <3>1. Len(handled) = 0 /\ Len(cache') = 0 /\ Len(cache) \in Nat
      BY <1>1, <1>3 DEF MessagesTyped
    <3> QED BY <1>3, <3>1 DEF Handled
  <2>2. ~Is(1, "binary")
    BY <1>1, <1>2 DEF Is
  <2>3. ASSUME NEW i, NEW j, Is(i, "binary")', Is(j, "binary")', i < j
        PROVE  posted'[i].m < posted'[j].m
    <3>1. /\ i \in Nat /\ Is(i + 1, "binary") /\ posted'[i] = posted[i + 1]
          /\ j \in Nat /\ Is(j + 1, "binary") /\ posted'[j] = posted[j + 1]
      BY <1>2, <2>3
    <3>2. i + 1 < j + 1
      BY <2>3, <3>1
    <3> QED BY <1>1, <3>1, <3>2 DEF InOrder
  <2>4. ASSUME NEW i, Is(i, "binary")'
        PROVE  Handled < posted'[i].m /\ posted'[i].m <= arrived
    <3>1. Is(i + 1, "binary") /\ posted'[i] = posted[i + 1]
      BY <1>2, <2>4
    <3> QED BY <1>1, <3>1 DEF InOrder
  <2>5. ASSUME NEW m \in Nat, Handled < m, m <= arrived
        PROVE  \E i : Is(i, "binary")' /\ posted'[i].m = m
    <3>1. PICK i : Is(i, "binary") /\ posted[i].m = m
      BY <1>1, <2>5 DEF InOrder
    <3> QED BY <1>2, <2>2, <3>1
  <2>6. DOMAIN cache' = {}
    OBVIOUS
  <2> HIDE DEF Handled
  <2> QED BY <1>1, <1>3, <2>1, <2>3, <2>4, <2>5, <2>6 DEF InOrder
<1> QED BY <1>2, <1>4, <1>8, <1>9, <1>10 DEF MessagesInv

-------------------------------------------------------------------------------
(* The message that is handled, or kept for later, is the next one.        *)
LEMMA BinaryStep ==
  ASSUME MessagesInv, SQ!HandleBinary
  PROVE  MessagesInv'
<1> DEFINE h == Head(posted).m
<1>1. /\ posted \in Seq(Calls) /\ posted # <<>> /\ Head(posted).do = "binary" /\ posted' = Tail(posted)
      /\ MessagesTyped
      /\ UNCHANGED <<socket, queue, dequeue_pending, waiting_buffer_space, taken, buffer, arrived,
                     written>>
      /\ \/ socket \in {"active", "broken"} /\ handled' = Append(handled, h) /\ UNCHANGED cache
         \/ socket \notin {"active", "broken"} /\ cache' = Append(cache, h) /\ UNCHANGED handled
  BY DEF MessagesInv, MessagesTyped, SQ!HandleBinary, SQ!Next1, SQ!sending
<1>2. /\ posted' \in Seq(Calls) /\ Is(1, "binary") /\ Head(posted) = posted[1]
      /\ \A i, do : Is(i, do)' => i \in Nat /\ Is(i + 1, do) /\ posted'[i] = posted[i + 1]
      /\ \A i, do : Is(i, do) /\ i # 1 => i \in Nat /\ Is(i - 1, do)' /\ posted'[i - 1] = posted[i]
      /\ CallsInOrder => CallsInOrder'
  BY <1>1, TakesCall
<1>3. h \in Nat
  <2>1. Head(posted) \in Calls
    BY <1>1
  <2> QED BY <1>1, <2>1, CallFields
<1>4. handled \in Seq(Nat) /\ cache \in Seq(Nat)
  BY <1>1 DEF MessagesTyped
<1>5. \A s \in Seq(Nat) :
        /\ Append(s, h) \in Seq(Nat) /\ Len(s) \in Nat /\ Len(Append(s, h)) = Len(s) + 1
        /\ DOMAIN s = 1..Len(s) /\ DOMAIN Append(s, h) = 1..(Len(s) + 1)
        /\ \A i \in 1..Len(s) : Append(s, h)[i] = s[i]
        /\ Append(s, h)[Len(s) + 1] = h
  BY <1>3
<1>6. MessagesTyped'
  <2>1. handled' \in Seq(Nat) /\ cache' \in Seq(Nat)
    BY <1>1, <1>4, <1>5
  <2> QED BY <1>1, <1>2, <2>1 DEF MessagesTyped
<1> HIDE DEF h
<1>7. ASSUME IsOpen PROVE CallsInOrder' /\ Kept' /\ WillWake' /\ InOrder'
  <2>1. CallsInOrder /\ InOrder /\ Kept /\ WillWake
    BY <1>7 DEF MessagesInv
  <2>2. /\ \A i : (Is(i, "write")' => Is(i + 1, "write") /\ posted'[i] = posted[i + 1])
        /\ \A i : Is(i, "write") => Is(i - 1, "write")' /\ posted'[i - 1] = posted[i]
        /\ (\E i : Is(i, "write")') <=> (\E i : Is(i, "write"))
        /\ (\E i : Is(i, "dequeue")') <=> (\E i : Is(i, "dequeue"))
    <3>1. ~Is(1, "write") /\ ~Is(1, "dequeue")
      BY <1>1, <1>2 DEF Is
    <3> QED BY <1>2, <3>1
  <2>3. WillWake'
    BY <1>1, <2>1, <2>2 DEF WillWake
  <2>4. Kept'
    <3>1. ASSUME NEW p \in SQ!Priorities, \A i : Is(i, "write")' => posted'[i].p # p
          PROVE  taken'[p] = written'[p] \o queue'[p]
      <4>1. \A i : Is(i, "write") => posted[i].p # p
        BY <2>2, <3>1
      <4> QED BY <1>1, <2>1, <4>1 DEF Kept
    <3>2. ASSUME NEW i, Is(i, "write")'
          PROVE  taken'[posted'[i].p]
                   = written'[posted'[i].p] \o (<<posted'[i].m>> \o queue'[posted'[i].p])
      <4>1. Is(i + 1, "write") /\ posted'[i] = posted[i + 1]
        BY <2>2, <3>2
      <4> QED BY <1>1, <2>1, <4>1 DEF Kept
    <3> QED BY <3>1, <3>2 DEF Kept
  <2>5. Handled \in Nat /\ arrived \in Nat
    BY <1>1, <1>4, <1>5 DEF Handled, MessagesTyped
  <2>6. h = Handled + 1
    <3>1. posted[1].m = h /\ Handled < h /\ h <= arrived
      BY <1>2, <2>1 DEF InOrder, h
    <3>2. ASSUME Handled + 1 < h PROVE FALSE
      <4>1. Handled + 1 \in Nat /\ Handled < Handled + 1 /\ Handled + 1 <= arrived
        BY <1>3, <2>5, <3>1, <3>2
      <4>2. PICK i : Is(i, "binary") /\ posted[i].m = Handled + 1
        BY <2>1, <4>1 DEF InOrder
      <4>3. i \in Nat /\ (i = 1 \/ 1 < i)
        <5>1. \A k \in DOMAIN posted : k \in Nat /\ k >= 1
          BY <1>1
        <5> QED BY <4>2, <5>1 DEF Is
      <4>4. posted[1].m < posted[i].m \/ i = 1
        BY <1>2, <2>1, <4>2, <4>3 DEF InOrder
      <4> QED BY <1>3, <2>5, <3>1, <3>2, <4>2, <4>4
    <3> QED BY <1>3, <2>5, <3>1, <3>2
  <2>7. Handled' = Handled + 1
    <3>1. Len(handled) \in Nat /\ Len(cache) \in Nat
      BY <1>4, <1>5
    <3>2. \/ Len(handled') = Len(handled) + 1 /\ Len(cache') = Len(cache)
          \/ Len(cache') = Len(cache) + 1 /\ Len(handled') = Len(handled)
      BY <1>1, <1>4, <1>5
    <3>3. (Len(handled) + 1) + Len(cache) = (Len(handled) + Len(cache)) + 1
          /\ Len(handled) + (Len(cache) + 1) = (Len(handled) + Len(cache)) + 1
      BY <3>1
    <3> QED BY <3>2, <3>3 DEF Handled
  <2>8. /\ \A i \in DOMAIN handled' : handled'[i] = i
        /\ \A i \in DOMAIN cache' : cache'[i] = i
        /\ socket' = "opening" => handled' = <<>>
        /\ socket' = "active" => cache' = <<>>
    <3>1. CASE socket = "active"
      <4>1. handled' = Append(handled, h) /\ UNCHANGED cache /\ cache = <<>>
        BY <1>1, <2>1, <3>1 DEF InOrder
      <4>2. h = Len(handled) + 1
        BY <1>4, <2>6, <4>1 DEF Handled
      <4>3. \A i \in 1..(Len(handled) + 1) : i \in 1..Len(handled) \/ i = Len(handled) + 1
        BY <1>4
      <4> QED BY <1>1, <1>4, <1>5, <2>1, <3>1, <4>1, <4>2, <4>3 DEF InOrder
    <3>2. CASE socket = "opening"
      <4>1. cache' = Append(cache, h) /\ UNCHANGED handled /\ handled = <<>>
        BY <1>1, <2>1, <3>2 DEF InOrder
      <4>2. h = Len(cache) + 1
        BY <1>4, <2>6, <4>1 DEF Handled
      <4>3. \A i \in 1..(Len(cache) + 1) : i \in 1..Len(cache) \/ i = Len(cache) + 1
        BY <1>4
      <4> QED BY <1>1, <1>4, <1>5, <2>1, <3>2, <4>1, <4>2, <4>3 DEF InOrder
    <3> QED BY <1>7, <3>1, <3>2 DEF IsOpen
  <2>9. ASSUME NEW i, Is(i, "binary")'
        PROVE  Handled' < posted'[i].m /\ posted'[i].m <= arrived'
    <3>1. /\ i \in Nat /\ Is(i + 1, "binary") /\ posted'[i] = posted[i + 1] /\ i # 0
      <4>1. 0 \notin DOMAIN posted'
        BY <1>2
      <4> QED BY <1>2, <2>9, <4>1 DEF Is
    <3>2. 1 < i + 1
      BY <3>1
    <3>3. posted[1].m < posted[i + 1].m /\ posted[i + 1].m <= arrived
      BY <1>2, <2>1, <3>1, <3>2 DEF InOrder
    <3>4. posted[1].m = h
      BY <1>2 DEF h
    <3> QED BY <1>1, <2>6, <2>7, <3>1, <3>3, <3>4
  <2>10. ASSUME NEW m \in Nat, Handled' < m, m <= arrived'
         PROVE  \E i : Is(i, "binary")' /\ posted'[i].m = m
    <3>1. Handled < m /\ m # h /\ m <= arrived
      BY <1>1, <2>5, <2>6, <2>7, <2>10
    <3>2. PICK i : Is(i, "binary") /\ posted[i].m = m
      BY <2>1, <3>1 DEF InOrder
    <3>3. i # 1
      BY <1>2, <3>1, <3>2 DEF h
    <3> QED BY <1>2, <3>2, <3>3
  <2>11. ASSUME NEW i, NEW j, Is(i, "binary")', Is(j, "binary")', i < j
         PROVE  posted'[i].m < posted'[j].m
    <3>1. /\ i \in Nat /\ Is(i + 1, "binary") /\ posted'[i] = posted[i + 1]
          /\ j \in Nat /\ Is(j + 1, "binary") /\ posted'[j] = posted[j + 1]
      BY <1>2, <2>11
    <3>2. i + 1 < j + 1
      BY <2>11, <3>1
    <3> QED BY <2>1, <3>1, <3>2 DEF InOrder
  <2>12. Handled' <= arrived'
    <3>1. Handled < h /\ h <= arrived
      BY <1>2, <2>1 DEF InOrder, h
    <3> QED BY <1>1, <2>6, <2>7, <3>1
  <2> HIDE DEF Handled
  <2>13. InOrder'
    BY <2>8, <2>9, <2>10, <2>11, <2>12 DEF InOrder
  <2> QED BY <1>2, <2>1, <2>3, <2>4, <2>13
<1> QED BY <1>1, <1>6, <1>7 DEF MessagesInv, IsOpen

LEMMA MessagesStep == MessagesInv /\ SQ!Next => MessagesInv'
<1> SUFFICES ASSUME MessagesInv, SQ!Next PROVE MessagesInv'
  OBVIOUS
<1>1. ASSUME NEW p \in SQ!Priorities, SQ!SendMessage(p) PROVE MessagesInv'
  BY <1>1, SendStep
<1>2. CASE SQ!TryDequeue
  BY <1>2, DequeueStep, RefusedStep DEF SQ!TryDequeue, SQ!receiving
<1>3. CASE SQ!WriteMessage
  <2>1. SQ!Next1("write") /\ posted' = Tail(posted) /\ posted # <<>>
    BY <1>3 DEF SQ!WriteMessage, SQ!Next1
  <2>2. CASE socket = "active" /\ SQ!Closes
    BY <2>1, <2>2, EndStep
  <2>3. CASE /\ socket = "active" /\ buffer' = buffer + 1
             /\ written' = [written EXCEPT ![Head(posted).p] = Append(@, Head(posted).m)]
             /\ UNCHANGED <<socket, SQ!sending, SQ!receiving>>
    BY <2>1, <2>3, WriteStep DEF SQ!sending, SQ!receiving
  <2>4. CASE socket # "active" /\ UNCHANGED <<socket, SQ!sending, buffer, SQ!receiving, written>>
    <3>1. posted \in Seq(Calls)
      BY DEF MessagesInv, MessagesTyped
    <3>2. CASE socket = "opening"
      <4>1. Is(1, "write") /\ \A i : ~Is(i, "write")
        BY <2>1, <3>1, <3>2, TakesCall DEF MessagesInv, IsOpen, WillWake, SQ!Next1
      <4> QED BY <4>1
    <3>3. CASE socket # "opening"
      BY <2>1, <2>4, <3>1, <3>3, TakesCall
         DEF MessagesInv, MessagesTyped, IsOpen, SQ!sending, SQ!receiving
    <3> QED BY <3>2, <3>3
  <2> QED BY <1>3, <2>2, <2>3, <2>4 DEF SQ!WriteMessage
<1>4. CASE SQ!HandleHello
  <2>1. SQ!Next1("hello") /\ posted' = Tail(posted) /\ posted # <<>> /\ posted \in Seq(Calls)
    BY <1>4 DEF SQ!HandleHello, SQ!Next1, MessagesInv, MessagesTyped
  <2>2. CASE SQ!Closes
    BY <2>1, <2>2, EndStep
  <2>3. CASE /\ socket = "opening" /\ socket' = "active"
             /\ handled' = handled \o cache /\ cache' = <<>>
             /\ UNCHANGED <<SQ!sending, buffer, arrived, written>>
    BY <2>1, <2>3, HelloStep DEF SQ!sending
  <2>4. CASE socket = "closed" /\ UNCHANGED <<socket, SQ!sending, buffer, SQ!receiving, written>>
    BY <2>1, <2>4, TakesCall DEF MessagesInv, MessagesTyped, IsOpen, SQ!sending, SQ!receiving
  <2> QED BY <1>4, <2>2, <2>3, <2>4 DEF SQ!HandleHello
<1>5. CASE SQ!Break
  BY <1>5 DEF SQ!Break, SQ!sending, SQ!receiving, MessagesInv, MessagesTyped, IsOpen
<1>6. CASE SQ!CloseSocket
  BY <1>6, EndStep DEF SQ!CloseSocket
<1> QED
  BY <1>1, <1>2, <1>3, <1>4, <1>5, <1>6, BytesStep, ArriveStep, BinaryStep DEF SQ!Next

LEMMA FlowHolds == MessagesInv => MessagesFlow
<1> SUFFICES ASSUME MessagesInv, socket = "active" PROVE MessagesFlow
  BY DEF MessagesFlow, SQ!MessagesFlow
<1>1. MessagesTyped /\ CallsInOrder /\ Kept /\ WillWake /\ InOrder
  BY DEF MessagesInv, IsOpen
<1>2. \A i, do : i \in SQ!Posted(do) <=> Is(i, do)
  BY DEF SQ!Posted, Is
<1>3. ASSUME NEW p \in SQ!Priorities
      PROVE  taken[p] = (written[p] \o SQ!InFlight(p)) \o queue[p]
  <2> DEFINE writes == {i \in SQ!Posted("write") : posted[i].p = p}
             i == CHOOSE i \in writes : TRUE
  <2>1. written[p] \in Seq(Nat) /\ queue[p] \in Seq(Nat) /\ 0 \in Nat
    BY <1>1 DEF MessagesTyped
  <2>2. CASE writes = {}
    <3>1. SQ!InFlight(p) = <<>> /\ taken[p] = written[p] \o queue[p]
      BY <1>1, <1>2, <2>2 DEF SQ!InFlight, Kept
    <3> QED BY <2>1, <3>1, Joined
  <2>3. CASE writes # {}
    <3>1. i \in writes
      BY <2>3
    <3>2. SQ!InFlight(p) = <<posted[i].m>>
      BY <2>3 DEF SQ!InFlight
    <3> HIDE DEF i
    <3>3. Is(i, "write") /\ posted[i].p = p
      BY <1>2, <3>1
    <3>4. posted[i].m \in Nat
      BY <1>1, <3>3, CallFields DEF Is, MessagesTyped
    <3>5. taken[p] = written[p] \o (<<posted[i].m>> \o queue[p])
      BY <1>1, <3>3 DEF Kept
    <3> DEFINE v == written[p]
               q == queue[p]
               m == posted[i].m
    <3>6. v \in Seq(Nat) /\ q \in Seq(Nat) /\ m \in Nat
      BY <2>1, <3>4
    <3> HIDE DEF v, q, m
    <3>7. v \o (<<m>> \o q) = (v \o <<m>>) \o q
      BY <3>6, Joined
    <3> QED BY <3>2, <3>5, <3>7 DEF v, q, m
  <2> QED BY <2>2, <2>3
<1>4. \A i, j \in SQ!Posted("write") : i = j
  BY <1>1, <1>2 DEF CallsInOrder
<1>5. queue # SQ!NoMessages => SQ!Posted("dequeue") # {} \/ (waiting_buffer_space /\ buffer > 0)
  BY <1>1, <1>2 DEF WillWake
<1> QED BY <1>1, <1>3, <1>4, <1>5 DEF MessagesFlow, SQ!MessagesFlow, WillWake, InOrder

(* On an active connection nothing that send_message took is lost,         *)
(* repeated or overtaken by a message of its priority, no message waits    *)
(* without a wakeup to come, the buffer is never overfilled, and what      *)
(* arrived, before the handshake or after it, is handled in order          *)
(* (scheduleDequeue, tryDequeueMessage, sendMessageInternalSlot).          *)
THEOREM NoMessageLost == DeviceSpec => []MessagesFlow
<1>1. DeviceInit => MessagesInv
  BY InitMessages DEF DeviceInit
<1>2. MessagesInv
        /\ [DeviceNext]_<<part, vars, filesVars, transactionsVars, rewardsVars, messagesVars>>
      => MessagesInv'
  <2>1. ASSUME MessagesInv, UNCHANGED messagesVars PROVE MessagesInv'
    BY <2>1 DEF messagesVars, MessagesInv, MessagesTyped, IsOpen, CallsInOrder, Kept, WillWake,
                InOrder, Handled, Is
  <2> QED
    BY <2>1, MessagesStep
       DEF DeviceNext, StepProfiles, StepFiles, StepTransactions, StepRewards, StepMessages
<1> QED BY <1>1, <1>2, FlowHolds, PTL DEF DeviceSpec


------------------------------------------------------------------------------
(* Profiles.  An operation is a sequence of disks.  Each of them differs   *)
(* from the first in the file of one profile, whose possible contents the  *)
(* operation knows, in an index that only grows, and in the list, which is *)
(* truncated at times, but loses a profile only when its file is removed.  *)

Disks == [file : [ProfileIds -> Files], list : SUBSET ProfileIds, index : SUBSET Actors]

Staying(d, p, F) == IF None \in F THEN d.list \ {p} ELSE d.list

Reach(d, p, F) ==
  {e \in Disks : /\ \A q \in ProfileIds : q # p => e.file[q] = d.file[q]
                 /\ e.file[p] \in F
                 /\ d.index \subseteq e.index
                 /\ e.list = {} \/ Staying(d, p, F) \subseteq e.list}

Final(s) == s[Len(s)]

Steps(d, p, F) ==
  {s \in Seq(Reach(d, p, F)) \ {<<>>} : Staying(d, p, F) \subseteq Final(s).list}

(* Two runs of disks make one. *)
LEMMA StepsJoin ==
  ASSUME NEW S, NEW s \in Seq(S) \ {<<>>}, NEW t \in Seq(S) \ {<<>>}
  PROVE  /\ s \o t \in Seq(S) \ {<<>>}
         /\ (s \o t)[Len(s \o t)] = t[Len(t)]
         /\ s[Len(s)] \in S
<1>1. /\ Len(s) \in Nat /\ Len(t) \in Nat /\ s \in Seq(S) /\ t \in Seq(S)
      /\ Len(s) # 0 /\ Len(t) # 0
  BY EmptySeq
<1>2. /\ s \o t \in Seq(S) /\ Len(s \o t) = Len(s) + Len(t)
      /\ \A i \in 1..(Len(s) + Len(t)) :
           (s \o t)[i] = IF i <= Len(s) THEN s[i] ELSE t[i - Len(s)]
  BY <1>1, ConcatProperties
<1>3. Len(s) + Len(t) \in 1..(Len(s) + Len(t)) /\ ~(Len(s) + Len(t) <= Len(s))
      /\ Len(s) + Len(t) - Len(s) = Len(t)
  BY <1>1
<1>4. s \o t # <<>>
  BY <1>1, <1>2, EmptySeq
<1>5. s[Len(s)] \in S
  BY <1>1
<1> QED BY <1>2, <1>3, <1>4, <1>5

LEMMA StepsBegin ==
  ASSUME NEW d \in Disks, NEW p \in ProfileIds, NEW F, d.file[p] \in F
  PROVE  <<d>> \in Steps(d, p, F) /\ Final(<<d>>) = d
<1>1. d \in Reach(d, p, F) /\ Staying(d, p, F) \subseteq d.list
  BY DEF Reach, Staying
<1> DEFINE u == <<d>>
<1>2. u \in Seq(Reach(d, p, F)) \ {<<>>} /\ u[Len(u)] = d
  BY <1>1
<1> HIDE DEF u
<1>3. u \in Steps(d, p, F) /\ Final(u) = d
  BY <1>1, <1>2 DEF Steps, Final
<1> QED BY <1>3 DEF u

(* One more write of the profile's file. *)
LEMMA StepsReplace ==
  ASSUME NEW d \in Disks, NEW p \in ProfileIds, NEW F, NEW s \in Steps(d, p, F),
         NEW f \in F, f \in Files
  PROVE  LET t == s \o Replace(Final(s), p, f)
         IN  /\ t \in Steps(d, p, F)
             /\ Final(t).file[p] = f
             /\ Final(t).index = Final(s).index
             /\ Final(t).list = Final(s).list
<1> DEFINE e == Final(s)
           n == [e EXCEPT !.file[p] = f]
<1>1. e \in Reach(d, p, F) /\ Staying(d, p, F) \subseteq e.list
  BY StepsJoin DEF Steps, Final
<1> HIDE DEF e
<1>2. e \in Disks /\ e.file \in [ProfileIds -> Files]
  BY <1>1 DEF Reach, Disks
<1>3. /\ n \in Disks /\ n.file = [e.file EXCEPT ![p] = f] /\ n.index = e.index
      /\ n.list = e.list
  BY <1>2 DEF Disks
<1>4. n.file[p] = f /\ \A q \in ProfileIds : q # p => n.file[q] = e.file[q]
  BY <1>2, <1>3
<1> HIDE DEF n
<1>5. n \in Reach(d, p, F)
  BY <1>1, <1>3, <1>4 DEF Reach
<1>6. Replace(e, p, f) = <<n>>
  BY DEF Replace, n
<1> DEFINE u == <<n>>
<1>7. u \in Seq(Reach(d, p, F)) \ {<<>>} /\ u[Len(u)] = n
  BY <1>5
<1> HIDE DEF u
<1>8. s \in Seq(Reach(d, p, F)) \ {<<>>}
  BY DEF Steps
<1>9. s \o u \in Seq(Reach(d, p, F)) \ {<<>>} /\ (s \o u)[Len(s \o u)] = n
  BY <1>7, <1>8, StepsJoin
<1>10. Replace(e, p, f) = u
  BY <1>6 DEF u
<1>11. s \o u \in Steps(d, p, F)
  BY <1>1, <1>3, <1>9 DEF Steps, Final
<1> QED BY <1>3, <1>4, <1>9, <1>10, <1>11 DEF Final, e

(* Some more keys in the index. *)
LEMMA StepsIndex ==
  ASSUME NEW d \in Disks, NEW p \in ProfileIds, NEW F, NEW s \in Steps(d, p, F),
         NEW ks \in SUBSET Actors
  PROVE  LET t == s \o Indexed(Final(s), ks)
         IN  /\ t \in Steps(d, p, F)
             /\ Final(t).file = Final(s).file
             /\ Final(t).index = Final(s).index \cup ks
             /\ Final(t).list = Final(s).list
<1> DEFINE e == Final(s)
           n == [e EXCEPT !.index = @ \cup ks]
<1>1. e \in Reach(d, p, F) /\ Staying(d, p, F) \subseteq e.list
  BY StepsJoin DEF Steps, Final
<1> HIDE DEF e
<1>2. e \in Disks
  BY <1>1 DEF Reach
<1>3. n \in Disks /\ n.file = e.file /\ n.index = e.index \cup ks /\ n.list = e.list
  BY <1>2 DEF Disks
<1> HIDE DEF n
<1>4. n \in Reach(d, p, F)
  BY <1>1, <1>3 DEF Reach
<1> DEFINE u == <<n>>
<1>5. u \in Seq(Reach(d, p, F)) \ {<<>>} /\ u[Len(u)] = n /\ Indexed(e, ks) = u
  BY <1>4 DEF Indexed, n
<1> HIDE DEF u
<1>6. s \in Seq(Reach(d, p, F)) \ {<<>>}
  BY DEF Steps
<1>7. s \o u \in Seq(Reach(d, p, F)) \ {<<>>} /\ (s \o u)[Len(s \o u)] = n
  BY <1>5, <1>6, StepsJoin
<1>8. s \o u \in Steps(d, p, F)
  BY <1>1, <1>3, <1>7 DEF Steps, Final
<1> QED BY <1>3, <1>5, <1>7, <1>8 DEF Final, e

(* The list of profiles is rewritten; only a profile whose file may be gone *)
(* is taken off it.                                                         *)
LEMMA StepsList ==
  ASSUME NEW d \in Disks, NEW p \in ProfileIds, NEW F, NEW s \in Steps(d, p, F),
         NEW l \in {Final(s).list \cup {p}, Final(s).list \ {p}},
         l = Final(s).list \cup {p} \/ None \in F,
         NEW w, w = <<[Final(s) EXCEPT !.list = {}], [Final(s) EXCEPT !.list = l]>>
  PROVE  LET t == s \o w
         IN  /\ t \in Steps(d, p, F)
             /\ Final(t).file = Final(s).file
             /\ Final(t).index = Final(s).index
             /\ Final(t).list = l
<1> DEFINE e == Final(s)
           m == [e EXCEPT !.list = {}]
           n == [e EXCEPT !.list = l]
<1>1. e \in Reach(d, p, F) /\ Staying(d, p, F) \subseteq e.list
  BY StepsJoin DEF Steps, Final
<1>2. l \in {e.list \cup {p}, e.list \ {p}} /\ w = <<m, n>>
        /\ (l = e.list \cup {p} \/ None \in F)
  OBVIOUS
<1> HIDE DEF e
<1>3. e \in Disks /\ e.list \subseteq ProfileIds
  BY <1>1 DEF Reach, Disks
<1>4. l \subseteq ProfileIds /\ Staying(d, p, F) \subseteq l
  BY <1>1, <1>2, <1>3 DEF Staying
<1>5. m \in Disks /\ m.file = e.file /\ m.index = e.index /\ m.list = {}
  BY <1>3 DEF Disks
<1>6. n \in Disks /\ n.file = e.file /\ n.index = e.index /\ n.list = l
  BY <1>3, <1>4 DEF Disks
<1> HIDE DEF m, n
<1>7. m \in Reach(d, p, F) /\ n \in Reach(d, p, F)
  BY <1>1, <1>4, <1>5, <1>6 DEF Reach
<1>8. w \in Seq(Reach(d, p, F)) \ {<<>>} /\ w[Len(w)] = n
  BY <1>2, <1>7
<1>9. s \in Seq(Reach(d, p, F)) \ {<<>>}
  BY DEF Steps
<1>10. s \o w \in Seq(Reach(d, p, F)) \ {<<>>} /\ (s \o w)[Len(s \o w)] = n
  BY <1>8, <1>9, StepsJoin
<1>11. s \o w \in Steps(d, p, F)
  BY <1>4, <1>6, <1>10 DEF Steps, Final
<1> QED BY <1>6, <1>10, <1>11 DEF Final, e

(* A profile is added to the list, or taken off it. *)
LEMMA StepsListed ==
  ASSUME NEW d \in Disks, NEW p \in ProfileIds, NEW F, NEW s \in Steps(d, p, F)
  PROVE  LET t == s \o Listed(Final(s), p)
         IN  /\ t \in Steps(d, p, F)
             /\ Final(t).file = Final(s).file
             /\ Final(t).index = Final(s).index
             /\ Final(t).list = Final(s).list \cup {p}
<1> DEFINE l == Final(s).list \cup {p}
           w == <<[Final(s) EXCEPT !.list = {}], [Final(s) EXCEPT !.list = l]>>
<1>1. Listed(Final(s), p) = w
  BY DEF Listed
<1> HIDE DEF w
<1>2. w = <<[Final(s) EXCEPT !.list = {}], [Final(s) EXCEPT !.list = l]>>
  BY DEF w
<1>3. l \in {Final(s).list \cup {p}, Final(s).list \ {p}} /\ l = Final(s).list \cup {p}
  OBVIOUS
<1> HIDE DEF l
<1> QED BY <1>1, <1>2, <1>3, StepsList

LEMMA StepsUnlisted ==
  ASSUME NEW d \in Disks, NEW p \in ProfileIds, NEW F, NEW s \in Steps(d, p, F), None \in F
  PROVE  LET t == s \o Unlisted(Final(s), p)
         IN  t \in Steps(d, p, F) /\ Final(t).file = Final(s).file
<1> DEFINE l == Final(s).list \ {p}
           w == <<[Final(s) EXCEPT !.list = {}], [Final(s) EXCEPT !.list = l]>>
<1>1. Unlisted(Final(s), p) = w
  BY DEF Unlisted
<1> HIDE DEF w
<1>2. w = <<[Final(s) EXCEPT !.list = {}], [Final(s) EXCEPT !.list = l]>>
  BY DEF w
<1>3. l \in {Final(s).list \cup {p}, Final(s).list \ {p}}
  OBVIOUS
<1> HIDE DEF l
<1> QED BY <1>1, <1>2, <1>3, StepsList

(* Every nonempty set of numbers has a least element. *)
LEMMA Least ==
  ASSUME NEW S, S \subseteq Nat, S # {}
  PROVE  \E m \in S : \A k \in S : m <= k
<1> DEFINE R == OpToRel(<, Nat)
<1>1. IsWellFoundedOn(R, Nat)
  BY NatLessThanWellFounded
<1>2. \A x, y \in Nat : x < y => <<x, y>> \in R
  BY DEF OpToRel
<1> HIDE DEF R
<1>3. PICK m \in S : \A k \in S : ~(<<k, m>> \in R)
  BY <1>1, WFMin
<1>4. ASSUME NEW k \in S PROVE m <= k
  <2>1. k \in Nat /\ m \in Nat /\ ~(k < m)
    BY <1>2, <1>3
  <2> QED BY <2>1
<1> QED BY <1>4

NextKey == CHOOSE n \in 0..MaxRandom : n \notin used /\ \A m \in 0..(n-1) : m \in used

(* The next random key exists while one is left. *)
LEMMA NextRandom ==
  ASSUME (0..MaxRandom) \ used # {}
  PROVE  NextKey \in 0..MaxRandom
<1>1. MaxRandom \in Nat
  BY ProfilesAssumption
<1> DEFINE S == (0..MaxRandom) \ used
<1>2. S \subseteq Nat /\ S # {}
  BY <1>1
<1>3. PICK n \in S : \A k \in S : n <= k
  <2> HIDE DEF S
  <2> QED BY <1>2, Least
<1>4. n \in 0..MaxRandom /\ n \notin used
  OBVIOUS
<1>5. ASSUME NEW m \in 0..(n-1) PROVE m \in used
  <2>1. m \in 0..MaxRandom /\ ~(n <= m)
    BY <1>1, <1>4
  <2> QED BY <1>3, <2>1
<1>6. \E x \in 0..MaxRandom : x \notin used /\ \A m \in 0..(x-1) : m \in used
  BY <1>4, <1>5
<1> QED BY <1>6 DEF NextKey

(* At most n + 1 keys are derived with an index up to n. *)
LEMMA DerivedCount ==
  ASSUME NEW s, NEW n \in Nat, NEW S, \A x \in S : \E i \in 0..n : x = Derived(s, i)
  PROVE  IsFiniteSet(S) /\ Cardinality(S) \in Nat /\ Cardinality(S) <= n + 1
<1> DEFINE f == [i \in 0..n |-> Derived(s, i)]
           T == {Derived(s, i) : i \in 0..n}
<1>1. IsFiniteSet(0..n) /\ Cardinality(0..n) = n + 1
  BY FS_Interval
<1>2. f \in Surjection(0..n, T)
  BY DEF Surjection
<1>3. IsFiniteSet(T) /\ Cardinality(T) <= n + 1
  <2> HIDE DEF f, T
  <2> QED BY <1>1, <1>2, FS_Surjection
<1>4. S \subseteq T
  OBVIOUS
<1>5. IsFiniteSet(S) /\ Cardinality(S) <= Cardinality(T)
  <2> HIDE DEF T
  <2> QED BY <1>3, <1>4, FS_Subset
<1>6. Cardinality(S) \in Nat /\ Cardinality(T) \in Nat
  <2> HIDE DEF T
  <2> QED BY <1>3, <1>5, FS_CardinalityType
<1> HIDE DEF T
<1> QED BY <1>3, <1>5, <1>6

(* What a seed finds with an index: actors, one per index without a gap.   *)
LEMMA SeedFinds ==
  ASSUME NEW s \in Seeds, NEW index
  PROVE  /\ SeedKeys(s, index) \subseteq Actors
         /\ Cardinality(SeedKeys(s, index)) \in 0..(MaxIndex + 1)
         /\ \A j \in 2..(Cardinality(SeedKeys(s, index)) - 1) : Derived(s, j) \in index
<1> DEFINE K == SeedKeys(s, index)
<1>1. MaxIndex \in Nat /\ MaxIndex > 1
  BY ProfilesAssumption
<1>2. \A x \in K : \E i \in 0..MaxIndex : x = Derived(s, i)
  BY <1>1 DEF SeedKeys, Others
<1>3. K \subseteq Actors
  BY <1>1, <1>2 DEF Actors, Derived
<1>4. Cardinality(K) \in Nat /\ Cardinality(K) <= MaxIndex + 1
  <2> HIDE DEF K
  <2> QED BY <1>1, <1>2, DerivedCount
<1>5. ASSUME NEW j \in 2..(Cardinality(K) - 1), Derived(s, j) \notin index
      PROVE  FALSE
  <2>1. j \in Nat /\ j > 1 /\ j - 1 \in Nat
    BY <1>4
  <2>2. \A i \in Others(s, index) : i \in 0..(j - 1)
    <3>1. \A i \in Others(s, index) : i \in 2..MaxIndex /\ ~(j \in 2..i)
      BY <1>5 DEF Others
    <3> QED BY <1>1, <2>1, <3>1
  <2>3. 0 \in 0..(j - 1) /\ 1 \in 0..(j - 1)
    BY <2>1
  <2>4. \A x \in K : \E i \in 0..(j - 1) : x = Derived(s, i)
    BY <2>2, <2>3 DEF SeedKeys
  <2>5. Cardinality(K) <= (j - 1) + 1
    <3> HIDE DEF K
    <3> QED BY <2>1, <2>4, DerivedCount
  <2> QED BY <1>4, <2>1, <2>5
<1> QED BY <1>1, <1>3, <1>4, <1>5

(* A larger index finds more. *)
LEMMA SeedFindsMore ==
  ASSUME NEW s, NEW a, NEW b, a \subseteq b
  PROVE  SeedKeys(s, a) \subseteq SeedKeys(s, b)
BY DEF SeedKeys, Others

(* The key after those without a gap is found once it is indexed. *)
LEMMA SeedFindsNext ==
  ASSUME NEW s, NEW n \in 0..MaxIndex, NEW index, Derived(s, n) \in index,
         \A j \in 2..(n - 1) : Derived(s, j) \in index
  PROVE  Derived(s, n) \in SeedKeys(s, index)
<1>1. MaxIndex \in Nat
  BY ProfilesAssumption
<1>2. CASE n \in {0, 1}
  BY <1>2 DEF SeedKeys
<1>3. CASE n \in 2..MaxIndex
  <2>1. \A j \in 2..n : j = n \/ j \in 2..(n - 1)
    BY <1>1, <1>3
  <2>2. n \in Others(s, index)
    BY <1>3, <2>1 DEF Others
  <2> QED BY <2>2 DEF SeedKeys
<1> QED BY <1>1, <1>2, <1>3

------------------------------------------------------------------------------
(* The invariant.  What a login to a profile needs is never half written   *)
(* (Written); a seed not generated yet has left no trace (Unborn); the     *)
(* session holds the keys the user was shown, and the index those below    *)
(* the one a new wallet is derived with (Session).                         *)

Whole(f) == f.kind = "none" \/ (f.kind \in {"seed", "keys"} /\ f.cred \in Creds)

Written ==
  /\ \A p \in ProfileIds : Whole(disk.file[p])
  /\ disk.file[Legacy].kind # "seed"
  /\ \A b \in exports :
       /\ b.of \in ProfileIds /\ b.file \in Files /\ b.file.kind # "none" /\ Whole(b.file)
       /\ b.of = Legacy => b.file.kind = "keys"

Unborn ==
  \A s \in Seeds \ used :
    /\ known[Derived(s, 0)] = {} /\ given[Derived(s, 0)] = {}
    /\ disk.file[Derived(s, 0)].kind = "none"
    /\ current # Derived(s, 0)
    /\ \A b \in exports : b.of # Derived(s, 0)

Session ==
  /\ current = Nobody => type = "Old"
  /\ current # Nobody =>
       /\ cred \in Creds
       /\ given[current] \ astray \subseteq keys
       /\ known[current] # {} => cred \in known[current]
  /\ type = "New" =>
       /\ seed.of \in Seeds /\ current = Derived(seed.of, 0)
       /\ \A j \in 2..(seed.len - 1) : Derived(seed.of, j) \in disk.index
  /\ Converted => keys \ astray \subseteq disk.file[current].keys

(* The file of a profile opens with credentials the user holds, and the    *)
(* list names it unless a crash truncated it.                              *)
FilesOpen ==
  \A p \in ProfileIds : known[p] # {} =>
    /\ disk.file[p].kind \in {"seed", "keys"} /\ disk.file[p].cred \in known[p]
    /\ p \in disk.list \cup hidden

KeysHeld == \A p \in ProfileIds : given[p] \ astray \subseteq Held(disk, p)

ProfilesInv == TypeOK /\ Written /\ Unborn /\ Session /\ FilesOpen /\ KeysHeld

(* No profile that stays leaves the list but by a crash that truncates it. *)
Listing(p, F) ==
  /\ hidden' \subseteq ProfileIds
  /\ Staying(disk, p, F) \cup hidden \subseteq disk'.list \cup hidden'

(* Profiles, their files and what identifies them. *)
LEMMA ProfileFacts ==
  /\ Legacy \in ProfileIds /\ ProfileIds \subseteq Actors /\ Nobody \notin ProfileIds
  /\ \A s \in Seeds : /\ Derived(s, 0) \in ProfileIds /\ Derived(s, 0) # Legacy
                      /\ Derived(s, 0)[1] = s /\ Derived(s, 1) \in Actors
  /\ \A s, t \in Seeds : Derived(s, 0) = Derived(t, 0) => s = t
  /\ \A p \in ProfileIds : p # Legacy => p[1] \in Seeds /\ p = Derived(p[1], 0)
<1>1. MaxIndex \in Nat /\ MaxIndex > 1 /\ MaxRandom \in Nat /\ Nobody \notin ProfileIds
      /\ "random" \notin Seeds
  BY ProfilesAssumption
<1>2. 0 \in 0..MaxIndex /\ 1 \in 0..MaxIndex /\ 0 \in 0..MaxRandom
  BY <1>1
<1> QED BY <1>1, <1>2 DEF Legacy, Random, Derived, ProfileIds, Actors

LEMMA FileKinds ==
  ASSUME NEW c \in Creds \cup {Nobody}, NEW ks \in SUBSET Actors
  PROVE  /\ SeedFile(c) \in Files /\ SeedFile(c).kind = "seed" /\ SeedFile(c).cred = c
         /\ KeysFile(ks, c) \in Files /\ KeysFile(ks, c).kind = "keys"
         /\ KeysFile(ks, c).cred = c /\ KeysFile(ks, c).keys = ks
BY DEF SeedFile, KeysFile, Files

(* A run of disks ends in its last, or in one of them with the process.    *)
LEMMA Outcome ==
  ASSUME NEW p, NEW F, NEW s \in Steps(disk, p, F), Finished(s) \/ Interrupted(s),
         crashes \in 0..MaxCrashes, disk \in Disks, hidden \subseteq ProfileIds
  PROVE  /\ disk' \in Reach(disk, p, F)
         /\ Finished(s) => disk' = Final(s)
         /\ crashes' \in 0..MaxCrashes
         /\ Listing(p, F)
<1>1. /\ s \in Seq(Reach(disk, p, F)) /\ Len(s) \in Nat /\ Len(s) # 0
      /\ Staying(disk, p, F) \subseteq Final(s).list
  BY EmptySeq DEF Steps
<1>2. \A k \in 1..Len(s) : s[k] \in Reach(disk, p, F)
  BY <1>1
<1>3. Staying(disk, p, F) \subseteq disk.list
  BY DEF Staying
<1>4. CASE Finished(s)
  <2>1. disk' = Final(s) /\ disk' \in Reach(disk, p, F) /\ crashes' = crashes
    BY <1>1, <1>2, <1>4 DEF Finished, Final
  <2>2. hidden' = hidden \ disk'.list
    BY <1>4 DEF Finished
  <2> QED BY <1>1, <2>1, <2>2 DEF Listing
<1>5. CASE Interrupted(s)
  <2>1. PICK k \in 1..(Len(s) - 1) : disk' = s[k]
    BY <1>5 DEF Interrupted
  <2>2. k \in 1..Len(s)
    BY <1>1
  <2>3. disk' \in Reach(disk, p, F)
    BY <1>2, <2>1, <2>2
  <2>4. disk'.list = {} \/ Staying(disk, p, F) \subseteq disk'.list
    BY <2>3 DEF Reach
  <2>5. hidden' = IF disk'.list = {} THEN hidden \cup disk.list ELSE hidden
    BY <1>5 DEF Interrupted
  <2>6. disk.list \subseteq ProfileIds
    BY DEF Disks
  <2>7. crashes' \in 0..MaxCrashes
    BY <1>5, ProfilesAssumption DEF Interrupted
  <2>8. Finished(s) => disk' = Final(s)
    BY DEF Finished, Final
  <2> QED BY <1>3, <2>3, <2>4, <2>5, <2>6, <2>7, <2>8 DEF Listing
<1> QED BY <1>4, <1>5

(* An operation on one profile leaves the others as they were. *)
LEMMA OneProfile ==
  ASSUME ProfilesInv, NEW p \in ProfileIds, NEW F, disk' \in Reach(disk, p, F),
         Whole(disk'.file[p]), p = Legacy => disk'.file[p].kind # "seed",
         \A s \in Seeds \ used' : p # Derived(s, 0),
         current' \in {current, p, Nobody}, used \subseteq used',
         exports' = exports, astray \subseteq astray',
         \A q \in ProfileIds : q # p => known'[q] = known[q] /\ given'[q] = given[q],
         Listing(p, F),
         known'[p] # {} =>
           disk'.file[p].kind \in {"seed", "keys"} /\ disk'.file[p].cred \in known'[p],
         known'[p] # {} =>
           p \in disk'.list \/ (None \notin F /\ (known[p] # {} \/ p \in disk.list)),
         given'[p] \ astray' \subseteq Held(disk', p)
  PROVE  Written' /\ Unborn' /\ FilesOpen' /\ KeysHeld'
<1>1. /\ TypeOK /\ Written /\ Unborn /\ FilesOpen /\ KeysHeld
      /\ \A q \in ProfileIds : q # p => disk'.file[q] = disk.file[q]
      /\ disk.index \subseteq disk'.index
  BY DEF ProfilesInv, Reach
<1>2. Written'
  BY <1>1, ProfileFacts DEF Written
<1>3. Unborn'
  <2> SUFFICES ASSUME NEW s \in Seeds \ used'
               PROVE  /\ known'[Derived(s, 0)] = {} /\ given'[Derived(s, 0)] = {}
                      /\ disk'.file[Derived(s, 0)].kind = "none"
                      /\ current' # Derived(s, 0)
                      /\ \A b \in exports' : b.of # Derived(s, 0)
    BY DEF Unborn
  <2>1. s \in Seeds \ used /\ p # Derived(s, 0) /\ Derived(s, 0) \in ProfileIds
        /\ Derived(s, 0) # Nobody
    BY ProfileFacts
  <2> QED BY <1>1, <2>1 DEF Unborn
<1>4. FilesOpen'
  <2> SUFFICES ASSUME NEW q \in ProfileIds, known'[q] # {}
               PROVE  /\ disk'.file[q].kind \in {"seed", "keys"} /\ disk'.file[q].cred \in known'[q]
                      /\ q \in disk'.list \cup hidden'
    BY DEF FilesOpen
  <2>1. CASE q # p
    BY <1>1, <2>1 DEF FilesOpen, Staying, Listing
  <2>2. CASE q = p
    BY <1>1, <2>2 DEF FilesOpen, Staying, Listing
  <2> QED BY <2>1, <2>2
<1>5. KeysHeld'
  <2> SUFFICES ASSUME NEW q \in ProfileIds, q # p
               PROVE  given'[q] \ astray' \subseteq Held(disk', q)
    BY DEF KeysHeld
  <2>1. given[q] \ astray \subseteq Held(disk, q)
    BY <1>1 DEF KeysHeld
  <2>2. Held(disk, q) \subseteq Held(disk', q)
    BY <1>1, SeedFindsMore DEF Held
  <2> QED BY <2>1, <2>2
<1> QED BY <1>2, <1>3, <1>4, <1>5

(* Without a session there is nothing to hold. *)
LEMMA StoppedSession ==
  ASSUME Stopped
  PROVE  /\ Session' /\ current' = Nobody
         /\ current' \in ProfileIds \cup {Nobody} /\ keys' \subseteq Actors
         /\ cred' \in Creds \cup {Nobody} /\ type' \in {"Old", "New"}
         /\ seed' \in [of : Seeds \cup {Nobody}, len : 0..(MaxIndex + 1)] /\ ran' \in BOOLEAN
<1>1. 0 \in 0..(MaxIndex + 1)
  BY ProfilesAssumption
<1> QED BY <1>1 DEF Stopped, Session, Converted

LEMMA ProfilesInit == Init => ProfilesInv
<1> SUFFICES ASSUME Init PROVE ProfilesInv
  OBVIOUS
<1>1. PICK c \in Creds :
        /\ disk = [file |-> [p \in ProfileIds |-> IF p = Legacy THEN KeysFile({p}, c) ELSE None],
                   list |-> {Legacy}, index |-> {Legacy}]
        /\ known = [p \in ProfileIds |-> IF p = Legacy THEN {c} ELSE {}]
  BY DEF Init
<1> DEFINE k == KeysFile({Legacy}, c)
<1>2. k \in Files /\ k.kind = "keys" /\ k.cred = c /\ k.keys = {Legacy}
  BY FileKinds, ProfileFacts
<1>3. None \in Files /\ None.kind = "none"
  BY DEF None, Files
<1>4. /\ disk.file = [p \in ProfileIds |-> IF p = Legacy THEN k ELSE None]
      /\ disk.index = {Legacy} /\ disk.list = {Legacy}
  BY <1>1
<1> HIDE DEF k
<1>5. disk.file \in [ProfileIds -> Files]
  BY <1>2, <1>3, <1>4
<1>6. /\ disk = [file |-> disk.file, list |-> disk.list, index |-> disk.index]
      /\ disk.list \subseteq ProfileIds /\ disk.index \subseteq Actors
  BY <1>1, <1>4, ProfileFacts
<1>7. disk \in [file : [ProfileIds -> Files], list : SUBSET ProfileIds, index : SUBSET Actors]
  BY <1>5, <1>6
<1>8. 0 \in 0..MaxRandom /\ 0 \in 0..MaxCrashes /\ 0 \in 0..(MaxIndex + 1)
  BY ProfilesAssumption
<1>9. TypeOK
  BY <1>1, <1>7, <1>8, ProfileFacts, ZenonT(30) DEF Init, TypeOK
<1>10. Written /\ Unborn
  <2>1. \A s \in Seeds : Derived(s, 0) \in ProfileIds /\ Derived(s, 0) # Legacy /\ Derived(s, 0) # Nobody
    BY ProfileFacts
  <2> QED BY <1>1, <1>2, <1>3, <1>4, <2>1, ProfileFacts DEF Init, Written, Unborn, Whole
<1>11. Session
  BY DEF Init, Session, Converted
<1>12. FilesOpen
  BY <1>1, <1>2, <1>4 DEF FilesOpen
<1>13. KeysHeld
  BY <1>2, <1>4, ProfileFacts DEF KeysHeld, Held, Init
<1> QED BY <1>9, <1>10, <1>11, <1>12, <1>13 DEF ProfilesInv

(* The disks create_profile goes through. *)
LEMMA CreatingSteps ==
  ASSUME TypeOK, NEW s \in Seeds, NEW c \in Creds
  PROVE  LET p == Derived(s, 0)
             F == {disk.file[p], KeysFile({p, Derived(s, 1)}, c), SeedFile(c)}
             t == Creating(s, c)
         IN  t \in Steps(disk, p, F) /\ Final(t).file[p] = SeedFile(c)
             /\ p \in Final(t).list
<1> DEFINE p  == Derived(s, 0)
           ks == {p, Derived(s, 1)}
           k  == KeysFile(ks, c)
           f  == SeedFile(c)
           F  == {disk.file[p], k, f}
           x0 == <<disk>>
           x1 == x0 \o Replace(Final(x0), p, k)
           x2 == x1 \o Indexed(Final(x1), {p})
           x3 == x2 \o Indexed(Final(x2), ks)
           x4 == x3 \o Listed(Final(x3), p)
           x5 == x4 \o Replace(Final(x4), p, f)
<1>1. Creating(s, c) = x5
  BY DEF Creating, Then, Final
<1>2. disk \in Disks /\ p \in ProfileIds /\ ks \subseteq Actors /\ {p} \subseteq Actors
  BY ProfileFacts DEF TypeOK, Disks
<1>3. k \in Files /\ f \in Files /\ k \in F /\ f \in F /\ disk.file[p] \in F
  BY <1>2, FileKinds
<1> HIDE DEF p, ks, k, f, F
<1>4. x0 \in Steps(disk, p, F)
  BY <1>2, <1>3, StepsBegin
<1> HIDE DEF x0
<1>5. x1 \in Steps(disk, p, F)
  BY <1>2, <1>3, <1>4, StepsReplace
<1> HIDE DEF x1
<1>6. x2 \in Steps(disk, p, F)
  BY <1>2, <1>5, StepsIndex
<1> HIDE DEF x2
<1>7. x3 \in Steps(disk, p, F)
  BY <1>2, <1>6, StepsIndex
<1> HIDE DEF x3
<1>8. x4 \in Steps(disk, p, F) /\ p \in Final(x4).list
  BY <1>2, <1>7, StepsListed
<1> HIDE DEF x4
<1>9. x5 \in Steps(disk, p, F) /\ Final(x5).file[p] = f /\ p \in Final(x5).list
  BY <1>2, <1>3, <1>8, StepsReplace
<1> HIDE DEF x5
<1> QED BY <1>1, <1>9 DEF p, ks, k, f, F

LEMMA CreateStep ==
  ASSUME ProfilesInv, NEW s \in Seeds, NEW c \in Creds, CreateProfile(s, c)
  PROVE  ProfilesInv'
<1> DEFINE p == Derived(s, 0)
           F == {disk.file[p], KeysFile({p, Derived(s, 1)}, c), SeedFile(c)}
           t == Creating(s, c)
<1>1. TypeOK /\ Written /\ Unborn /\ Session /\ FilesOpen /\ KeysHeld
  BY DEF ProfilesInv
<1>2. /\ p \in ProfileIds /\ p \in Actors /\ Derived(s, 1) \in Actors /\ p # Legacy /\ p # Nobody
      /\ p[1] = s
  BY ProfileFacts
<1>3. t \in Steps(disk, p, F) /\ Final(t).file[p] = SeedFile(c) /\ p \in Final(t).list
  BY <1>1, CreatingSteps
<1>4. /\ current = Nobody /\ s \notin used /\ used' = used \cup {s}
      /\ exports' = exports /\ astray' = astray
      /\ \/ /\ Finished(t)
            /\ current' = p /\ keys' = {p, Derived(s, 1)} /\ cred' = c
            /\ type' = "New" /\ seed' = [of |-> s, len |-> 2]
            /\ known' = [known EXCEPT ![p] = {c}]
            /\ given' = [given EXCEPT ![p] = {p, Derived(s, 1)}]
            /\ ran' = ran
         \/ Interrupted(t) /\ Stopped /\ UNCHANGED history
  BY DEF CreateProfile, Interrupted, history
<1>5. known[p] = {} /\ given[p] = {} /\ disk.file[p].kind = "none"
  BY <1>1, <1>4 DEF Unborn
<1> HIDE DEF t
<1>6. /\ disk' \in Reach(disk, p, F) /\ crashes' \in 0..MaxCrashes /\ Listing(p, F)
      /\ Finished(t) => disk'.file[p] = SeedFile(c) /\ p \in disk'.list
  BY <1>1, <1>3, <1>4, Outcome DEF TypeOK, Disks
<1>7. disk' \in Disks /\ disk'.file[p] \in F
  BY <1>6 DEF Reach
<1>8. SeedFile(c).kind = "seed" /\ SeedFile(c).cred = c
      /\ KeysFile({p, Derived(s, 1)}, c).kind = "keys" /\ KeysFile({p, Derived(s, 1)}, c).cred = c
  BY <1>2, FileKinds
<1>9. known \in [ProfileIds -> SUBSET Creds] /\ given \in [ProfileIds -> SUBSET Actors]
  BY <1>1 DEF TypeOK
<1>10. CASE Finished(t) /\ current' = p /\ known' = [known EXCEPT ![p] = {c}]
  <2>1. /\ keys' = {p, Derived(s, 1)} /\ cred' = c
        /\ type' = "New" /\ seed' = [of |-> s, len |-> 2]
        /\ given' = [given EXCEPT ![p] = {p, Derived(s, 1)}]
        /\ ran' = ran
    BY <1>2, <1>4, <1>10 DEF Stopped
  <2>2. disk'.file[p] = SeedFile(c) /\ p \in disk'.list
    BY <1>6, <1>10
  <2>3. Held(disk', p) = SeedKeys(s, disk'.index)
    BY <1>2, <1>8, <2>2 DEF Held
  <2>4. given'[p] \subseteq Held(disk', p) /\ given'[p] = {p, Derived(s, 1)} /\ known'[p] = {c}
    BY <1>9, <1>10, <1>2, <2>1, <2>3 DEF SeedKeys
  <2>5. 2 \in 0..(MaxIndex + 1)
    BY ProfilesAssumption
  <2>6. TypeOK'
    BY <1>1, <1>2, <1>4, <1>6, <1>7, <1>10, <2>1, <2>5 DEF TypeOK, Disks, Listing
  <2>7. Session'
    <3>1. \A j \in 2..(seed'.len - 1) : FALSE
      BY <2>1
    <3>2. ~Converted'
      BY <1>8, <1>10, <2>2 DEF Converted
    <3> QED BY <1>2, <1>10, <2>1, <2>4, <3>1, <3>2 DEF Session
  <2>8. \A q \in ProfileIds : q # p => known'[q] = known[q] /\ given'[q] = given[q]
    BY <1>9, <1>10, <2>1
  <2>9. \A x \in Seeds \ used' : p # Derived(x, 0)
    BY <1>4, ProfileFacts
  <2>10. Whole(disk'.file[p]) /\ disk'.file[p].kind = "seed"
    BY <1>8, <2>2 DEF Whole
  <2>11. Written' /\ Unborn' /\ FilesOpen' /\ KeysHeld'
    <3> HIDE DEF p, F
    <3> QED BY <1>2, <1>4, <1>6, <1>8, <1>10, <2>2, <2>4, <2>8, <2>9, <2>10, OneProfile
  <2> QED BY <2>6, <2>7, <2>11 DEF ProfilesInv
<1>11. CASE Stopped /\ UNCHANGED history
  <2>1. known' = known /\ given' = given /\ astray' = astray
    BY <1>11 DEF history
  <2>2. Session' /\ current' = Nobody
    BY <1>11, StoppedSession
  <2>3. TypeOK'
    BY <1>1, <1>4, <1>6, <1>7, <1>11, <2>1, StoppedSession DEF TypeOK, Disks, Listing
  <2>4. Whole(disk'.file[p])
    BY <1>5, <1>7, <1>8 DEF Whole
  <2>5. \A x \in Seeds \ used' : p # Derived(x, 0)
    BY <1>4, ProfileFacts
  <2>6. known'[p] = {} /\ given'[p] = {}
    BY <1>5, <2>1
  <2>7. Written' /\ Unborn' /\ FilesOpen' /\ KeysHeld'
    <3> HIDE DEF p, F
    <3> QED BY <1>2, <1>4, <1>6, <2>1, <2>2, <2>4, <2>5, <2>6, OneProfile
  <2> QED BY <2>2, <2>3, <2>7 DEF ProfilesInv
<1> QED BY <1>4, <1>10, <1>11

(* A login to a profile that stores its keys. *)
LEMMA LoadKeysStep ==
  ASSUME ProfilesInv, NEW p \in ProfileIds, NEW c \in Creds, current = Nobody,
         disk.file[p].cred = c, p \in disk.list, LoadKeys(p, c)
  PROVE  ProfilesInv'
<1> DEFINE f     == disk.file[p]
           F(ks) == {f, KeysFile(ks, c)}
           x     == <<disk>>
           r     == {Random(NextKey)}
           Effect(ks, t) ==
             \/ /\ Finished(t)
                /\ current' = p /\ keys' = ks /\ cred' = c
                /\ known' = [known EXCEPT ![p] = {c}]
                /\ given' = [given EXCEPT ![p] = @ \cup ks]
                /\ type' = type /\ seed' = seed /\ ran' = ran
                /\ exports' = exports /\ astray' = astray
             \/ Interrupted(t) /\ UNCHANGED history
<1>1. TypeOK /\ Written /\ Unborn /\ Session /\ FilesOpen /\ KeysHeld
  BY DEF ProfilesInv
<1>2. /\ f \in Files /\ f.keys \subseteq Actors /\ disk.file \in [ProfileIds -> Files]
      /\ used \subseteq Seeds \cup (0..MaxRandom) /\ disk \in Disks
  BY <1>1 DEF TypeOK, Files, Disks
<1>3. f.kind = "keys"
  BY DEF LoadKeys
<1>4. ASSUME NEW ks \in SUBSET Actors
      PROVE  /\ KeysFile(ks, c) \in Files /\ KeysFile(ks, c).kind = "keys"
             /\ KeysFile(ks, c).cred = c /\ KeysFile(ks, c).keys = ks
             /\ x \in Steps(disk, p, F(ks)) /\ Final(x) = disk
  <2>1. f \in F(ks)
    OBVIOUS
  <2> HIDE DEF F
  <2> QED BY <1>2, <2>1, FileKinds, StepsBegin
<1> HIDE DEF x
<1>5. PICK ks, t :
        /\ ks \in SUBSET Actors /\ t \in Steps(disk, p, F(ks))
        /\ f.keys \subseteq ks /\ used \subseteq used' /\ used' \subseteq Seeds \cup (0..MaxRandom)
        /\ Final(t).file[p].keys = ks
        /\ Effect(ks, t)
  <2>1. CASE Cardinality(f.keys) = 1
    <3> DEFINE ks == f.keys \cup r
               a  == x \o Indexed(Final(x), r)
               b  == a \o Replace(Final(a), p, KeysFile(ks, c))
               t  == b \o Indexed(Final(b), ks)
    <3>1. (0..MaxRandom) \ used # {} /\ used' = used \cup {NextKey} /\ Effect(ks, t)
      BY <2>1 DEF LoadKeys, Then, Final, NextKey, x, history
    <3>2. NextKey \in 0..MaxRandom
      BY <3>1, NextRandom
    <3>3. r \in SUBSET Actors /\ ks \in SUBSET Actors
      BY <1>2, <3>2 DEF Random, Actors
    <3>4. f.keys \subseteq ks
      OBVIOUS
    <3> HIDE DEF r, ks
    <3>5. x \in Steps(disk, p, F(ks)) /\ KeysFile(ks, c) \in F(ks) /\ KeysFile(ks, c) \in Files
          /\ KeysFile(ks, c).keys = ks
      BY <1>4, <3>3
    <3> HIDE DEF F
    <3>6. a \in Steps(disk, p, F(ks))
      BY <1>2, <3>3, <3>5, StepsIndex
    <3> HIDE DEF a
    <3>7. b \in Steps(disk, p, F(ks)) /\ Final(b).file[p] = KeysFile(ks, c)
      BY <1>2, <3>5, <3>6, StepsReplace
    <3> HIDE DEF b
    <3>8. t \in Steps(disk, p, F(ks)) /\ Final(t).file = Final(b).file
      BY <1>2, <3>3, <3>7, StepsIndex
    <3>9. Final(t).file[p].keys = ks
      BY <3>5, <3>7, <3>8
    <3>10. used \subseteq used' /\ used' \subseteq Seeds \cup (0..MaxRandom)
      BY <1>2, <3>1, <3>2
    <3> HIDE DEF t, Effect
    <3> QED BY <3>1, <3>3, <3>4, <3>8, <3>9, <3>10
  <2>2. CASE Cardinality(f.keys) # 1
    <3> DEFINE ks == f.keys
               t  == x \o Indexed(Final(x), ks)
    <3>1. used' = used /\ Effect(ks, t)
      BY <2>2 DEF LoadKeys, Then, Final, x, history
    <3>2. ks \in SUBSET Actors
      BY <1>2
    <3>3. x \in Steps(disk, p, F(ks)) /\ Final(x) = disk
      BY <1>4, <3>2
    <3> HIDE DEF F, ks
    <3>4. t \in Steps(disk, p, F(ks)) /\ Final(t).file = Final(x).file
      BY <1>2, <3>2, <3>3, StepsIndex
    <3>5. Final(t).file[p].keys = ks
      BY <3>3, <3>4 DEF ks
    <3> HIDE DEF t, Effect
    <3> QED BY <1>2, <3>1, <3>2, <3>4, <3>5 DEF ks
  <2> QED BY <2>1, <2>2
<1>6. exports' = exports /\ astray' = astray
  BY <1>5 DEF Interrupted, history
<1>7. KeysFile(ks, c).kind = "keys" /\ KeysFile(ks, c).cred = c /\ KeysFile(ks, c).keys = ks
  BY <1>4, <1>5
<1>8. /\ disk' \in Reach(disk, p, F(ks)) /\ crashes' \in 0..MaxCrashes /\ Listing(p, F(ks))
      /\ Finished(t) => disk' = Final(t)
  <2> HIDE DEF F
  <2> QED BY <1>1, <1>2, <1>5, Outcome DEF TypeOK
<1>9. disk' \in Disks /\ disk'.file[p] \in F(ks)
  BY <1>8 DEF Reach
<1>10. /\ disk'.file[p].kind = "keys" /\ disk'.file[p].cred = c
       /\ f.keys \subseteq disk'.file[p].keys
       /\ Held(disk', p) = disk'.file[p].keys /\ Held(disk, p) = f.keys
  <2>1. disk'.file[p] \in {f, KeysFile(ks, c)}
    BY <1>9
  <2>2. disk'.file[p].kind = "keys" /\ disk'.file[p].cred = c /\ f.keys \subseteq disk'.file[p].keys
    BY <1>3, <1>5, <1>7, <2>1
  <2> QED BY <1>3, <2>2 DEF Held
<1>11. Whole(disk'.file[p])
  BY <1>10 DEF Whole
<1>12. \A s \in Seeds \ used' : p # Derived(s, 0)
  <2>1. \A s \in Seeds \ used' : s \notin used
    BY <1>5
  <2>2. f.kind # "none"
    BY <1>3
  <2> QED BY <1>1, <2>1, <2>2 DEF Unborn
<1>13. known \in [ProfileIds -> SUBSET Creds] /\ given \in [ProfileIds -> SUBSET Actors]
  BY <1>1 DEF TypeOK
<1>14. given[p] \ astray \subseteq f.keys
  BY <1>1, <1>10 DEF KeysHeld
<1>15. None \notin F(ks)
  BY <1>3, <1>7 DEF None
<1>16. CASE /\ Finished(t)
            /\ current' = p /\ keys' = ks /\ cred' = c
            /\ known' = [known EXCEPT ![p] = {c}]
            /\ given' = [given EXCEPT ![p] = @ \cup ks]
            /\ type' = type /\ seed' = seed /\ ran' = ran
  <2>1. disk'.file[p].keys = ks
    BY <1>5, <1>8, <1>16
  <2>2. known'[p] = {c} /\ given'[p] = given[p] \cup ks
    BY <1>13, <1>16
  <2>3. p # Nobody /\ type' = "Old"
    BY <1>1, <1>16, ProfileFacts DEF Session
  <2>4. given'[p] \ astray' \subseteq ks
    BY <1>5, <1>6, <1>14, <2>2
  <2>5. Session'
    BY <1>16, <2>2, <2>3, <2>4 DEF Session, Converted
  <2>6. TypeOK'
    <3>1. known' \in [ProfileIds -> SUBSET Creds] /\ given' \in [ProfileIds -> SUBSET Actors]
      BY <1>5, <1>13, <1>16
    <3>2. /\ current' \in ProfileIds /\ keys' \subseteq Actors /\ cred' \in Creds
          /\ type' = type /\ seed' = seed /\ ran' = ran
      BY <1>5, <1>16
    <3>3. used' \subseteq Seeds \cup (0..MaxRandom)
      BY <1>5
    <3> QED BY <1>1, <1>6, <1>8, <1>9, <3>1, <3>2, <3>3 DEF TypeOK, Disks, Listing
  <2>7. \A q \in ProfileIds : q # p => known'[q] = known[q] /\ given'[q] = given[q]
    BY <1>13, <1>16
  <2>8. Written' /\ Unborn' /\ FilesOpen' /\ KeysHeld'
    <3> HIDE DEF F, f, Effect
    <3> QED BY <1>5, <1>6, <1>3, <1>8, <1>10, <1>12, <1>16, <1>11, <2>1, <2>2, <2>4, <2>7, <1>15, OneProfile
  <2> QED BY <2>5, <2>6, <2>8 DEF ProfilesInv
<1>17. CASE Stopped /\ UNCHANGED history
  <2>1. known' = known /\ given' = given /\ astray' = astray
    BY <1>17 DEF history
  <2>2. Session' /\ current' = Nobody
    BY <1>17, StoppedSession
  <2>3. TypeOK'
    BY <1>1, <1>5, <1>8, <1>9, <1>17, <2>1, StoppedSession DEF TypeOK, Disks, Listing
  <2>4. known'[p] # {} => disk'.file[p].cred \in known'[p]
    BY <1>1, <1>10, <2>1 DEF FilesOpen
  <2>5. given'[p] \ astray' \subseteq Held(disk', p)
    BY <1>10, <1>14, <2>1
  <2>6. Written' /\ Unborn' /\ FilesOpen' /\ KeysHeld'
    <3> HIDE DEF F, f, Effect
    <3> QED BY <1>5, <1>6, <1>3, <1>8, <1>10, <1>11, <1>12, <2>1, <2>2, <2>4, <2>5, <1>15, OneProfile
  <2> QED BY <2>2, <2>3, <2>6 DEF ProfilesInv
<1> QED BY <1>5, <1>16, <1>17 DEF Interrupted

(* A login to a profile whose keys are derived. *)
LEMMA LoadSeedStep ==
  ASSUME ProfilesInv, NEW p \in ProfileIds, NEW c \in Creds, current = Nobody,
         disk.file[p].cred = c, p \in disk.list, LoadSeed(p, c)
  PROVE  ProfilesInv'
<1> DEFINE ks == SeedKeys(p[1], disk.index)
           F  == {disk.file[p]}
           x  == <<disk>>
           t  == x \o Listed(Final(x), p)
<1>1. TypeOK /\ Written /\ Unborn /\ Session /\ FilesOpen /\ KeysHeld
  BY DEF ProfilesInv
<1>2. /\ disk.file[p].kind = "seed" /\ used' = used
      /\ exports' = exports /\ astray' = astray
      /\ \/ /\ Finished(t)
            /\ current' = p /\ keys' = ks /\ cred' = c /\ type' = "New"
            /\ seed' = [of |-> p[1], len |-> Cardinality(ks)]
            /\ known' = [known EXCEPT ![p] = {c}]
            /\ given' = [given EXCEPT ![p] = @ \cup ks]
            /\ ran' = ran
         \/ Interrupted(t) /\ Stopped /\ UNCHANGED history
  BY DEF LoadSeed, Then, Final, Interrupted, history
<1>3. p # Legacy /\ p[1] \in Seeds /\ p = Derived(p[1], 0) /\ p # Nobody
  BY <1>1, <1>2, ProfileFacts DEF Written
<1>4. /\ ks \subseteq Actors /\ Cardinality(ks) \in 0..(MaxIndex + 1)
      /\ \A j \in 2..(Cardinality(ks) - 1) : Derived(p[1], j) \in disk.index
  BY <1>3, SeedFinds
<1>5. disk \in Disks /\ disk.file[p] \in F
  BY <1>1 DEF TypeOK, Disks
<1>6. x \in Steps(disk, p, F) /\ Final(x) = disk
  <2> HIDE DEF F
  <2> QED BY <1>5, StepsBegin
<1>7. t \in Steps(disk, p, F)
  <2> HIDE DEF F, x
  <2> QED BY <1>5, <1>6, StepsListed
<1> HIDE DEF t, x
<1>8. disk' \in Reach(disk, p, F) /\ crashes' \in 0..MaxCrashes /\ Listing(p, F)
  <2> HIDE DEF F
  <2> QED BY <1>1, <1>2, <1>5, <1>7, Outcome DEF TypeOK
<1>9. disk' \in Disks /\ disk'.file[p] = disk.file[p] /\ disk.index \subseteq disk'.index
  BY <1>8 DEF Reach
<1>10. Held(disk, p) = ks /\ ks \subseteq Held(disk', p)
  BY <1>2, <1>9, SeedFindsMore DEF Held
<1>11. \A s \in Seeds \ used' : p # Derived(s, 0)
  BY <1>1, <1>2 DEF Unborn
<1>12. known \in [ProfileIds -> SUBSET Creds] /\ given \in [ProfileIds -> SUBSET Actors]
  BY <1>1 DEF TypeOK
<1>13. given[p] \ astray \subseteq ks
  BY <1>1, <1>10 DEF KeysHeld
<1>14. Whole(disk'.file[p])
  BY <1>1, <1>9 DEF Written
<1>15. None \notin F
  BY <1>2 DEF None
<1> HIDE DEF ks
<1>16. CASE /\ current' = p /\ keys' = ks /\ cred' = c /\ type' = "New"
            /\ seed' = [of |-> p[1], len |-> Cardinality(ks)]
            /\ known' = [known EXCEPT ![p] = {c}]
            /\ given' = [given EXCEPT ![p] = @ \cup ks]
            /\ ran' = ran
  <2>1. known'[p] = {c} /\ given'[p] = given[p] \cup ks
    BY <1>12, <1>16
  <2>2. given'[p] \ astray' \subseteq ks
    BY <1>2, <1>13, <2>1
  <2>3. ~Converted'
    BY <1>2, <1>9, <1>16 DEF Converted
  <2>4. Session'
    <3>1. seed'.of = p[1] /\ seed'.len = Cardinality(ks)
      BY <1>16
    <3> QED BY <1>3, <1>4, <1>9, <1>16, <2>1, <2>2, <2>3, <3>1 DEF Session
  <2>5. seed' \in [of : Seeds \cup {Nobody}, len : 0..(MaxIndex + 1)]
    BY <1>3, <1>4, <1>16
  <2>6. TypeOK'
    BY <1>1, <1>2, <1>4, <1>8, <1>9, <1>16, <2>5 DEF TypeOK, Disks, Listing
  <2>7. \A q \in ProfileIds : q # p => known'[q] = known[q] /\ given'[q] = given[q]
    BY <1>12, <1>16
  <2>8. Written' /\ Unborn' /\ FilesOpen' /\ KeysHeld'
    <3> HIDE DEF F
    <3> QED BY <1>2, <1>3, <1>8, <1>9, <1>10, <1>11, <1>16, <1>14, <2>1, <2>2, <2>7, <1>15, OneProfile
  <2> QED BY <2>4, <2>6, <2>8 DEF ProfilesInv
<1>17. CASE Stopped /\ UNCHANGED history
  <2>1. known' = known /\ given' = given /\ astray' = astray
    BY <1>17 DEF history
  <2>2. Session' /\ current' = Nobody
    BY <1>17, StoppedSession
  <2>3. TypeOK'
    BY <1>1, <1>2, <1>8, <1>9, <1>17, <2>1, StoppedSession DEF TypeOK, Disks, Listing
  <2>4. known'[p] # {} => disk'.file[p].cred \in known'[p]
    BY <1>1, <1>9, <2>1 DEF FilesOpen
  <2>5. given'[p] \ astray' \subseteq Held(disk', p)
    BY <1>10, <1>13, <2>1
  <2>6. Written' /\ Unborn' /\ FilesOpen' /\ KeysHeld'
    <3> HIDE DEF F
    <3> QED BY <1>2, <1>3, <1>8, <1>9, <1>11, <1>14, <2>1, <2>2, <2>4, <2>5, <1>15, OneProfile
  <2> QED BY <2>2, <2>3, <2>6 DEF ProfilesInv
<1> QED BY <1>2, <1>16, <1>17

(* The session goes on: what it knows of its profile. *)
LEMMA SessionFacts ==
  ASSUME ProfilesInv, current # Nobody
  PROVE  /\ current \in ProfileIds
         /\ disk \in Disks /\ keys \subseteq Actors /\ cred \in Creds
         /\ known \in [ProfileIds -> SUBSET Creds] /\ given \in [ProfileIds -> SUBSET Actors]
         /\ given[current] \ astray \subseteq keys
         /\ known[current] # {} => cred \in known[current]
         /\ known[current] # {} => disk.file[current].kind \in {"seed", "keys"}
         /\ given[current] \ astray \subseteq Held(disk, current)
         /\ \A s \in Seeds \ used : current # Derived(s, 0)
         /\ \A p \in ProfileIds : Whole(disk.file[p])
         /\ disk.file[Legacy].kind # "seed"
BY DEF ProfilesInv, TypeOK, Disks, Session, FilesOpen, KeysHeld, Unborn, Written

(* A key derived from the seed is indexed, not saved. *)
LEMMA DerivedWalletStep ==
  ASSUME ProfilesInv, current # Nobody, DerivedWallet
  PROVE  ProfilesInv'
<1> DEFINE a == Derived(seed.of, seed.len)
           x == <<disk>>
           y == x \o <<>>
           t == y \o Indexed(Final(y), {a})
           F == {disk.file[current]}
<1>1. PICK p : p = current
  OBVIOUS
<1>2. TypeOK /\ Written /\ Unborn /\ Session /\ FilesOpen /\ KeysHeld
  BY DEF ProfilesInv
<1>3. /\ p \in ProfileIds /\ p # Nobody /\ p # Legacy /\ type = "New" /\ seed.len \in 0..MaxIndex
      /\ disk \in Disks /\ seed.of \in Seeds /\ p = Derived(seed.of, 0) /\ p[1] = seed.of
      /\ \A j \in 2..(seed.len - 1) : Derived(seed.of, j) \in disk.index
  <2>1. seed.len \in 0..MaxIndex
    <3>1. seed.len \in 0..(MaxIndex + 1) /\ seed.len <= MaxIndex /\ MaxIndex \in Nat
      BY <1>2, ProfilesAssumption DEF DerivedWallet, TypeOK
    <3> QED BY <3>1
  <2> QED BY <1>1, <1>2, <2>1, SessionFacts, ProfileFacts DEF DerivedWallet, Session
<1>4. /\ used' = used /\ exports' = exports
      /\ \/ /\ Finished(t) /\ keys' = keys \cup {a}
            /\ Shown(current, {a}, IF Converted THEN {a} ELSE {})
            /\ UNCHANGED <<current, cred, type, seed, ran, exports, known>>
         \/ Interrupted(t) /\ Stopped /\ UNCHANGED history
  BY DEF DerivedWallet, Then, Final, Saved, Interrupted, history
<1>5. a \in Actors /\ {a} \in SUBSET Actors
  BY <1>3 DEF Derived, Actors
<1>6. x \in Steps(disk, p, F) /\ Final(x) = disk
  <2>1. disk.file[p] \in F
    BY <1>1
  <2> HIDE DEF F
  <2> QED BY <1>3, <2>1, StepsBegin
<1>7. y = x
  BY <1>6 DEF Steps
<1>8. t \in Steps(disk, p, F) /\ Final(t).file = disk.file /\ Final(t).index = disk.index \cup {a}
  <2> HIDE DEF F, x, y, a
  <2> QED BY <1>3, <1>5, <1>6, <1>7, StepsIndex
<1> HIDE DEF t, x, y
<1>9. /\ disk' \in Reach(disk, p, F) /\ crashes' \in 0..MaxCrashes /\ Listing(p, F)
      /\ Finished(t) => disk' = Final(t)
  <2> HIDE DEF F
  <2> QED BY <1>2, <1>3, <1>4, <1>8, Outcome DEF TypeOK
<1>10. disk' \in Disks /\ disk'.file[p] = disk.file[p] /\ disk.index \subseteq disk'.index
  BY <1>1, <1>9 DEF Reach
<1>11. Held(disk, p) \subseteq Held(disk', p)
  BY <1>10, SeedFindsMore DEF Held
<1>12. /\ known \in [ProfileIds -> SUBSET Creds] /\ given \in [ProfileIds -> SUBSET Actors]
       /\ given[p] \ astray \subseteq keys /\ given[p] \ astray \subseteq Held(disk, p)
       /\ \A s \in Seeds \ used' : p # Derived(s, 0)
       /\ Whole(disk.file[p])
       /\ known[p] # {} => /\ cred \in known[p] /\ disk.file[p].kind \in {"seed", "keys"}
                           /\ disk.file[p].cred \in known[p]
  BY <1>1, <1>2, <1>4, SessionFacts DEF FilesOpen
<1>13. known[p] # {} => None \notin F
  BY <1>1, <1>12 DEF None
<1>14. CASE /\ Finished(t) /\ keys' = keys \cup {a}
            /\ Shown(current, {a}, IF Converted THEN {a} ELSE {})
            /\ UNCHANGED <<current, cred, type, seed, ran, exports, known>>
  <2>1. /\ given' = [given EXCEPT ![p] = IF known[p] = {} THEN {} ELSE @ \cup {a}]
        /\ astray' = astray \cup (IF Converted THEN {a} ELSE {})
    BY <1>1, <1>14 DEF Shown
  <2>2. given'[p] = IF known[p] = {} THEN {} ELSE given[p] \cup {a}
    BY <1>3, <1>12, <2>1
  <2>3. a \in disk'.index
    BY <1>8, <1>9, <1>14
  <2>4. ASSUME known[p] # {}, ~Converted PROVE a \in Held(disk', p)
    <3>1. disk'.file[p].kind = "seed"
      BY <1>1, <1>3, <1>10, <1>12, <2>4 DEF Converted
    <3>2. a \in SeedKeys(seed.of, disk'.index)
      BY <1>3, <1>10, <2>3, SeedFindsNext
    <3> QED BY <1>3, <3>1, <3>2 DEF Held
  <2>5. given'[p] \ astray' \subseteq Held(disk', p)
    BY <1>11, <1>12, <2>1, <2>2, <2>4
  <2>6. Converted' <=> Converted
    BY <1>1, <1>10, <1>14 DEF Converted
  <2>7. Session'
    <3>1. Converted' => keys' \ astray' \subseteq disk'.file[current'].keys
      BY <1>1, <1>2, <1>10, <1>14, <2>1, <2>6 DEF Session
    <3>2. given'[p] \ astray' \subseteq keys'
      BY <1>12, <1>14, <2>1, <2>2
    <3> QED BY <1>1, <1>2, <1>3, <1>10, <1>12, <1>14, <3>1, <3>2 DEF Session
  <2>8. TypeOK'
    <3>1. given' \in [ProfileIds -> SUBSET Actors] /\ astray' \subseteq Actors /\ keys' \subseteq Actors
      BY <1>2, <1>5, <1>12, <1>14, <2>1 DEF TypeOK
    <3> QED BY <1>2, <1>4, <1>9, <1>10, <1>14, <3>1 DEF TypeOK, Disks, Listing
  <2>9. \A q \in ProfileIds : q # p => known'[q] = known[q] /\ given'[q] = given[q]
    BY <1>12, <1>14, <2>1
  <2>10. astray \subseteq astray' /\ current' = current /\ known' = known
    BY <1>14, <2>1
  <2>11. Written' /\ Unborn' /\ FilesOpen' /\ KeysHeld'
    <3> HIDE DEF F
    <3> QED BY <1>3, <1>4, <1>9, <1>10, <1>12, <2>5, <2>9, <2>10, <1>13, OneProfile
  <2> QED BY <2>7, <2>8, <2>11 DEF ProfilesInv
<1>15. CASE Stopped /\ UNCHANGED history
  <2>1. known' = known /\ given' = given /\ astray' = astray
    BY <1>15 DEF history
  <2>2. Session' /\ current' = Nobody
    BY <1>15, StoppedSession
  <2>3. TypeOK'
    BY <1>2, <1>4, <1>9, <1>10, <1>15, <2>1, StoppedSession DEF TypeOK, Disks, Listing
  <2>4. given'[p] \ astray' \subseteq Held(disk', p)
    BY <1>11, <1>12, <2>1
  <2>5. Written' /\ Unborn' /\ FilesOpen' /\ KeysHeld'
    <3> HIDE DEF F
    <3> QED BY <1>3, <1>4, <1>9, <1>10, <1>12, <2>1, <2>2, <2>4, <1>13, OneProfile
  <2> QED BY <2>2, <2>3, <2>5 DEF ProfilesInv
<1> QED BY <1>4, <1>14, <1>15

(* A random key is saved with all the session holds.                       *)
LEMMA RandomWalletStep ==
  ASSUME ProfilesInv, current # Nobody, NEW k \in 0..MaxRandom, RandomWallet(k)
  PROVE  ProfilesInv'
<1> DEFINE a == Random(k)
           K == KeysFile(keys \cup {a}, cred)
           x == <<disk>>
           y == x \o Replace(Final(x), current, K)
           t == y \o Indexed(Final(y), {a})
           F == {disk.file[current], K}
<1>1. PICK p : p = current
  OBVIOUS
<1>2. TypeOK /\ Written /\ Unborn /\ Session /\ FilesOpen /\ KeysHeld
  BY DEF ProfilesInv
<1>3. /\ p \in ProfileIds /\ p # Nobody /\ disk \in Disks /\ keys \subseteq Actors
      /\ cred \in Creds
      /\ known \in [ProfileIds -> SUBSET Creds] /\ given \in [ProfileIds -> SUBSET Actors]
      /\ given[p] \ astray \subseteq keys
      /\ known[p] # {} => /\ cred \in known[p] /\ disk.file[p].kind \in {"seed", "keys"}
                          /\ disk.file[p].cred \in known[p]
      /\ given[p] \ astray \subseteq Held(disk, p)
      /\ \A s \in Seeds \ used : p # Derived(s, 0)
      /\ Whole(disk.file[p]) /\ (p = Legacy => disk.file[p].kind # "seed")
  BY <1>1, <1>2, SessionFacts DEF FilesOpen
<1>4. /\ used' = used \cup {k} /\ exports' = exports
      /\ \/ /\ Finished(t) /\ keys' = keys \cup {a} /\ Shown(current, {a}, {})
            /\ UNCHANGED <<current, cred, type, seed, ran, exports, known>>
         \/ Interrupted(t) /\ Stopped /\ UNCHANGED history
  BY DEF RandomWallet, Then, Final, Saved, Interrupted, history
<1>5. a \in Actors /\ {a} \in SUBSET Actors /\ keys \cup {a} \in SUBSET Actors
  BY <1>3 DEF Random, Actors
<1>6. K \in Files /\ K.kind = "keys" /\ K.cred = cred /\ K.keys = keys \cup {a}
  BY <1>3, <1>5, FileKinds
<1>7. x \in Steps(disk, p, F) /\ Final(x) = disk /\ K \in F
  <2>1. disk.file[p] \in F /\ K \in F
    BY <1>1
  <2> HIDE DEF F
  <2> QED BY <1>3, <2>1, StepsBegin
<1>8. t \in Steps(disk, p, F) /\ Final(t).file[p] = K
  <2>1. y = x \o Replace(Final(x), p, K)
    BY <1>1
  <2> HIDE DEF F, x, y, a, K
  <2>2. y \in Steps(disk, p, F) /\ Final(y).file[p] = K
    BY <1>3, <1>6, <1>7, <2>1, StepsReplace
  <2>3. t \in Steps(disk, p, F) /\ Final(t).file = Final(y).file
    BY <1>3, <1>5, <2>2, StepsIndex
  <2> QED BY <2>2, <2>3
<1> HIDE DEF t, x, y, K
<1>9. /\ disk' \in Reach(disk, p, F) /\ crashes' \in 0..MaxCrashes /\ Listing(p, F)
      /\ Finished(t) => disk' = Final(t)
  <2> HIDE DEF F
  <2> QED BY <1>2, <1>3, <1>4, <1>8, Outcome DEF TypeOK
<1>10. /\ disk' \in Disks /\ disk.index \subseteq disk'.index
       /\ disk'.file[p] = disk.file[p] \/ disk'.file[p] = K
  BY <1>1, <1>9 DEF Reach
<1>11. /\ Whole(disk'.file[p]) /\ (p = Legacy => disk'.file[p].kind # "seed")
       /\ known[p] # {} => disk'.file[p].kind \in {"seed", "keys"} /\ disk'.file[p].cred \in known[p]
       /\ given[p] \ astray \subseteq Held(disk', p)
  <2>1. CASE disk'.file[p] = K
    <3>1. Held(disk', p) = keys \cup {a}
      BY <1>6, <2>1 DEF Held
    <3> QED BY <1>3, <1>6, <2>1, <3>1 DEF Whole
  <2>2. CASE disk'.file[p] = disk.file[p]
    <3>1. Held(disk, p) \subseteq Held(disk', p)
      BY <1>10, <2>2, SeedFindsMore DEF Held
    <3> QED BY <1>3, <2>2, <3>1
  <2> QED BY <1>10, <2>1, <2>2
<1>12. \A s \in Seeds \ used' : p # Derived(s, 0)
  BY <1>3, <1>4
<1>13. used' \subseteq Seeds \cup (0..MaxRandom)
  BY <1>2, <1>4 DEF TypeOK
<1>14. known[p] # {} => None \notin F
  BY <1>1, <1>3, <1>6 DEF None
<1>15. CASE /\ Finished(t) /\ keys' = keys \cup {a} /\ Shown(current, {a}, {})
            /\ UNCHANGED <<current, cred, type, seed, ran, exports, known>>
  <2>1. /\ given' = [given EXCEPT ![p] = IF known[p] = {} THEN {} ELSE @ \cup {a}]
        /\ astray' = astray
    BY <1>1, <1>15 DEF Shown
  <2>2. given'[p] \subseteq given[p] \cup {a}
    BY <1>3, <2>1
  <2>3. disk'.file[p] = K
    BY <1>8, <1>9, <1>15
  <2>4. Held(disk', p) = keys'
    BY <1>6, <1>15, <2>3 DEF Held
  <2>5. given'[p] \ astray' \subseteq keys'
    BY <1>3, <1>15, <2>1, <2>2
  <2>6. Session'
    <3>1. disk'.file[current'].keys = keys'
      BY <1>1, <1>6, <1>15, <2>3
    <3> QED BY <1>1, <1>2, <1>3, <1>10, <1>15, <2>5, <3>1 DEF Session
  <2>7. TypeOK'
    <3>1. given' \in [ProfileIds -> SUBSET Actors] /\ keys' \subseteq Actors
      BY <1>3, <1>5, <1>15, <2>1
    <3> QED BY <1>2, <1>9, <1>10, <1>13, <1>15, <2>1, <3>1 DEF TypeOK, Disks, Listing
  <2>8. \A q \in ProfileIds : q # p => known'[q] = known[q] /\ given'[q] = given[q]
    BY <1>3, <1>15, <2>1
  <2>9. current' = current /\ known' = known /\ used \subseteq used'
    BY <1>4, <1>15
  <2>10. Written' /\ Unborn' /\ FilesOpen' /\ KeysHeld'
    <3> HIDE DEF F
    <3> QED BY <1>3, <1>4, <1>9, <1>11, <1>12, <2>1, <2>4, <2>5, <2>8, <2>9, <1>14, OneProfile
  <2> QED BY <2>6, <2>7, <2>10 DEF ProfilesInv
<1>16. CASE Stopped /\ UNCHANGED history
  <2>1. known' = known /\ given' = given /\ astray' = astray
    BY <1>16 DEF history
  <2>2. Session' /\ current' = Nobody
    BY <1>16, StoppedSession
  <2>3. TypeOK'
    BY <1>2, <1>9, <1>10, <1>13, <1>16, <2>1, StoppedSession DEF TypeOK, Disks, Listing
  <2>4. Written' /\ Unborn' /\ FilesOpen' /\ KeysHeld'
    <3> HIDE DEF F
    <3> QED BY <1>3, <1>4, <1>9, <1>11, <1>12, <2>1, <2>2, <1>14, OneProfile
  <2> QED BY <2>2, <2>3, <2>4 DEF ProfilesInv
<1> QED BY <1>4, <1>15, <1>16

(* The file under the new hash: the seed, or the keys of the session.      *)
LEMMA CredentialsStep ==
  ASSUME ProfilesInv, NEW new \in Creds, ChangeCredentials(new)
  PROVE  ProfilesInv'
<1> DEFINE K == IF type = "New" THEN SeedFile(new) ELSE KeysFile(keys, new)
           x == <<disk>>
           t == x \o Replace(Final(x), current, K)
           F == {disk.file[current], K}
<1>1. PICK p : p = current
  OBVIOUS
<1>2. TypeOK /\ Written /\ Unborn /\ Session /\ FilesOpen /\ KeysHeld
  BY DEF ProfilesInv
<1>3. /\ p \in ProfileIds /\ p # Nobody /\ disk \in Disks /\ keys \subseteq Actors
      /\ known \in [ProfileIds -> SUBSET Creds] /\ given \in [ProfileIds -> SUBSET Actors]
      /\ given[p] \ astray \subseteq keys
      /\ known[p] # {} /\ cred \in known[p] /\ disk.file[p].kind \in {"seed", "keys"}
      /\ disk.file[p].cred \in known[p]
      /\ given[p] \ astray \subseteq Held(disk, p)
      /\ \A s \in Seeds \ used : p # Derived(s, 0)
      /\ Whole(disk.file[p]) /\ (p = Legacy => disk.file[p].kind # "seed")
  BY <1>1, <1>2, SessionFacts DEF FilesOpen, ChangeCredentials
<1>4. /\ used' = used /\ exports' = exports
      /\ astray' = IF Converted THEN astray \cup keys ELSE astray
      /\ \/ /\ Finished(t) /\ cred' = new
            /\ known' = [known EXCEPT ![current] = {new}]
            /\ UNCHANGED <<current, keys, type, seed, ran, exports, given>>
         \/ /\ Interrupted(t) /\ Stopped
            /\ known' = [known EXCEPT ![current] = @ \cup {new}]
            /\ given' = given
  BY DEF ChangeCredentials, Then, Final, Interrupted, Rehashed
<1>5. type = "New" => p # Legacy
  BY <1>1, <1>2, ProfileFacts DEF Session
<1>6. /\ K \in Files /\ K.kind = IF type = "New" THEN "seed" ELSE "keys"
      /\ K.cred = new /\ (type # "New" => K.keys = keys)
  BY <1>3, FileKinds
<1>7. x \in Steps(disk, p, F) /\ Final(x) = disk /\ K \in F
  <2>1. disk.file[p] \in F /\ K \in F
    BY <1>1
  <2> HIDE DEF F
  <2> QED BY <1>3, <2>1, StepsBegin
<1>8. t \in Steps(disk, p, F) /\ Final(t).file[p] = K
  <2>1. t = x \o Replace(Final(x), p, K)
    BY <1>1
  <2> HIDE DEF F, x, t, K
  <2> QED BY <1>3, <1>6, <1>7, <2>1, StepsReplace
<1> HIDE DEF t, x, K
<1>9. /\ disk' \in Reach(disk, p, F) /\ crashes' \in 0..MaxCrashes /\ Listing(p, F)
      /\ Finished(t) => disk' = Final(t)
  <2> HIDE DEF F
  <2> QED BY <1>2, <1>3, <1>4, <1>8, Outcome DEF TypeOK
<1>10. /\ disk' \in Disks /\ disk.index \subseteq disk'.index
       /\ disk'.file[p] = disk.file[p] \/ disk'.file[p] = K
  BY <1>1, <1>9 DEF Reach
<1>11. /\ disk'.file[p].kind \in {"seed", "keys"} /\ (p = Legacy => disk'.file[p].kind # "seed")
       /\ disk'.file[p].cred \in {disk.file[p].cred, new}
  BY <1>3, <1>5, <1>6, <1>10
<1>12. given[p] \ astray' \subseteq Held(disk', p)
  <2>1. CASE disk'.file[p] = disk.file[p]
    <3>1. Held(disk, p) \subseteq Held(disk', p)
      BY <1>10, <2>1, SeedFindsMore DEF Held
    <3> QED BY <1>3, <1>4, <3>1
  <2>2. CASE disk'.file[p] = K /\ type # "New"
    <3>1. Held(disk', p) = keys
      BY <1>6, <2>2 DEF Held
    <3> QED BY <1>3, <1>4, <3>1
  <2>3. CASE disk'.file[p] = K /\ type = "New" /\ disk.file[p].kind = "seed"
    <3>1. Held(disk, p) = SeedKeys(p[1], disk.index)
          /\ Held(disk', p) = SeedKeys(p[1], disk'.index)
      BY <1>6, <2>3 DEF Held
    <3>2. SeedKeys(p[1], disk.index) \subseteq SeedKeys(p[1], disk'.index)
      BY <1>10, SeedFindsMore
    <3> QED BY <1>3, <1>4, <3>1, <3>2
  <2>4. CASE type = "New" /\ disk.file[p].kind = "keys"
    <3>1. Converted
      BY <1>1, <2>4 DEF Converted
    <3> QED BY <1>3, <1>4, <3>1
  <2> QED BY <1>3, <1>10, <2>1, <2>2, <2>3, <2>4
<1>13. /\ known' \in [ProfileIds -> SUBSET Creds] /\ given' = given
       /\ \A q \in ProfileIds : q # p => known'[q] = known[q]
       /\ disk'.file[p].cred \in known'[p]
       /\ astray \subseteq astray' /\ astray' \subseteq Actors
  <2>1. astray \subseteq Actors
    BY <1>2 DEF TypeOK
  <2>2. CASE Finished(t) /\ known' = [known EXCEPT ![current] = {new}] /\ UNCHANGED given
    <3>1. disk'.file[p].cred = new
      BY <1>6, <1>8, <1>9, <2>2
    <3> QED BY <1>1, <1>3, <1>4, <2>1, <2>2, <3>1
  <2>3. CASE known' = [known EXCEPT ![current] = @ \cup {new}] /\ given' = given
    BY <1>1, <1>3, <1>4, <1>11, <2>1, <2>3
  <2> QED BY <1>4, <2>2, <2>3
<1>14. None \notin F
  BY <1>1, <1>3, <1>6 DEF None
<1>15. current' \in {current, p, Nobody}
  BY <1>4 DEF Stopped
<1>16. Written' /\ Unborn' /\ FilesOpen' /\ KeysHeld'
  <2>1. /\ Whole(disk'.file[p]) /\ given'[p] \ astray' \subseteq Held(disk', p)
        /\ \A q \in ProfileIds : q # p => known'[q] = known[q] /\ given'[q] = given[q]
        /\ \A s \in Seeds \ used' : p # Derived(s, 0)
    BY <1>3, <1>4, <1>6, <1>10, <1>11, <1>12, <1>13 DEF Whole
  <2> HIDE DEF F
  <2> QED BY <1>3, <1>4, <1>9, <1>11, <1>13, <1>15, <1>14, <2>1, OneProfile
<1>17. CASE /\ Finished(t) /\ cred' = new
            /\ known' = [known EXCEPT ![current] = {new}]
            /\ UNCHANGED <<current, keys, type, seed, ran, exports, given>>
  <2>1. TypeOK'
    BY <1>2, <1>4, <1>9, <1>10, <1>13, <1>17 DEF TypeOK, Disks, Listing
  <2>2. Session'
    <3>1. known'[p] = {new} /\ given[p] \ astray' \subseteq keys
      BY <1>1, <1>3, <1>13, <1>17
    <3>2. ~Converted'
      BY <1>1, <1>6, <1>8, <1>9, <1>17 DEF Converted
    <3> QED BY <1>1, <1>2, <1>3, <1>10, <1>17, <3>1, <3>2 DEF Session
  <2> QED BY <1>16, <2>1, <2>2 DEF ProfilesInv
<1>18. CASE Stopped
  <2>1. TypeOK'
    BY <1>2, <1>4, <1>9, <1>10, <1>13, <1>18, StoppedSession DEF TypeOK, Disks, Listing
  <2> QED BY <1>16, <1>18, <2>1, StoppedSession DEF ProfilesInv
<1> QED BY <1>4, <1>17, <1>18

(* The user deletes the profile: nothing of it is expected any more.       *)
LEMMA DeleteStep ==
  ASSUME ProfilesInv, DeleteProfile
  PROVE  ProfilesInv'
<1> DEFINE x == <<disk>>
           y == x \o Replace(Final(x), current, None)
           t == y \o Unlisted(Final(y), current)
           F == {disk.file[current], None}
<1>1. PICK p : p = current
  OBVIOUS
<1>2. TypeOK /\ Written /\ Unborn /\ Session /\ FilesOpen /\ KeysHeld
  BY DEF ProfilesInv
<1>3. /\ p \in ProfileIds /\ p # Nobody /\ disk \in Disks
      /\ known \in [ProfileIds -> SUBSET Creds] /\ given \in [ProfileIds -> SUBSET Actors]
      /\ \A s \in Seeds \ used : p # Derived(s, 0)
      /\ Whole(disk.file[p]) /\ (p = Legacy => disk.file[p].kind # "seed")
  BY <1>1, <1>2, SessionFacts DEF DeleteProfile
<1>4. /\ used' = used /\ exports' = exports /\ astray' = astray
      /\ known' = [known EXCEPT ![p] = {}] /\ given' = [given EXCEPT ![p] = {}]
      /\ \/ Finished(t) /\ UNCHANGED session
         \/ Interrupted(t) /\ Stopped
  BY <1>1 DEF DeleteProfile, Then, Final, Interrupted, Replace
<1>5. None \in Files /\ None.kind = "none"
  BY DEF None, Files
<1>6. x \in Steps(disk, p, F) /\ Final(x) = disk /\ None \in F
  <2>1. disk.file[p] \in F /\ None \in F
    BY <1>1
  <2> HIDE DEF F
  <2> QED BY <1>3, <2>1, StepsBegin
<1>7. t \in Steps(disk, p, F) /\ Final(t).file[p] = None
  <2>1. y = x \o Replace(Final(x), p, None)
    BY <1>1
  <2>2. t = y \o Unlisted(Final(y), p)
    BY <1>1
  <2> HIDE DEF F, x, y, t
  <2>3. y \in Steps(disk, p, F) /\ Final(y).file[p] = None
    BY <1>3, <1>5, <1>6, <2>1, StepsReplace
  <2>4. t \in Steps(disk, p, F) /\ Final(t).file = Final(y).file
    BY <1>3, <1>6, <2>2, <2>3, StepsUnlisted
  <2> QED BY <2>3, <2>4
<1> HIDE DEF t, x, y
<1>8. /\ disk' \in Reach(disk, p, F) /\ crashes' \in 0..MaxCrashes /\ Listing(p, F)
      /\ Finished(t) => disk' = Final(t)
  <2> HIDE DEF F
  <2> QED BY <1>2, <1>3, <1>4, <1>7, Outcome DEF TypeOK
<1>9. /\ disk' \in Disks /\ disk.index \subseteq disk'.index
      /\ disk'.file[p] = disk.file[p] \/ disk'.file[p] = None
  BY <1>1, <1>8 DEF Reach
<1>10. /\ known' \in [ProfileIds -> SUBSET Creds] /\ given' \in [ProfileIds -> SUBSET Actors]
       /\ known'[p] = {} /\ given'[p] = {}
       /\ \A q \in ProfileIds : q # p => known'[q] = known[q] /\ given'[q] = given[q]
       /\ \A s \in Seeds \ used' : p # Derived(s, 0)
       /\ current' \in {current, p, Nobody}
  BY <1>3, <1>4 DEF session, Stopped
<1>11. Whole(disk'.file[p]) /\ (p = Legacy => disk'.file[p].kind # "seed")
  BY <1>3, <1>5, <1>9 DEF Whole
<1>12. Written' /\ Unborn' /\ FilesOpen' /\ KeysHeld'
  <2> HIDE DEF F
  <2> QED BY <1>3, <1>4, <1>8, <1>10, <1>11, OneProfile
<1>13. CASE Finished(t) /\ UNCHANGED session
  <2>1. TypeOK'
    BY <1>2, <1>4, <1>8, <1>9, <1>10, <1>13 DEF TypeOK, Disks, Listing, session
  <2>2. Session'
    <3>1. ~Converted'
      BY <1>1, <1>5, <1>7, <1>8, <1>13 DEF Converted, session
    <3> QED BY <1>1, <1>2, <1>9, <1>10, <1>13, <3>1 DEF Session, session
  <2> QED BY <1>12, <2>1, <2>2 DEF ProfilesInv
<1>14. CASE Stopped
  <2>1. TypeOK'
    BY <1>2, <1>4, <1>8, <1>9, <1>10, <1>14, StoppedSession DEF TypeOK, Disks, Listing
  <2> QED BY <1>12, <1>14, <2>1, StoppedSession DEF ProfilesInv
<1> QED BY <1>4, <1>13, <1>14

(* Actors of other devices are indexed, and may join the session once.     *)
LEMMA SyncStep ==
  ASSUME ProfilesInv, NEW got \in SUBSET Actors, NEW ended \in BOOLEAN, Sync(got, ended)
  PROVE  ProfilesInv'
<1> DEFINE do == ended /\ type = "New" /\ ~ran
           SK == SeedKeys(seed.of, disk'.index)
           e  == [disk EXCEPT !.index = @ \cup got]
<1>1. TypeOK /\ Written /\ Unborn /\ Session /\ FilesOpen /\ KeysHeld
  BY DEF ProfilesInv
<1>2. Indexed(disk, got)[1] = e
  BY DEF Indexed
<1>3. disk \in Disks /\ known \in [ProfileIds -> SUBSET Creds] /\ given \in [ProfileIds -> SUBSET Actors]
      /\ crashes \in 0..MaxCrashes /\ astray \subseteq Actors
  BY <1>1 DEF TypeOK, Disks
<1>4. e \in Disks /\ e.file = disk.file /\ e.index = disk.index \cup got /\ e.list = disk.list
  BY <1>3 DEF Disks
<1> HIDE DEF e
<1>5. disk' \in Disks /\ disk'.file = disk.file /\ disk.index \subseteq disk'.index
        /\ disk'.list = disk.list
  BY <1>2, <1>4 DEF Sync
<1>6. /\ UNCHANGED <<current, cred, type, used, crashes, exports, known, hidden>>
      /\ ran' = (ran \/ do)
      /\ do => /\ keys' = keys \cup SK
               /\ seed' = [seed EXCEPT !.len = Cardinality(SK)]
               /\ Shown(current, SK, IF Converted THEN SK \ keys ELSE {})
      /\ ~do => UNCHANGED <<keys, seed, given, astray>>
  BY <1>2, <1>4 DEF Sync
<1>7. ASSUME NEW q \in ProfileIds PROVE Held(disk, q) \subseteq Held(disk', q)
  BY <1>5, SeedFindsMore DEF Held
<1>8. Converted' <=> Converted
  BY <1>5, <1>6 DEF Converted
<1>9. CASE ~do
  <2>1. UNCHANGED <<keys, seed, given, astray>> /\ ran' = ran
    <3>1. ran \in BOOLEAN
      BY <1>1 DEF TypeOK
    <3> QED BY <1>6, <1>9, <3>1
  <2>2. TypeOK'
    BY <1>1, <1>5, <1>6, <2>1 DEF TypeOK, Disks
  <2>3. Session'
    BY <1>1, <1>5, <1>6, <1>8, <2>1 DEF Session
  <2>4. Written' /\ Unborn' /\ FilesOpen'
    BY <1>1, <1>5, <1>6, <2>1 DEF Written, Unborn, FilesOpen
  <2>5. KeysHeld'
    BY <1>1, <1>7, <2>1 DEF KeysHeld
  <2> QED BY <2>2, <2>3, <2>4, <2>5 DEF ProfilesInv
<1>10. CASE do
  <2> DEFINE p == current
  <2>1. /\ type = "New" /\ p # Nobody /\ seed.of \in Seeds /\ p = Derived(seed.of, 0)
        /\ p \in ProfileIds /\ p # Legacy /\ p[1] = seed.of
    BY <1>1, <1>10, ProfileFacts DEF Session
  <2>2. /\ SK \subseteq Actors /\ Cardinality(SK) \in 0..(MaxIndex + 1)
        /\ \A j \in 2..(Cardinality(SK) - 1) : Derived(seed.of, j) \in disk'.index
    BY <2>1, SeedFinds
  <2>3. /\ keys' = keys \cup SK /\ seed' = [seed EXCEPT !.len = Cardinality(SK)]
        /\ given' = [given EXCEPT ![current] = IF known[current] = {} THEN {} ELSE @ \cup SK]
        /\ astray' = astray \cup (IF Converted THEN SK \ keys ELSE {})
        /\ ran' = TRUE
    BY <1>6, <1>10 DEF Shown
  <2>4. /\ seed' \in [of : Seeds \cup {Nobody}, len : 0..(MaxIndex + 1)]
        /\ seed'.of = seed.of /\ seed'.len = Cardinality(SK)
    <3>1. seed \in [of : Seeds \cup {Nobody}, len : 0..(MaxIndex + 1)]
      BY <1>1 DEF TypeOK
    <3> HIDE DEF SK
    <3> QED BY <2>2, <2>3, <3>1
  <2>5. given'[current] = IF known[current] = {} THEN {} ELSE given[current] \cup SK
    BY <1>3, <2>1, <2>3
  <2>6. \A q \in ProfileIds : q # current => given'[q] = given[q]
    BY <1>3, <2>3
  <2>7. given[current] \ astray \subseteq keys /\ given[current] \ astray \subseteq Held(disk, current)
        /\ (known[current] # {} => disk.file[current].kind \in {"seed", "keys"})
    BY <2>1, SessionFacts
  <2>8. /\ \/ SK = Held(disk', current)
           \/ Converted /\ keys \ astray \subseteq Held(disk', current)
           \/ known[current] = {}
    <3>1. CASE disk.file[current].kind = "seed"
      BY <1>5, <2>1, <3>1 DEF Held
    <3>2. CASE disk.file[current].kind = "keys"
      <4>1. Converted
        BY <2>1, <3>2 DEF Converted
      <4>2. Held(disk', current) = disk.file[current].keys
        BY <1>5, <3>2 DEF Held
      <4> QED BY <1>1, <4>1, <4>2 DEF Session
    <3> QED BY <2>7, <3>1, <3>2
  <2> HIDE DEF SK
  <2>9. TypeOK'
    <3>1. given' \in [ProfileIds -> SUBSET Actors] /\ astray' \subseteq Actors /\ keys' \subseteq Actors
      BY <1>1, <1>3, <2>1, <2>2, <2>3 DEF TypeOK
    <3> QED BY <1>1, <1>5, <1>6, <2>3, <2>4, <3>1 DEF TypeOK, Disks
  <2>10. Written' /\ FilesOpen'
    BY <1>1, <1>5, <1>6 DEF Written, FilesOpen
  <2>11. Unborn'
    <3>1. \A s \in Seeds \ used : Derived(s, 0) \in ProfileIds /\ Derived(s, 0) # current
      BY <1>1, ProfileFacts DEF Unborn
    <3> QED BY <1>1, <1>5, <1>6, <2>6, <3>1 DEF Unborn
  <2>12. Session'
    <3>1. Converted' => keys' \ astray' \subseteq disk'.file[current'].keys
      BY <1>1, <1>5, <1>6, <1>8, <2>3 DEF Session
    <3>2. given'[current] \ astray' \subseteq keys'
      BY <2>3, <2>5, <2>7
    <3> QED BY <1>1, <1>6, <2>1, <2>2, <2>4, <3>1, <3>2 DEF Session
  <2>13. KeysHeld'
    <3>1. ASSUME NEW q \in ProfileIds, q # current
          PROVE  given'[q] \ astray' \subseteq Held(disk', q)
      <4>1. given'[q] = given[q] /\ given[q] \ astray \subseteq Held(disk, q)
            /\ Held(disk, q) \subseteq Held(disk', q)
        BY <1>1, <1>7, <2>6, <3>1 DEF KeysHeld
      <4> QED BY <2>3, <4>1
    <3>2. given'[current] \ astray' \subseteq Held(disk', current)
      <4>1. Held(disk, current) \subseteq Held(disk', current)
        BY <1>7, <2>1
      <4> QED BY <2>3, <2>5, <2>7, <2>8, <4>1
    <3> QED BY <3>1, <3>2 DEF KeysHeld
  <2> QED BY <2>9, <2>10, <2>11, <2>12, <2>13 DEF ProfilesInv
<1> QED BY <1>9, <1>10

(* The process ends between two operations. *)
LEMMA StopStep ==
  ASSUME ProfilesInv, Stopped, UNCHANGED <<disk, used, exports, history, hidden>>,
         crashes' \in 0..MaxCrashes
  PROVE  ProfilesInv'
<1>1. TypeOK /\ Written /\ Unborn /\ Session /\ FilesOpen /\ KeysHeld
  BY DEF ProfilesInv
<1>2. Session' /\ current' = Nobody
  BY StoppedSession
<1>3. TypeOK'
  BY <1>1, StoppedSession DEF TypeOK, history
<1>4. Written' /\ FilesOpen' /\ KeysHeld'
  BY <1>1 DEF Written, FilesOpen, KeysHeld, history
<1>5. Unborn'
  BY <1>1, <1>2, ProfileFacts DEF Unborn, history
<1> QED BY <1>2, <1>3, <1>4, <1>5 DEF ProfilesInv

(* What is exported is a profile's file, or what it would be.              *)
LEMMA ExportStep ==
  ASSUME ProfilesInv, Export
  PROVE  ProfilesInv'
<1> DEFINE f == IF type = "New" THEN disk.file[current] ELSE KeysFile(keys, cred)
<1>1. TypeOK /\ Written /\ Unborn /\ Session /\ FilesOpen /\ KeysHeld
  BY DEF ProfilesInv
<1>2. /\ current \in ProfileIds /\ disk.file \in [ProfileIds -> Files] /\ keys \subseteq Actors
      /\ cred \in Creds
      /\ Whole(disk.file[current])
      /\ type = "New" => current # Legacy
  <2>1. current # Nobody
    BY DEF Export
  <2> QED BY <1>1, <2>1, SessionFacts, ProfileFacts DEF Disks, Session
<1>3. f \in Files /\ Whole(f) /\ (current = Legacy => f.kind = "keys")
  <2>1. disk.file[current] \in Files
    BY <1>2
  <2>2. /\ KeysFile(keys, cred) \in Files /\ KeysFile(keys, cred).kind = "keys"
        /\ Whole(KeysFile(keys, cred))
    BY <1>2, FileKinds DEF Whole
  <2> QED BY <1>2, <2>1, <2>2
<1>4. f.kind # "none" /\ current # Nobody /\ exports' = {[of |-> current, file |-> f]}
      /\ UNCHANGED <<disk, session, used, crashes, history, hidden>>
  BY DEF Export
<1> HIDE DEF f
<1>5. \A b \in exports' : b.of = current /\ b.file = f
  BY <1>4
<1>6. Written'
  BY <1>1, <1>2, <1>3, <1>4, <1>5 DEF Written
<1>7. Unborn'
  BY <1>1, <1>4, <1>5 DEF Unborn, session, history
<1>8. TypeOK' /\ FilesOpen' /\ KeysHeld'
  BY <1>1, <1>4 DEF TypeOK, FilesOpen, KeysHeld, session, history
<1>9. Session'
  BY <1>1, <1>4 DEF Session, Converted, session, history
<1> QED BY <1>6, <1>7, <1>8, <1>9 DEF ProfilesInv

(* A file comes over a profile's: what the user expects of the profile is  *)
(* from then on what a login finds.                                        *)
LEMMA ReplacedStep ==
  ASSUME ProfilesInv, NEW p \in ProfileIds, NEW f \in Files, f.kind # "none", Whole(f),
         p = Legacy => f.kind # "seed", \A s \in Seeds \ used : p # Derived(s, 0),
         current = Nobody, disk' \in Reach(disk, p, {disk.file[p], f}),
         crashes' \in 0..MaxCrashes, Listing(p, {disk.file[p], f}), UNCHANGED <<used, astray, exports>>,
         \/ UNCHANGED session
         \/ Stopped,
         \/ disk'.file[p] = f /\ p \in disk'.list /\ known' = [known EXCEPT ![p] = {f.cred}]
         \/ Attempted(p, f.cred),
         given' = [given EXCEPT ![p] = IF known'[p] = {} THEN {} ELSE Held(disk', p)]
  PROVE  ProfilesInv'
<1>1. TypeOK /\ Written /\ Unborn /\ Session /\ FilesOpen /\ KeysHeld
  BY DEF ProfilesInv
<1>2. /\ disk' \in Disks /\ disk'.file[p] \in {disk.file[p], f} /\ disk.index \subseteq disk'.index
  BY DEF Reach
<1>3. /\ known \in [ProfileIds -> SUBSET Creds] /\ given \in [ProfileIds -> SUBSET Actors]
      /\ astray \subseteq Actors
  BY <1>1 DEF TypeOK
<1>4. f.cred \in Creds /\ f.kind \in {"seed", "keys"}
  BY DEF Whole
<1>5. Whole(disk'.file[p]) /\ (p = Legacy => disk'.file[p].kind # "seed")
  BY <1>1, <1>2 DEF Written
<1>6. /\ known' \in [ProfileIds -> SUBSET Creds]
      /\ \A q \in ProfileIds : q # p => known'[q] = known[q]
      /\ known'[p] # {} => disk'.file[p].kind \in {"seed", "keys"} /\ disk'.file[p].cred \in known'[p]
      /\ known'[p] # {} => p \in disk'.list \/ (None \notin {disk.file[p], f} /\ known[p] # {})
  <2>1. CASE disk'.file[p] = f /\ p \in disk'.list /\ known' = [known EXCEPT ![p] = {f.cred}]
    BY <1>3, <1>4, <2>1
  <2>2. CASE Attempted(p, f.cred)
    <3>1. known' = [known EXCEPT ![p] = IF @ = {} THEN {} ELSE @ \cup {f.cred}]
      BY <2>2 DEF Attempted
    <3>2. known'[p] = IF known[p] = {} THEN {} ELSE known[p] \cup {f.cred}
      BY <1>3, <3>1
    <3>3. known[p] # {} => disk.file[p].kind \in {"seed", "keys"} /\ disk.file[p].cred \in known[p]
      BY <1>1 DEF FilesOpen
    <3>4. known' \in [ProfileIds -> SUBSET Creds] /\ \A q \in ProfileIds : q # p => known'[q] = known[q]
      BY <1>3, <1>4, <3>1
    <3>5. known[p] # {} => None \notin {disk.file[p], f}
      BY <1>4, <3>3 DEF None
    <3> QED BY <1>2, <1>4, <3>2, <3>3, <3>4, <3>5
  <2> QED BY <2>1, <2>2
<1>7. Held(disk', p) \subseteq Actors
  <2>1. CASE disk'.file[p].kind = "seed"
    <3>1. p[1] \in Seeds
      BY <1>5, <2>1, ProfileFacts
    <3> QED BY <2>1, <3>1, SeedFinds DEF Held
  <2>2. CASE disk'.file[p].kind # "seed"
    <3>1. disk'.file[p].keys \subseteq Actors
      BY <1>2 DEF Disks, Files
    <3> QED BY <2>2, <3>1 DEF Held
  <2> QED BY <2>1, <2>2
<1>8. /\ given' \in [ProfileIds -> SUBSET Actors] /\ given'[p] \subseteq Held(disk', p)
      /\ \A q \in ProfileIds : q # p => given'[q] = given[q]
  BY <1>3, <1>7
<1>9. current' = Nobody /\ Session'
  <2>1. CASE UNCHANGED session
    <3>1. current = Nobody /\ type = "Old"
      BY <1>1 DEF Session
    <3> QED BY <2>1, <3>1 DEF session, Session, Converted
  <2>2. CASE Stopped
    BY <2>2, StoppedSession
  <2> QED BY <2>1, <2>2
<1>10. TypeOK'
  <2>1. CASE UNCHANGED session
    BY <1>1, <1>2, <1>6, <1>8, <2>1 DEF TypeOK, Disks, Listing, session
  <2>2. CASE Stopped
    BY <1>1, <1>2, <1>6, <1>8, <2>2, StoppedSession DEF TypeOK, Disks, Listing
  <2> QED BY <2>1, <2>2
<1>11. Written' /\ Unborn' /\ FilesOpen' /\ KeysHeld'
  <2>1. given'[p] \ astray' \subseteq Held(disk', p)
    BY <1>8
  <2> DEFINE F == {disk.file[p], f}
  <2>2. disk' \in Reach(disk, p, F) /\ Listing(p, F)
    OBVIOUS
  <2>3. known'[p] # {} => p \in disk'.list \/ (None \notin F /\ known[p] # {})
    BY <1>6
  <2> HIDE DEF F
  <2> QED BY <1>5, <1>6, <1>8, <1>9, <2>1, <2>2, <2>3, OneProfile
<1> QED BY <1>9, <1>10, <1>11 DEF ProfilesInv

LEMMA ImportStep ==
  ASSUME ProfilesInv, NEW b \in exports, Import(b)
  PROVE  ProfilesInv'
<1> DEFINE p  == b.of
           f  == b.file
           ks == IF f.kind = "keys" THEN f.keys ELSE {}
           F  == {disk.file[p], f}
           x  == <<disk>>
           y  == x \o Replace(Final(x), p, f)
           z  == y \o Indexed(Final(y), ks)
           t  == z \o Listed(Final(z), p)
<1>1. /\ p \in ProfileIds /\ f \in Files /\ f.kind # "none" /\ Whole(f)
      /\ p = Legacy => f.kind # "seed"
      /\ \A s \in Seeds \ used : p # Derived(s, 0)
      /\ disk \in Disks /\ crashes \in 0..MaxCrashes
  BY DEF ProfilesInv, TypeOK, Written, Unborn, Disks
<1>2. ks \in SUBSET Actors /\ f \in F /\ disk.file[p] \in F
  BY <1>1 DEF Files
<1>3. /\ current = Nobody /\ UNCHANGED <<used, astray, exports>>
      /\ \/ Finished(t) /\ UNCHANGED session /\ known' = [known EXCEPT ![p] = {f.cred}]
         \/ Interrupted(t) /\ Stopped /\ Attempted(p, f.cred)
      /\ given' = [given EXCEPT ![p] = IF known'[p] = {} THEN {} ELSE Held(disk', p)]
  BY DEF Import, Then, Final, Interrupted
<1>4. t \in Steps(disk, p, F) /\ Final(t).file[p] = f /\ p \in Final(t).list
  <2> HIDE DEF F, x, y, z, t, ks, p, f
  <2>1. x \in Steps(disk, p, F)
    BY <1>1, <1>2, StepsBegin DEF x
  <2>2. y \in Steps(disk, p, F) /\ Final(y).file[p] = f
    BY <1>1, <1>2, <2>1, StepsReplace DEF y
  <2>3. z \in Steps(disk, p, F) /\ Final(z).file = Final(y).file
    BY <1>1, <1>2, <2>2, StepsIndex DEF z
  <2>4. t \in Steps(disk, p, F) /\ Final(t).file = Final(z).file /\ p \in Final(t).list
    BY <1>1, <2>3, StepsListed DEF t
  <2> QED BY <2>2, <2>3, <2>4
<1> HIDE DEF t, z, y, x, ks
<1>5. disk' \in Reach(disk, p, F) /\ crashes' \in 0..MaxCrashes /\ Listing(p, F)
      /\ (Finished(t) => disk'.file[p] = f /\ p \in disk'.list)
  <2>1. hidden \subseteq ProfileIds
    BY DEF ProfilesInv, TypeOK
  <2> HIDE DEF F
  <2> QED BY <1>1, <1>3, <1>4, <2>1, Outcome
<1>6. disk' \in Reach(disk, p, {disk.file[p], f}) /\ Listing(p, {disk.file[p], f})
  BY <1>5
<1> HIDE DEF p, f, F
<1> QED BY <1>1, <1>3, <1>5, <1>6, ReplacedStep

LEMMA ImportPhraseStep ==
  ASSUME ProfilesInv, NEW s \in Seeds, NEW c \in Creds, ImportPhrase(s, c)
  PROVE  ProfilesInv'
<1> DEFINE p  == Derived(s, 0)
           f  == SeedFile(c)
           F  == {disk.file[p], f}
           x  == <<disk>>
           y  == x \o Replace(Final(x), p, f)
           t  == y \o Listed(Final(y), p)
<1>1. /\ p \in ProfileIds /\ p # Legacy /\ disk \in Disks /\ crashes \in 0..MaxCrashes
      /\ f \in Files /\ f.kind # "none" /\ f.cred = c /\ Whole(f) /\ f \in F /\ disk.file[p] \in F
  <2>1. p \in ProfileIds /\ p # Legacy
    BY ProfileFacts
  <2>2. f \in Files /\ f.kind = "seed" /\ f.cred = c
    BY FileKinds
  <2>3. disk \in Disks /\ crashes \in 0..MaxCrashes
    BY DEF ProfilesInv, TypeOK, Disks
  <2> HIDE DEF p, f
  <2> QED BY <2>1, <2>2, <2>3 DEF Whole
<1>2. /\ current = Nobody /\ s \in used /\ UNCHANGED <<used, astray, exports>>
      /\ Stopped
      /\ \/ Finished(t) /\ known' = [known EXCEPT ![p] = {f.cred}]
         \/ Interrupted(t) /\ Attempted(p, f.cred)
      /\ given' = [given EXCEPT ![p] = IF known'[p] = {} THEN {} ELSE Held(disk', p)]
  BY <1>1 DEF ImportPhrase, Then, Final, Interrupted
<1>3. \A r \in Seeds \ used : p # Derived(r, 0)
  BY <1>2, ProfileFacts
<1>4. t \in Steps(disk, p, F) /\ Final(t).file[p] = f /\ p \in Final(t).list
  <2> HIDE DEF F, x, y, t, p, f
  <2>1. x \in Steps(disk, p, F)
    BY <1>1, StepsBegin DEF x
  <2>2. y \in Steps(disk, p, F) /\ Final(y).file[p] = f
    BY <1>1, <2>1, StepsReplace DEF y
  <2>3. t \in Steps(disk, p, F) /\ Final(t).file = Final(y).file /\ p \in Final(t).list
    BY <1>1, <2>2, StepsListed DEF t
  <2> QED BY <2>2, <2>3
<1> HIDE DEF t, y, x
<1>5. disk' \in Reach(disk, p, F) /\ crashes' \in 0..MaxCrashes /\ Listing(p, F)
      /\ (Finished(t) => disk'.file[p] = f /\ p \in disk'.list)
  <2>1. hidden \subseteq ProfileIds
    BY DEF ProfilesInv, TypeOK
  <2> HIDE DEF F
  <2> QED BY <1>1, <1>2, <1>4, <2>1, Outcome
<1>6. disk' \in Reach(disk, p, {disk.file[p], f}) /\ Listing(p, {disk.file[p], f})
  BY <1>5
<1> HIDE DEF p, f, F
<1> QED BY <1>1, <1>2, <1>3, <1>5, <1>6, ReplacedStep

LEMMA ProfilesStep == ProfilesInv /\ Next => ProfilesInv'
<1> SUFFICES ASSUME ProfilesInv, Next PROVE ProfilesInv'
  OBVIOUS
<1>1. ASSUME NEW s \in Seeds, NEW c \in Creds, CreateProfile(s, c) \/ ImportPhrase(s, c)
      PROVE  ProfilesInv'
  BY <1>1, CreateStep, ImportPhraseStep
<1>2. ASSUME NEW p \in ProfileIds, NEW c \in Creds, Login(p, c) PROVE ProfilesInv'
  <2>1. current = Nobody /\ disk.file[p].cred = c /\ p \in disk.list
    BY <1>2 DEF Login, Opened
  <2> QED BY <1>2, <2>1, LoadKeysStep, LoadSeedStep DEF Login
<1>3. ASSUME CreateWallet \/ CreateService PROVE ProfilesInv'
  BY <1>3, DerivedWalletStep, RandomWalletStep DEF CreateWallet, CreateService
<1>4. CASE DeleteProfile
  BY <1>4, DeleteStep
<1>5. CASE Logout
  BY <1>5, StopStep DEF Logout, ProfilesInv, TypeOK
<1>6. CASE Crash
  <2>1. crashes' \in 0..MaxCrashes
    BY <1>6, ProfilesAssumption DEF Crash, ProfilesInv, TypeOK
  <2> QED BY <1>6, <2>1, StopStep DEF Crash
<1>7. CASE Export
  BY <1>7, ExportStep
<1>8. ASSUME NEW c \in Creds, ChangeCredentials(c) PROVE ProfilesInv'
  BY <1>8, CredentialsStep
<1>9. ASSUME NEW s \in Seeds \cap used, NEW i \in 2..MaxIndex, NEW ended \in BOOLEAN,
             Sync({Derived(s, i)}, ended)
      PROVE  ProfilesInv'
  <2>1. {Derived(s, i)} \in SUBSET Actors
    BY ProfilesAssumption DEF Derived, Actors
  <2> QED BY <1>9, <2>1, SyncStep
<1>10. ASSUME NEW b \in exports, Import(b) PROVE ProfilesInv'
  BY <1>10, ImportStep
<1> QED BY <1>1, <1>2, <1>3, <1>4, <1>5, <1>6, <1>7, <1>8, <1>9, <1>10 DEF Next

LEMMA ProfilesInvariance == DeviceSpec => []ProfilesInv
<1>1. DeviceInit => ProfilesInv
  BY ProfilesInit DEF DeviceInit
<1>2. ProfilesInv /\ [DeviceNext]_<<part, vars, filesVars, transactionsVars, rewardsVars, messagesVars>>
        => ProfilesInv'
  <2>1. ASSUME ProfilesInv, UNCHANGED vars PROVE ProfilesInv'
    <3> USE <2>1 DEF vars, session, history
    <3>1. TypeOK'
      BY DEF ProfilesInv, TypeOK
    <3>2. Written' /\ Unborn'
      BY DEF ProfilesInv, Written, Unborn
    <3>3. Session'
      BY DEF ProfilesInv, Session, Converted
    <3>4. FilesOpen' /\ KeysHeld'
      BY DEF ProfilesInv, FilesOpen, KeysHeld
    <3> QED BY <3>1, <3>2, <3>3, <3>4 DEF ProfilesInv
  <2> QED
    BY <2>1, ProfilesStep
       DEF DeviceNext, StepProfiles, StepFiles, StepTransactions, StepRewards, StepMessages
<1> QED BY <1>1, <1>2, PTL DEF DeviceSpec

(* Whichever step of a change of credentials, a save, a login or an import *)
(* a crash came after, the file of a profile the user was given and has    *)
(* not deleted opens with credentials the user holds (PrivateProfile::save *)
(* writes a temporary file and renames it).  A login finds the profile as  *)
(* well, unless a crash came between the truncation of the list and its    *)
(* rewriting (insert_to_profile_set, in place) and no operation has listed *)
(* it since: those are the profiles of hidden.                             *)
THEOREM ProfilesOpen == DeviceSpec => []ProfileOpens
<1>1. ProfilesInv => ProfileOpens
  BY DEF ProfilesInv, FilesOpen, ProfileOpens, Opened
<1> QED BY <1>1, ProfilesInvariance, PTL

(* Every key the user was shown is in the file of its profile or derived   *)
(* from the seed there with the index of actors; a login finds it, unless  *)
(* the profile is hidden.  Nothing is said of the keys of a session whose  *)
(* seed file create_service replaced (astray): change_credentials destroys *)
(* them, and those derived later are not saved.                            *)
THEOREM KeysFound == DeviceSpec => []KeysKept
<1>1. ProfilesInv => KeysKept
  BY DEF ProfilesInv, FilesOpen, KeysHeld, KeysKept, Recoverable
<1> QED BY <1>1, ProfilesInvariance, PTL

===============================================================================
