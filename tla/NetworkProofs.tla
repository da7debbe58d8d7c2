----------------------------- MODULE NetworkProofs -----------------------------
(***************************************************************************)
(* Proofs about the network, for every value of the constants.             *)
(*                                                                         *)
(* Actors.  IndexAgrees is not inductive alone: the counter grows by the   *)
(* number of actors a save adds, which is right because what is saved is   *)
(* finite and new; it comes from messages, received pages and own actors,  *)
(* so these are typed.                                                     *)
(*                                                                         *)
(* Routing: every graph of links, every number of messages and every       *)
(* number of links that break and entries that expire.                     *)
(*                                                                         *)
(* Connections: every set of nodes and of connections, every limit, and    *)
(* every list of peers that is asked for or kept away.                     *)
(***************************************************************************)
EXTENDS MCNetwork, FiniteSetTheorems, TLAPS

------------------------------------------------------------------------------
(* Actors.                                                                 *)

(* Where actors come from. *)
Typed ==
  /\ files \in [Nodes -> SUBSET Actors] /\ rows \in [Nodes -> SUBSET Actors]
  /\ records \in [Nodes -> Nat] /\ synch \in [Nodes -> SUBSET Actors]
  /\ todo \in [Nodes -> SUBSET Actors] /\ pending \in [Nodes -> SUBSET Actors]
  /\ left \in [Nodes -> SUBSET Actors]
  /\ jobs \in [Nodes -> SUBSET [to : Nodes, ids : SUBSET Actors]]
  /\ active \in [Nodes -> SUBSET Nodes]
  /\ chan \in [Nodes -> [Nodes -> Seq(Messages)]]

IndexInv == Typed /\ IndexAgrees

LEMMA SubsetsFinite == \A S \in SUBSET Actors : IsFiniteSet(S) /\ Cardinality(S) \in Nat
<1>1. IsFiniteSet(Actors)
  BY ActorSyncAssumption
<1>2. ASSUME NEW S \in SUBSET Actors PROVE IsFiniteSet(S)
  BY <1>1, FS_Subset
<1> QED BY <1>2, FS_CardinalityType

(* A save adds new actors only, each with its file. *)
LEMMA SavedFacts ==
  ASSUME Typed, IndexAgrees, NEW n \in Nodes, NEW batch \in SUBSET Actors, NEW fault
  PROVE  LET s == Saved(n, batch, fault)
         IN  /\ s.files \in SUBSET Actors /\ s.added \in SUBSET Actors
             /\ files[n] \subseteq s.files /\ s.added \subseteq s.files
             /\ s.added \cap rows[n] = {}
<1>1. Storable(n, batch) \in SUBSET Actors /\ Storable(n, batch) \cap rows[n] = {}
  BY DEF Storable
<1>2. files[n] \in SUBSET Actors
  BY DEF Typed
<1> QED BY <1>1, <1>2 DEF Saved

(* A save published at node n keeps the index in agreement. *)
LEMMA PublishAgrees ==
  ASSUME Typed, IndexAgrees, NEW n \in Nodes, NEW s,
         s.files \in SUBSET Actors, s.added \in SUBSET Actors,
         files[n] \subseteq s.files, s.added \subseteq s.files, s.added \cap rows[n] = {},
         Publish(n, s)
  PROVE  /\ files' \in [Nodes -> SUBSET Actors] /\ rows' \in [Nodes -> SUBSET Actors]
         /\ records' \in [Nodes -> Nat] /\ synch' \in [Nodes -> SUBSET Actors]
         /\ left' \in [Nodes -> SUBSET Actors]
         /\ IndexAgrees'
<1> DEFINE F == s.files
           A == s.added
<1>0. /\ F \in SUBSET Actors /\ A \in SUBSET Actors
      /\ files[n] \subseteq F /\ A \subseteq F /\ A \cap rows[n] = {}
  OBVIOUS
<1>1. /\ files' = [files EXCEPT ![n] = F]
      /\ rows' = [rows EXCEPT ![n] = @ \cup A]
      /\ records' = [records EXCEPT ![n] = @ + Cardinality(A)]
      /\ synch' = [synch EXCEPT ![n] = @ \cup A]
      /\ left' = [left EXCEPT ![n] = (@ \cup (F \ rows[n])) \ A]
  BY DEF Publish
<1> HIDE DEF F, A
<1>2. rows[n] \in SUBSET Actors /\ IsFiniteSet(rows[n]) /\ IsFiniteSet(A)
  BY <1>0, SubsetsFinite DEF Typed
<1>3. Cardinality(A) \in Nat /\ Cardinality(rows[n]) \in Nat
  BY <1>0, <1>2, SubsetsFinite
<1>4. Cardinality(rows[n] \cup A) = Cardinality(rows[n]) + Cardinality(A)
  <2>1. Cardinality(rows[n] \cap A) = 0
    <3>1. rows[n] \cap A = {}
      BY <1>0
    <3> QED BY <3>1, FS_EmptySet
  <2>2. Cardinality(rows[n] \cup A)
          = Cardinality(rows[n]) + Cardinality(A) - Cardinality(rows[n] \cap A)
    BY <1>2, FS_Union
  <2> QED BY <1>3, <2>1, <2>2
<1>5. /\ files' \in [Nodes -> SUBSET Actors] /\ rows' \in [Nodes -> SUBSET Actors]
      /\ synch' \in [Nodes -> SUBSET Actors] /\ left' \in [Nodes -> SUBSET Actors]
  BY <1>0, <1>1 DEF Typed
<1>6. records' \in [Nodes -> Nat]
  BY <1>1, <1>3 DEF Typed
<1>7. IndexAgrees'
  <2> SUFFICES ASSUME NEW m \in Nodes
               PROVE  /\ rows'[m] \subseteq files'[m]
                      /\ records'[m] = Cardinality(rows'[m])
                      /\ synch'[m] = rows'[m]
                      /\ files'[m] \ rows'[m] \subseteq left'[m]
    BY DEF IndexAgrees
  <2>1. CASE m # n
    BY <1>1, <2>1 DEF IndexAgrees, Typed
  <2>2. CASE m = n
    <3>1. files'[n] = F /\ rows'[n] = rows[n] \cup A /\ records'[n] = records[n] + Cardinality(A)
      BY <1>1 DEF Typed
    <3>2. synch'[n] = synch[n] \cup A /\ left'[n] = (left[n] \cup (F \ rows[n])) \ A
      BY <1>1 DEF Typed
    <3>3. /\ rows[n] \subseteq files[n] /\ records[n] = Cardinality(rows[n])
          /\ synch[n] = rows[n]
      BY DEF IndexAgrees
    <3> QED BY <1>0, <1>4, <2>2, <3>1, <3>2, <3>3
  <2> QED BY <2>1, <2>2
<1> QED BY <1>5, <1>6, <1>7

LEMMA InitIndex == Init => IndexInv
<1> SUFFICES ASSUME Init PROVE IndexInv
  OBVIOUS
<1>1. First \in [Nodes -> SUBSET Actors]
  BY ActorSyncAssumption
<1>2. \A n \in Nodes : Cardinality(First[n]) \in Nat
  BY <1>1, SubsetsFinite
<1>3. chan \in [Nodes -> [Nodes -> Seq(Messages)]]
  BY DEF Init
<1>4. Typed
  BY <1>1, <1>2, <1>3 DEF Init, Typed
<1>5. IndexAgrees
  BY <1>1 DEF Init, IndexAgrees
<1> QED BY <1>4, <1>5 DEF IndexInv

(* What a broadcast puts into the channels. *)
LEMMA BroadcastTyped ==
  ASSUME NEW c \in [Nodes -> [Nodes -> Seq(Messages)]], NEW n \in Nodes, NEW to,
         NEW ids \in SUBSET Actors
  PROVE  Broadcast(c, n, to, ids) \in [Nodes -> [Nodes -> Seq(Messages)]]
<1> DEFINE msg == [kind |-> "New", ids |-> ids]
<1>1. msg \in Messages
  BY DEF Messages
<1> HIDE DEF msg
<1> DEFINE g == [p \in Nodes |-> IF p \in to /\ ids # {} THEN Append(c[n][p], msg) ELSE c[n][p]]
<1>2. g \in [Nodes -> Seq(Messages)]
  BY <1>1
<1>3. Broadcast(c, n, to, ids) = [c EXCEPT ![n] = g]
  BY DEF Broadcast, msg
<1> HIDE DEF g
<1> QED BY <1>2, <1>3

LEMMA PushTyped ==
  ASSUME NEW c \in [Nodes -> [Nodes -> Seq(Messages)]], NEW n \in Nodes, NEW p \in Nodes,
         NEW msg \in Messages
  PROVE  Push(c, n, p, msg) \in [Nodes -> [Nodes -> Seq(Messages)]]
<1>1. Append(c[n][p], msg) \in Seq(Messages)
  OBVIOUS
<1> QED BY <1>1 DEF Push

LEMMA TailTyped ==
  ASSUME NEW c \in [Nodes -> [Nodes -> Seq(Messages)]], NEW n \in Nodes, NEW p \in Nodes,
         c[n][p] # <<>>
  PROVE  /\ Head(c[n][p]) \in Messages
         /\ [c EXCEPT ![n][p] = Tail(@)] \in [Nodes -> [Nodes -> Seq(Messages)]]
<1>1. Head(c[n][p]) \in Messages /\ Tail(c[n][p]) \in Seq(Messages)
  OBVIOUS
<1> QED BY <1>1

(* What every save keeps. *)
Index ==
  /\ files \in [Nodes -> SUBSET Actors] /\ rows \in [Nodes -> SUBSET Actors]
  /\ records \in [Nodes -> Nat] /\ synch \in [Nodes -> SUBSET Actors]
  /\ left \in [Nodes -> SUBSET Actors]
  /\ IndexAgrees

LEMMA SaveKeeps ==
  ASSUME Typed, IndexAgrees, NEW n \in Nodes, NEW batch \in SUBSET Actors, NEW fault,
         Publish(n, Saved(n, batch, fault))
  PROVE  Index'
<1> DEFINE s == Saved(n, batch, fault)
<1>1. /\ s.files \in SUBSET Actors /\ s.added \in SUBSET Actors
      /\ files[n] \subseteq s.files /\ s.added \subseteq s.files
      /\ s.added \cap rows[n] = {}
  BY SavedFacts
<1>2. Publish(n, s)
  OBVIOUS
<1> HIDE DEF s
<1> QED BY <1>1, <1>2, PublishAgrees DEF Index

LEMMA NoSaveKeeps ==
  ASSUME Typed, IndexAgrees, UNCHANGED <<disk, records, synch, left>>
  PROVE  Index'
BY DEF Typed, IndexAgrees, Index, disk

(* A message is handled: its actors are the only ones that are new. *)
LEMMA HashStep ==
  ASSUME Typed, IndexAgrees, NEW n \in Nodes, NEW p \in Nodes, NEW msg \in Messages, NEW fault,
         HandleHash(n, p, msg, fault)
  PROVE  /\ Index' /\ todo' \in [Nodes -> SUBSET Actors]
         /\ jobs' \in [Nodes -> SUBSET [to : Nodes, ids : SUBSET Actors]]
<1> DEFINE lacks == Differing(synch[n], msg.ids)
           saves == records[n] + 1 >= msg.count /\ ~done[n] /\ todo[n] # {}
<1>1. /\ jobs' = [jobs EXCEPT ![n] = IF lacks = {} THEN @ ELSE @ \cup {[to |-> p, ids |-> lacks]}]
      /\ IF saves THEN Publish(n, Saved(n, todo[n], fault))
                  ELSE UNCHANGED <<disk, records, synch, left>>
  BY DEF HandleHash
<1>2. \E b \in BOOLEAN : todo' = [todo EXCEPT ![n] = IF b THEN {} ELSE @]
  <2> DEFINE b == saves /\ Saved(n, todo[n], fault).ok
  <2>1. todo' = [todo EXCEPT ![n] = IF b THEN {} ELSE @]
    BY DEF HandleHash
  <2> HIDE DEF b
  <2>2. todo' = [todo EXCEPT ![n] = IF (b = TRUE) THEN {} ELSE @]
    BY <2>1
  <2>3. (b = TRUE) \in BOOLEAN
    OBVIOUS
  <2> QED BY <2>2, <2>3
<1>3. lacks \in SUBSET Actors
  BY DEF Differing, Typed
<1> HIDE DEF lacks, saves
<1>4. jobs' \in [Nodes -> SUBSET [to : Nodes, ids : SUBSET Actors]]
  BY <1>1, <1>3 DEF Typed
<1>5. todo' \in [Nodes -> SUBSET Actors]
  BY <1>2 DEF Typed
<1>6. todo[n] \in SUBSET Actors
  BY DEF Typed
<1>7. Index'
  <2>1. CASE saves
    BY <1>1, <1>6, <2>1, SaveKeeps
  <2>2. CASE ~saves
    BY <1>1, <2>2, NoSaveKeeps
  <2> QED BY <2>1, <2>2
<1> QED BY <1>4, <1>5, <1>7

LEMMA PageStep ==
  ASSUME Typed, IndexAgrees, NEW n \in Nodes, NEW msg \in Messages, NEW fault,
         HandlePage(n, msg, fault)
  PROVE  /\ Index' /\ todo' \in [Nodes -> SUBSET Actors]
         /\ jobs' \in [Nodes -> SUBSET [to : Nodes, ids : SUBSET Actors]]
<1> DEFINE all == todo[n] \cup msg.ids
           batch == IF done[n] THEN msg.ids ELSE all
           enough == count[n] <= Cardinality(all) + records[n] + Slack
           saves == done[n] \/ enough
<1>1. msg.ids \in SUBSET Actors /\ all \in SUBSET Actors /\ batch \in SUBSET Actors
  BY DEF Messages, Typed
<1>2. IF saves THEN Publish(n, Saved(n, batch, fault))
               ELSE UNCHANGED <<disk, records, synch, left>>
  BY DEF HandlePage
<1>3. \/ todo' = [todo EXCEPT ![n] = {}]
      \/ todo' = [todo EXCEPT ![n] = IF done[n] THEN @ ELSE all]
  BY DEF HandlePage
<1>4. UNCHANGED jobs
  BY DEF HandlePage
<1> HIDE DEF batch, saves, all
<1>5. todo' \in [Nodes -> SUBSET Actors]
  BY <1>1, <1>3 DEF Typed
<1>6. Index'
  <2>1. CASE saves
    BY <1>1, <1>2, <2>1, SaveKeeps
  <2>2. CASE ~saves
    BY <1>2, <2>2, NoSaveKeeps
  <2> QED BY <2>1, <2>2
<1> QED BY <1>4, <1>5, <1>6 DEF Typed

LEMMA NewStep ==
  ASSUME Typed, IndexAgrees, NEW n \in Nodes, NEW msg \in Messages, NEW fault,
         HandleNew(n, msg, fault)
  PROVE  /\ Index' /\ todo' \in [Nodes -> SUBSET Actors]
         /\ jobs' \in [Nodes -> SUBSET [to : Nodes, ids : SUBSET Actors]]
<1>1. msg.ids \in SUBSET Actors
  BY DEF Messages
<1>2. Publish(n, Saved(n, msg.ids, fault)) /\ UNCHANGED <<todo, jobs>>
  BY DEF HandleNew
<1> QED BY <1>1, <1>2, SaveKeeps DEF Typed

LEMMA HandleStep ==
  ASSUME IndexInv, NEW n \in Nodes, NEW p \in Nodes, Handle(n, p)
  PROVE  IndexInv'
<1> DEFINE msg == Head(chan[p][n])
           taken == [chan EXCEPT ![p][n] = Tail(@)]
<1>0. Typed /\ IndexAgrees
  BY DEF IndexInv
<1>1. chan[p][n] # <<>> /\ UNCHANGED <<pending, active>>
  BY DEF Handle
<1>2. msg \in Messages /\ taken \in [Nodes -> [Nodes -> Seq(Messages)]]
  BY <1>0, <1>1, TailTyped DEF Typed
<1>3. PICK fault \in {"none", "refused", "kept"} :
        \/ HandleHash(n, p, msg, fault)
        \/ HandlePage(n, msg, fault)
        \/ HandleNew(n, msg, fault)
  BY DEF Handle
<1>4. chan' = Broadcast(taken, n, Forward(n, p, msg), msg.ids)
  BY DEF Handle
<1> HIDE DEF msg, taken
<1>5. /\ Index' /\ todo' \in [Nodes -> SUBSET Actors]
      /\ jobs' \in [Nodes -> SUBSET [to : Nodes, ids : SUBSET Actors]]
  BY <1>0, <1>2, <1>3, HashStep, PageStep, NewStep
<1>6. msg.ids \in SUBSET Actors
  BY <1>2 DEF Messages
<1>7. \A to : Broadcast(taken, n, to, msg.ids) \in [Nodes -> [Nodes -> Seq(Messages)]]
  BY <1>2, <1>6, BroadcastTyped
<1>8. chan' \in [Nodes -> [Nodes -> Seq(Messages)]]
  BY <1>4, <1>7
<1> QED BY <1>0, <1>1, <1>5, <1>8 DEF IndexInv, Index, Typed

LEMMA SendPageStep ==
  ASSUME IndexInv, NEW n \in Nodes, SendPage(n)
  PROVE  IndexInv'
<1>0. Typed /\ IndexAgrees
  BY DEF IndexInv
<1>1. PICK j \in jobs[n] :
        LET page == FirstPage(j.ids)
            rest == j.ids \ page
        IN  /\ jobs' = [jobs EXCEPT ![n] = (@ \ {j}) \cup
                 (IF rest = {} THEN {} ELSE {[j EXCEPT !.ids = rest]})]
            /\ chan' = IF j.to \in active[n] /\ page \cap files[n] # {}
                       THEN Push(chan, n, j.to, [kind |-> "Page", ids |-> page \cap files[n]])
                       ELSE chan
  BY DEF SendPage
<1>2. UNCHANGED <<disk, memory, left, active>>
  BY DEF SendPage
<1>3. j \in [to : Nodes, ids : SUBSET Actors]
  BY <1>0 DEF Typed
<1> DEFINE page == FirstPage(j.ids)
           rest == j.ids \ page
<1>4. page \in SUBSET Actors /\ rest \in SUBSET Actors /\ j.to \in Nodes
  BY <1>3 DEF FirstPage
<1>5. [j EXCEPT !.ids = rest] \in [to : Nodes, ids : SUBSET Actors]
  BY <1>3, <1>4
<1>6. [kind |-> "Page", ids |-> page \cap files[n]] \in Messages
  BY <1>4 DEF Messages
<1> HIDE DEF page, rest
<1>7. chan' \in [Nodes -> [Nodes -> Seq(Messages)]]
  BY <1>0, <1>1, <1>4, <1>6, PushTyped DEF Typed, page
<1>8. jobs' \in [Nodes -> SUBSET [to : Nodes, ids : SUBSET Actors]]
  BY <1>0, <1>1, <1>5 DEF Typed, page, rest
<1> QED BY <1>0, <1>2, <1>7, <1>8 DEF IndexInv, Typed, IndexAgrees, disk, memory

LEMMA ActivateStep ==
  ASSUME IndexInv, NEW n \in Nodes, NEW p \in Nodes, Activate(n, p)
  PROVE  IndexInv'
<1> DEFINE hash == [kind |-> "Hash", count |-> records[n], ids |-> synch[n]]
<1>0. Typed /\ IndexAgrees
  BY DEF IndexInv
<1>1. /\ chan' = Push(Broadcast(chan, n, active[n] \cup {p}, pending[n]), n, p, hash)
      /\ pending' = [pending EXCEPT ![n] = {}]
      /\ active' = [active EXCEPT ![n] = @ \cup {p}]
      /\ UNCHANGED <<disk, records, synch, todo, jobs, left>>
  BY DEF Activate
<1>2. hash \in Messages
  BY <1>0 DEF Messages, Typed
<1>3. pending[n] \in SUBSET Actors /\ pending' \in [Nodes -> SUBSET Actors]
  BY <1>0, <1>1 DEF Typed
<1> HIDE DEF hash
<1>4. Broadcast(chan, n, active[n] \cup {p}, pending[n]) \in [Nodes -> [Nodes -> Seq(Messages)]]
  BY <1>0, <1>3, BroadcastTyped DEF Typed
<1>5. chan' \in [Nodes -> [Nodes -> Seq(Messages)]]
  BY <1>1, <1>2, <1>4, PushTyped
<1> QED BY <1>0, <1>1, <1>3, <1>5 DEF IndexInv, Typed, IndexAgrees, disk

(* What is under way on a lost link is dropped. *)
LEMMA CutTyped ==
  ASSUME Typed, NEW lost, Cut(lost)
  PROVE  chan' \in [Nodes -> [Nodes -> Seq(Messages)]] /\ active' \in [Nodes -> SUBSET Nodes]
BY DEF Typed, Cut

LEMMA CreateStep ==
  ASSUME IndexInv, NEW n \in Nodes, NEW a \in Actors, Create(n, a)
  PROVE  IndexInv'
<1>0. Typed /\ IndexAgrees
  BY DEF IndexInv
<1>1. PICK fault \in {"none", "refused", "kept"} :
        LET s == Saved(n, {a}, fault)
        IN  /\ Publish(n, s)
            /\ chan' = IF s.ok THEN Broadcast(chan, n, active[n], {a}) ELSE chan
            /\ pending' = [pending EXCEPT ![n] = IF s.ok /\ active[n] = {} THEN @ \cup {a} ELSE @]
  BY DEF Create
<1>2. {a} \in SUBSET Actors /\ UNCHANGED <<todo, jobs, active>>
  BY DEF Create
<1>3. Publish(n, Saved(n, {a}, fault))
  BY <1>1
<1>4. Index'
  BY <1>0, <1>2, <1>3, SaveKeeps
<1>5. chan' = Broadcast(chan, n, active[n], {a}) \/ chan' = chan
  BY <1>1
<1>6. chan' \in [Nodes -> [Nodes -> Seq(Messages)]]
  <2>1. chan \in [Nodes -> [Nodes -> Seq(Messages)]]
    BY <1>0 DEF Typed
  <2>2. Broadcast(chan, n, active[n], {a}) \in [Nodes -> [Nodes -> Seq(Messages)]]
    BY <1>2, <2>1, BroadcastTyped
  <2> QED BY <1>5, <2>1, <2>2
<1>7. pending' = [pending EXCEPT ![n] = @ \cup {a}] \/ pending' = [pending EXCEPT ![n] = pending[n]]
  BY <1>1
<1>8. pending' \in [Nodes -> SUBSET Actors]
  <2>1. pending \in [Nodes -> SUBSET Actors]
    BY <1>0 DEF Typed
  <2>2. pending[n] \cup {a} \in SUBSET Actors /\ pending[n] \in SUBSET Actors
    BY <1>2, <2>1
  <2>3. \E S \in SUBSET Actors : pending' = [pending EXCEPT ![n] = S]
    BY <1>7, <2>2
  <2> QED BY <2>1, <2>3
<1> QED BY <1>0, <1>2, <1>4, <1>6, <1>8 DEF IndexInv, Index, Typed

(* The counter and the hashes are read back from the rows. *)
LEMMA CrashStep ==
  ASSUME IndexInv, NEW n \in Nodes, Crash(n)
  PROVE  IndexInv'
<1>0. Typed /\ IndexAgrees
  BY DEF IndexInv
<1>1. PICK batch \in Batches(n) \cup {{}} : \E written \in SUBSET Storable(n, batch) :
        /\ files' = [files EXCEPT ![n] = @ \cup written]
        /\ left' = [left EXCEPT ![n] = @ \cup written]
  BY DEF Crash
<1>2. /\ records' = [records EXCEPT ![n] = Cardinality(rows[n])]
      /\ synch' = [synch EXCEPT ![n] = rows[n]]
      /\ todo' = [todo EXCEPT ![n] = {}] /\ pending' = [pending EXCEPT ![n] = {}]
      /\ jobs' = [jobs EXCEPT ![n] = {}]
      /\ Cut({l \in links : n \in l})
      /\ UNCHANGED rows
  BY DEF Crash
<1>3. batch \in SUBSET Actors
  <2>1. CASE batch = {}
    BY <2>1
  <2>2. CASE \E a \in Actors \ born : batch = {a}
    BY <2>2
  <2>3. ASSUME NEW p \in Nodes, chan[p][n] # <<>>,
               \/ batch = todo[n]
               \/ batch = todo[n] \cup Head(chan[p][n]).ids
               \/ batch = Head(chan[p][n]).ids
        PROVE  batch \in SUBSET Actors
    <3> DEFINE msg == Head(chan[p][n])
    <3>1. msg \in Messages
      BY <1>0, <2>3, TailTyped DEF Typed
    <3> HIDE DEF msg
    <3>2. msg.ids \in SUBSET Actors /\ todo[n] \in SUBSET Actors
      BY <1>0, <3>1 DEF Messages, Typed
    <3> QED BY <2>3, <3>2 DEF msg
  <2>4. active[n] \subseteq Nodes
    BY <1>0 DEF Typed
  <2> QED BY <1>1, <2>1, <2>2, <2>3, <2>4 DEF Batches
<1>9. PICK written \in SUBSET Storable(n, batch) :
        /\ files' = [files EXCEPT ![n] = @ \cup written]
        /\ left' = [left EXCEPT ![n] = @ \cup written]
  BY <1>1
<1>4. written \in SUBSET Actors
  BY <1>3, <1>9 DEF Storable
<1>5. rows[n] \in SUBSET Actors /\ Cardinality(rows[n]) \in Nat
  BY <1>0, SubsetsFinite DEF Typed
<1>6. chan' \in [Nodes -> [Nodes -> Seq(Messages)]] /\ active' \in [Nodes -> SUBSET Nodes]
  BY <1>0, <1>2, CutTyped
<1>7. Typed'
  <2>1. files' \in [Nodes -> SUBSET Actors] /\ left' \in [Nodes -> SUBSET Actors]
    BY <1>0, <1>4, <1>9 DEF Typed
  <2>2. /\ records' \in [Nodes -> Nat] /\ synch' \in [Nodes -> SUBSET Actors]
        /\ rows' \in [Nodes -> SUBSET Actors]
    BY <1>0, <1>2, <1>5 DEF Typed
  <2>3. /\ todo' \in [Nodes -> SUBSET Actors] /\ pending' \in [Nodes -> SUBSET Actors]
        /\ jobs' \in [Nodes -> SUBSET [to : Nodes, ids : SUBSET Actors]]
    BY <1>0, <1>2 DEF Typed
  <2> QED BY <1>6, <2>1, <2>2, <2>3 DEF Typed
<1>8. IndexAgrees'
  BY <1>0, <1>2, <1>9 DEF IndexAgrees, Typed
<1> QED BY <1>7, <1>8 DEF IndexInv

LEMMA StepIndex == IndexInv /\ [Next]_vars => IndexInv'
<1> SUFFICES ASSUME IndexInv, [Next]_vars PROVE IndexInv'
  OBVIOUS
<1>0. Typed /\ IndexAgrees
  BY DEF IndexInv
<1>1. ASSUME NEW n \in Nodes, NEW p \in Nodes, Connect(n, p) PROVE IndexInv'
  BY <1>0, <1>1 DEF Connect, IndexInv, Typed, IndexAgrees, disk, memory
<1>2. ASSUME NEW n \in Nodes, NEW p \in Nodes, Activate(n, p) PROVE IndexInv'
  BY <1>2, ActivateStep
<1>3. ASSUME NEW n \in Nodes, NEW p \in Nodes, Disconnect(n, p) PROVE IndexInv'
  <2>1. Cut({{n, p}}) /\ UNCHANGED <<disk, memory, jobs, left>>
    BY <1>3 DEF Disconnect
  <2>2. chan' \in [Nodes -> [Nodes -> Seq(Messages)]] /\ active' \in [Nodes -> SUBSET Nodes]
    BY <1>0, <2>1, CutTyped
  <2> QED BY <1>0, <2>1, <2>2 DEF IndexInv, Typed, IndexAgrees, disk, memory
<1>4. ASSUME NEW n \in Nodes, NEW p \in Nodes, Handle(n, p) PROVE IndexInv'
  BY <1>4, HandleStep
<1>5. ASSUME NEW n \in Nodes, SendPage(n) PROVE IndexInv'
  BY <1>5, SendPageStep
<1>6. ASSUME NEW n \in Nodes, Crash(n) PROVE IndexInv'
  BY <1>6, CrashStep
<1>7. ASSUME NEW n \in Nodes, NEW a \in Actors, Create(n, a) PROVE IndexInv'
  BY <1>7, CreateStep
<1>8. CASE UNCHANGED vars
  BY <1>0, <1>8 DEF vars, disk, memory, net, IndexInv, Typed, IndexAgrees
<1> QED BY <1>1, <1>2, <1>3, <1>4, <1>5, <1>6, <1>7, <1>8 DEF Next

(* Whatever is refused, rolled back or cut off by a crash, and whatever    *)
(* the peers send, the counter and the hashes of the index are those of    *)
(* its rows, every row has its file, and only an interrupted save or a     *)
(* failed rollback leaves a file without one (save_actor_batch).           *)
THEOREM IndexAlwaysAgrees == Spec => []IndexAgrees
<1>1. IndexInv => IndexAgrees
  BY DEF IndexInv
<1> QED BY <1>1, InitIndex, StepIndex, PTL DEF Spec

------------------------------------------------------------------------------
(* Routing.                                                                *)

\* f is on its way on the pair p of the channels c.
InChan(c, p, f) == \E i \in DOMAIN c[p] : c[p][i] = f

\* A request on its way to a node: the message was sent and no entry of it has
\* expired; unless it is sent again hop by hop it names its origin, whom the
\* ignore lists keep it away from.
Good(f, to) ==
    f.status = "NoStatus" =>
        /\ f.id \in sent
        /\ \A n \in Nodes : <<n, f.id>> \notin expired
        /\ what[f.id].kind # "Change" =>
              /\ f.init = what[f.id].origin /\ f.mode = "Broadcast"
              /\ f.init \in f.ignore \union f.later /\ f.init # to

\* The tables of n and what it has dispatched of id.
Tables(n, id) ==
    /\ (seen[n][id] # None \/ fwd[n][id] # None \/ <<n, id>> \in expired) => id \in sent
    /\ handled[n][id] <= 1
    /\ seen[n][id] = None /\ <<n, id>> \notin expired => handled[n][id] = 0
    /\ what[id].origin = n /\ what[id].kind # "Change" => handled[n][id] = 0

RoutingTypes ==
    /\ what \in [Ids -> [kind : R!Kinds, origin : Nodes]]
    /\ up \subseteq Links
    /\ frames \in [R!Hops -> Seq(R!Frame)]
    /\ seen \in [Nodes -> [Ids -> Nodes \union {None}]]
    /\ fwd \in [Nodes -> [Ids -> Nodes \union {None}]]
    /\ sent \subseteq Ids
    /\ handled \in [Nodes -> [Ids -> Nat]]
    /\ expired \subseteq Nodes \X Ids

\* The inductive invariant.
RoutingInv ==
    /\ RoutingTypes
    /\ \A p \in R!Hops : \A f \in R!Frame : InChan(frames, p, f) => Good(f, p[2])
    /\ \A n \in Nodes : \A id \in Ids : Tables(n, id)

------------------------------------------------------------------------------
(* Frames and channels *)

\* What send_broadcast_message_further and a new broadcast write into a frame.
LEMMA ServicesFacts ==
    ASSUME NEW f \in R!Frame, NEW n \in Nodes
    PROVE  /\ R!AddServices(n, f) \in R!Frame
           /\ R!AddServices(n, f).id = f.id /\ R!AddServices(n, f).status = f.status
           /\ R!AddServices(n, f).init = f.init /\ R!AddServices(n, f).mode = f.mode
           /\ R!AddServices(n, f).ignore = f.ignore \union f.later
           /\ R!AddServices(n, f).later = {n} \union R!Peers(n)
BY DEF R!AddServices, R!Frame, R!Peers

\* A channel carries what it carried, and the frame that was sent to a receiver.
LEMMA SendingFacts ==
    ASSUME NEW c \in [R!Hops -> Seq(R!Frame)], NEW n \in Nodes, NEW f \in R!Frame, NEW peer
    PROVE  /\ R!Sending(c, n, f, peer) \in [R!Hops -> Seq(R!Frame)]
           /\ \A p \in R!Hops : \A g \in R!Frame :
                 InChan(R!Sending(c, n, f, peer), p, g) =>
                     InChan(c, p, g) \/ (g = f /\ p[1] = n /\ p[2] \in R!Receivers(n, f, peer))
<1>1. \A p \in R!Hops : c[p] \in Seq(R!Frame) /\ Append(c[p], f) \in Seq(R!Frame)
    OBVIOUS
<1>2. R!Sending(c, n, f, peer) \in [R!Hops -> Seq(R!Frame)]
    BY <1>1 DEF R!Sending
<1>3. ASSUME NEW p \in R!Hops, NEW g \in R!Frame, InChan(R!Sending(c, n, f, peer), p, g)
      PROVE  InChan(c, p, g) \/ (g = f /\ p[1] = n /\ p[2] \in R!Receivers(n, f, peer))
    <2>1. CASE p[1] = n /\ p[2] \in R!Receivers(n, f, peer)
        <3>1. R!Sending(c, n, f, peer)[p] = Append(c[p], f)
            BY <2>1 DEF R!Sending
        <3>2. PICK i \in DOMAIN Append(c[p], f) : Append(c[p], f)[i] = g
            BY <1>3, <3>1 DEF InChan
        <3>3. (i \in DOMAIN c[p] /\ c[p][i] = g) \/ g = f
            BY <1>1, <3>2
        <3>4. QED
            BY <2>1, <3>3 DEF InChan
    <2>2. CASE ~(p[1] = n /\ p[2] \in R!Receivers(n, f, peer))
        <3>1. R!Sending(c, n, f, peer)[p] = c[p]
            BY <2>2 DEF R!Sending
        <3>2. QED
            BY <1>3, <3>1 DEF InChan
    <2>3. QED
        BY <2>1, <2>2
<1>4. QED
    BY <1>2, <1>3

\* Taking the oldest frame of a pair leaves no frame that was not there.
LEMMA TakingFacts ==
    ASSUME NEW c \in [R!Hops -> Seq(R!Frame)], NEW q \in R!Hops, c[q] # <<>>
    PROVE  /\ [c EXCEPT ![q] = Tail(@)] \in [R!Hops -> Seq(R!Frame)]
           /\ Head(c[q]) \in R!Frame /\ InChan(c, q, Head(c[q]))
           /\ \A p \in R!Hops : \A g \in R!Frame :
                 InChan([c EXCEPT ![q] = Tail(@)], p, g) => InChan(c, p, g)
<1> DEFINE d == [c EXCEPT ![q] = Tail(@)]
<1>1. /\ c[q] \in Seq(R!Frame) /\ Tail(c[q]) \in Seq(R!Frame)
      /\ Head(c[q]) \in R!Frame /\ 1 \in DOMAIN c[q] /\ Head(c[q]) = c[q][1]
      /\ \A i \in DOMAIN Tail(c[q]) : i + 1 \in DOMAIN c[q] /\ Tail(c[q])[i] = c[q][i + 1]
    <2>1. c[q] \in Seq(R!Frame)
        OBVIOUS
    <2>2. QED
        BY <2>1
<1>2. d \in [R!Hops -> Seq(R!Frame)] /\ InChan(c, q, Head(c[q]))
    BY <1>1 DEF InChan
<1>3. ASSUME NEW p \in R!Hops, NEW g \in R!Frame, InChan(d, p, g)
      PROVE  InChan(c, p, g)
    <2>1. CASE p = q
        <3>1. PICK i \in DOMAIN Tail(c[q]) : Tail(c[q])[i] = g
            BY <1>3, <2>1 DEF InChan
        <3>2. QED
            BY <1>1, <2>1, <3>1 DEF InChan
    <2>2. CASE p # q
        <3>1. d[p] = c[p]
            BY <2>2
        <3>2. QED
            BY <1>3, <3>1 DEF InChan
    <2>3. QED
        BY <2>1, <2>2
<1>4. QED
    BY <1>1, <1>2, <1>3

\* Who a broadcast frame reaches: a neighbour that is not the node itself and
\* that the frame does not leave out.
LEMMA ReceiversFacts ==
    ASSUME RoutingTypes, NEW n \in Nodes, NEW f, NEW peer, NEW m \in R!Receivers(n, f, peer)
    PROVE  m # n /\ (f.mode = "Broadcast" => m \notin f.ignore)
<1>1. m \in Nodes /\ {n, m} \in Links
    BY DEF R!Receivers, R!Peers, RoutingTypes
<1>2. m # n
    BY <1>1, NetworkAssumption DEF R!RoutingAssumption
<1>3. QED
    BY <1>2 DEF R!Receivers

------------------------------------------------------------------------------
(* The steps *)

\* A step that sends no request and leaves the tables.
LEMMA QuietStep ==
    ASSUME RoutingInv, frames' \in [R!Hops -> Seq(R!Frame)],
           \A p \in R!Hops : \A f \in R!Frame :
               InChan(frames', p, f) => InChan(frames, p, f) \/ f.status # "NoStatus",
           up' \subseteq Links,
           UNCHANGED <<what, seen, fwd, sent, handled, expired>>
    PROVE  RoutingInv'
<1>1. RoutingTypes'
    BY DEF RoutingInv, RoutingTypes
<1>2. \A p \in R!Hops : \A f \in R!Frame : InChan(frames', p, f) => Good(f, p[2])'
    BY DEF RoutingInv, Good
<1>3. \A n \in Nodes : \A id \in Ids : Tables(n, id)'
    BY DEF RoutingInv, Tables
<1>4. QED
    BY <1>1, <1>2, <1>3 DEF RoutingInv, InChan

\* send_message_send for a new message.
LEMMA SendStep ==
    ASSUME RoutingInv, NEW id \in Ids, R!Send(id)
    PROVE  RoutingInv'
<1> DEFINE n == what[id].origin
           f == [id |-> id, status |-> "NoStatus", init |-> n, ignore |-> {}, later |-> {},
                 mode |-> IF what[id].kind = "Change" THEN "Except" ELSE "Broadcast"]
           g == IF f.mode = "Broadcast" THEN R!AddServices(n, f) ELSE f
<1>1. n \in Nodes /\ f \in R!Frame
    <2>1. what[id] \in [kind : R!Kinds, origin : Nodes]
        BY DEF RoutingInv, RoutingTypes
    <2>2. n \in Nodes
        BY <2>1
    <2>3. QED
        BY <2>2 DEF R!Frame
<1>2. /\ g \in R!Frame /\ g.id = id /\ n = what[id].origin
      /\ what[id].kind # "Change" =>
            g.init = n /\ g.mode = "Broadcast" /\ n \in g.later
    BY <1>1, ServicesFacts
<1>3. /\ id \notin sent /\ sent' = sent \union {id} /\ frames' = R!Sending(frames, n, g, None)
      /\ UNCHANGED <<what, up, seen, fwd, handled, expired>>
    BY DEF R!Send
<1> HIDE DEF n, f, g
<1>4. /\ RoutingTypes'
      /\ \A p \in R!Hops : \A h \in R!Frame :
            InChan(frames', p, h) =>
                InChan(frames, p, h) \/ (h = g /\ p[2] \in R!Receivers(n, g, None))
    <2>1. frames \in [R!Hops -> Seq(R!Frame)]
        BY DEF RoutingInv, RoutingTypes
    <2>2. /\ frames' \in [R!Hops -> Seq(R!Frame)]
          /\ \A p \in R!Hops : \A h \in R!Frame :
                InChan(frames', p, h) =>
                    InChan(frames, p, h) \/ (h = g /\ p[2] \in R!Receivers(n, g, None))
        BY <1>1, <1>2, <1>3, <2>1, SendingFacts
    <2>3. QED
        BY <1>3, <2>2 DEF RoutingInv, RoutingTypes
<1>5. \A m \in Nodes : <<m, id>> \notin expired
    BY <1>3 DEF RoutingInv, Tables
<1>6. ASSUME NEW p \in R!Hops, NEW h \in R!Frame, InChan(frames', p, h)
      PROVE  Good(h, p[2])'
    <2>1. CASE InChan(frames, p, h)
        BY <1>3, <2>1 DEF RoutingInv, Good
    <2>2. CASE h = g /\ p[2] \in R!Receivers(n, g, None)
        <3>1. p[2] # n
            BY <1>1, <2>2, ReceiversFacts DEF RoutingInv
        <3>2. QED
            BY <1>2, <1>3, <1>5, <2>2, <3>1 DEF Good
    <2>3. QED
        BY <1>4, <1>6, <2>1, <2>2
<1>7. \A m \in Nodes : \A i \in Ids : Tables(m, i)'
    BY <1>3 DEF RoutingInv, Tables
<1>8. QED
    BY <1>4, <1>6, <1>7 DEF RoutingInv, InChan

\* dispatch_received, for a request that prepare_received did not ignore.
LEMMA RequestStep ==
    ASSUME RoutingInv, NEW m \in Nodes, NEW n \in Nodes,
           NEW c \in [R!Hops -> Seq(R!Frame)],
           \A p \in R!Hops : \A h \in R!Frame : InChan(c, p, h) => InChan(frames, p, h),
           NEW f \in R!Frame, Good(f, n), f.status = "NoStatus", ~R!Ignored(n, f),
           R!DispatchRequest(c, n, m, f), UNCHANGED <<what, up, sent, expired>>
    PROVE  RoutingInv'
<1> DEFINE b == [f EXCEPT !.ignore = @ \union {m}]
           r == [f EXCEPT !.init = n]
           g == R!AddServices(n, b)
<1>1. f.id \in Ids
    BY DEF R!Frame
<1>2. /\ b \in R!Frame /\ b.id = f.id /\ b.status = f.status /\ b.init = f.init
      /\ b.mode = f.mode /\ b.ignore = f.ignore \union {m} /\ b.later = f.later
      /\ r \in R!Frame /\ r.id = f.id /\ r.status = f.status
    BY <1>1 DEF R!Frame
<1> HIDE DEF b, r
<1>3. /\ g \in R!Frame /\ g.id = f.id /\ g.status = "NoStatus" /\ g.init = f.init
      /\ g.mode = f.mode /\ g.ignore = f.ignore \union {m} \union f.later
    BY <1>2, ServicesFacts
<1>4. /\ f.id \in sent /\ \A a \in Nodes : <<a, f.id>> \notin expired
      /\ seen[n][f.id] = None /\ handled[n][f.id] = 0
      /\ what[f.id].kind # "Change" => what[f.id].origin # n
    BY <1>1 DEF Good, R!Ignored, RoutingInv, Tables
<1>5. /\ seen' = [seen EXCEPT ![n][f.id] = m]
      /\ handled' = [handled EXCEPT ![n][f.id] = @ + 1]
      /\ \/ frames' = c /\ UNCHANGED fwd
         \/ what[f.id].kind = "Change" /\ frames' = R!Sending(c, n, r, m) /\ UNCHANGED fwd
         \/ /\ what[f.id].kind # "Change" /\ frames' = R!Sending(c, n, g, None)
            /\ fwd' = [fwd EXCEPT ![n][f.id] = m]
    BY DEF R!DispatchRequest, R!Resent, R!Further, b, r
<1> HIDE DEF g
<1>6. /\ c \in [R!Hops -> Seq(R!Frame)]
      /\ R!Sending(c, n, r, m) \in [R!Hops -> Seq(R!Frame)]
      /\ R!Sending(c, n, g, None) \in [R!Hops -> Seq(R!Frame)]
      /\ frames' \in {c, R!Sending(c, n, r, m), R!Sending(c, n, g, None)}
      /\ \A p \in R!Hops : \A h \in R!Frame :
            InChan(frames', p, h) =>
              \/ InChan(frames, p, h)
              \/ h = r /\ what[f.id].kind = "Change"
              \/ h = g /\ what[f.id].kind # "Change" /\ p[2] \in R!Receivers(n, g, None)
    <2>1. /\ R!Sending(c, n, r, m) \in [R!Hops -> Seq(R!Frame)]
          /\ \A p \in R!Hops : \A h \in R!Frame :
                InChan(R!Sending(c, n, r, m), p, h) => InChan(c, p, h) \/ h = r
        BY <1>1, <1>2, SendingFacts
    <2>2. /\ R!Sending(c, n, g, None) \in [R!Hops -> Seq(R!Frame)]
          /\ \A p \in R!Hops : \A h \in R!Frame :
                InChan(R!Sending(c, n, g, None), p, h) =>
                    InChan(c, p, h) \/ (h = g /\ p[2] \in R!Receivers(n, g, None))
        BY <1>1, <1>3, SendingFacts
    <2>3. QED
        BY <1>1, <1>5, <2>1, <2>2
<1>7. RoutingTypes'
    <2>1. frames' \in [R!Hops -> Seq(R!Frame)]
        BY <1>6
    <2>2. seen' \in [Nodes -> [Ids -> Nodes \union {None}]]
        BY <1>1, <1>5 DEF RoutingInv, RoutingTypes
    <2>3. fwd' \in [Nodes -> [Ids -> Nodes \union {None}]]
        <3>1. CASE fwd' = fwd
            BY <3>1 DEF RoutingInv, RoutingTypes
        <3>2. CASE fwd' = [fwd EXCEPT ![n][f.id] = m]
            BY <1>1, <3>2 DEF RoutingInv, RoutingTypes
        <3>3. QED
            BY <1>5, <3>1, <3>2
    <2>4. handled' \in [Nodes -> [Ids -> Nat]]
        BY <1>1, <1>4, <1>5 DEF RoutingInv, RoutingTypes
    <2>5. QED
        BY <2>1, <2>2, <2>3, <2>4 DEF RoutingInv, RoutingTypes
<1>8. ASSUME NEW p \in R!Hops, NEW h \in R!Frame, InChan(frames', p, h)
      PROVE  Good(h, p[2])'
    <2>1. CASE InChan(frames, p, h)
        BY <2>1 DEF RoutingInv, Good
    <2>2. CASE h = r /\ what[f.id].kind = "Change"
        BY <1>2, <1>4, <2>2 DEF Good
    <2>3. CASE h = g /\ what[f.id].kind # "Change" /\ p[2] \in R!Receivers(n, g, None)
        <3>1. f.init = what[f.id].origin /\ f.mode = "Broadcast"
              /\ f.init \in f.ignore \union f.later
            BY <1>1, <2>3 DEF Good
        <3>2. p[2] \notin g.ignore
            BY <1>3, <2>3, <3>1, ReceiversFacts DEF RoutingInv
        <3>3. QED
            BY <1>3, <1>4, <2>3, <3>1, <3>2 DEF Good
    <2>4. QED
        BY <1>6, <1>8, <2>1, <2>2, <2>3
<1>9. ASSUME NEW a \in Nodes, NEW i \in Ids
      PROVE  Tables(a, i)'
    <2>1. CASE a = n /\ i = f.id
        <3>1. handled'[n][f.id] = 1 /\ seen'[n][f.id] = m /\ m # None
            BY <1>1, <1>4, <1>5, NetworkAssumption
            DEF R!RoutingAssumption, RoutingInv, RoutingTypes
        <3>2. QED
            BY <1>4, <2>1, <3>1 DEF Tables
    <2>2. CASE ~(a = n /\ i = f.id)
        <3>1. seen'[a][i] = seen[a][i]
            BY <1>1, <1>5, <2>2 DEF RoutingInv, RoutingTypes
        <3>2. fwd'[a][i] = fwd[a][i]
            <4>1. CASE fwd' = fwd
                BY <4>1
            <4>2. CASE fwd' = [fwd EXCEPT ![n][f.id] = m]
                BY <1>1, <2>2, <4>2 DEF RoutingInv, RoutingTypes
            <4>3. QED
                BY <1>5, <4>1, <4>2
        <3>3. handled'[a][i] = handled[a][i]
            BY <1>1, <1>5, <2>2 DEF RoutingInv, RoutingTypes
        <3>4. QED
            BY <3>1, <3>2, <3>3 DEF RoutingInv, Tables
    <2>3. QED
        BY <2>1, <2>2
<1>10. QED
    BY <1>7, <1>8, <1>9 DEF RoutingInv, InChan

\* prepare_received and dispatch_received: a frame is ignored, dispatched, or an
\* answer goes its way.
LEMMA ReceiveStep ==
    ASSUME RoutingInv, NEW m \in Nodes, NEW n \in Nodes, R!Receive(m, n)
    PROVE  RoutingInv'
<1> DEFINE f == Head(frames[<<m, n>>])
           c == [frames EXCEPT ![<<m, n>>] = Tail(@)]
<1>1. /\ <<m, n>> \in R!Hops /\ frames[<<m, n>>] # <<>>
      /\ UNCHANGED <<what, up, sent, expired>>
    BY DEF R!Receive
<1>2. /\ f \in R!Frame /\ c \in [R!Hops -> Seq(R!Frame)]
      /\ \A p \in R!Hops : \A h \in R!Frame : InChan(c, p, h) => InChan(frames, p, h)
    BY <1>1, TakingFacts DEF RoutingInv, RoutingTypes
<1>3. CASE frames' = c /\ UNCHANGED <<seen, fwd, handled>>
    BY <1>1, <1>2, <1>3, QuietStep DEF RoutingInv, RoutingTypes
<1>4. CASE f.status = "NoStatus" /\ ~R!Ignored(n, f) /\ R!DispatchRequest(c, n, m, f)
    <2>1. Good(f, n)
        <3>1. Good(f, <<m, n>>[2])
            BY <1>1, <1>2, TakingFacts DEF RoutingInv, RoutingTypes
        <3>2. QED
            BY <3>1
    <2> HIDE DEF f, c
    <2>2. QED
        BY <1>1, <1>2, <1>4, <2>1, RequestStep
<1>5. CASE f.status = "Response" /\ R!PrepareResponse(c, n, f)
    <2>1. /\ frames' = c \/ frames' = R!Sending(c, n, f, fwd[n][f.id])
          /\ UNCHANGED <<seen, fwd, handled>>
        BY <1>5 DEF R!PrepareResponse
    <2> HIDE DEF f, c
    <2>2. /\ frames' \in [R!Hops -> Seq(R!Frame)]
          /\ \A p \in R!Hops : \A h \in R!Frame :
                InChan(frames', p, h) => InChan(frames, p, h) \/ h.status # "NoStatus"
        BY <1>2, <1>5, <2>1, SendingFacts
    <2>3. QED
        BY <1>1, <2>1, <2>2, QuietStep DEF RoutingInv, RoutingTypes
<1>6. QED
    BY <1>3, <1>4, <1>5 DEF R!Receive

\* send_response sends no request.
LEMMA AnswerStep ==
    ASSUME RoutingInv, NEW n \in Nodes, NEW id \in Ids, R!Answer(n, id)
    PROVE  RoutingInv'
<1> DEFINE f == [id |-> id, status |-> "Response", mode |-> "Focused",
                 init |-> n, ignore |-> {}, later |-> {}]
<1>1. f \in R!Frame /\ f.status # "NoStatus"
    BY DEF R!Frame
<1>2. /\ frames' = frames \/ frames' = R!Sending(frames, n, f, seen[n][id])
      /\ UNCHANGED <<what, up, seen, fwd, sent, handled, expired>>
    BY DEF R!Answer
<1> HIDE DEF f
<1>3. /\ frames' \in [R!Hops -> Seq(R!Frame)]
      /\ \A p \in R!Hops : \A h \in R!Frame :
            InChan(frames', p, h) => InChan(frames, p, h) \/ h.status # "NoStatus"
    <2>1. frames \in [R!Hops -> Seq(R!Frame)]
        BY DEF RoutingInv, RoutingTypes
    <2>2. QED
        BY <1>1, <1>2, <2>1, SendingFacts
<1>4. QED
    BY <1>2, <1>3, QuietStep DEF RoutingInv, RoutingTypes

\* clear_network_caches: no request of the message is on its way, so none can
\* be dispatched a second time.
LEMMA ExpireStep ==
    ASSUME RoutingInv, NEW n \in Nodes, NEW id \in Ids, R!Expire(n, id)
    PROVE  RoutingInv'
<1>1. /\ \A p \in R!Hops : \A f \in R!Frame :
            InChan(frames, p, f) /\ f.id = id => f.status = "Response"
      /\ seen[n][id] # None \/ fwd[n][id] # None
      /\ seen' = [seen EXCEPT ![n][id] = None] /\ fwd' = [fwd EXCEPT ![n][id] = None]
      /\ expired' = expired \union {<<n, id>>}
      /\ UNCHANGED <<what, up, frames, sent, handled>>
    BY DEF R!Expire, InChan
<1>2. RoutingTypes'
    BY <1>1 DEF RoutingInv, RoutingTypes
<1>3. ASSUME NEW p \in R!Hops, NEW f \in R!Frame, InChan(frames, p, f)
      PROVE  Good(f, p[2])'
    BY <1>1, <1>3 DEF RoutingInv, Good
<1>4. ASSUME NEW a \in Nodes, NEW i \in Ids
      PROVE  Tables(a, i)'
    <2>1. CASE a = n /\ i = id
        <3>1. <<n, id>> \in expired' /\ id \in sent
            BY <1>1 DEF RoutingInv, Tables
        <3>2. QED
            BY <1>1, <2>1, <3>1 DEF RoutingInv, Tables
    <2>2. CASE ~(a = n /\ i = id)
        <3>1. /\ seen'[a][i] = seen[a][i] /\ fwd'[a][i] = fwd[a][i]
              /\ <<a, i>> \in expired' <=> <<a, i>> \in expired
            BY <1>1, <2>2 DEF RoutingInv, RoutingTypes
        <3>2. QED
            BY <1>1, <3>1 DEF RoutingInv, Tables
    <2>3. QED
        BY <2>1, <2>2
<1>5. QED
    BY <1>1, <1>2, <1>3, <1>4 DEF RoutingInv, InChan

\* Every step keeps the invariant.
LEMMA RoutingStep ==
    ASSUME RoutingInv, [R!Next]_(R!vars)
    PROVE  RoutingInv'
<1>1. ASSUME NEW l \in Links, R!Break(l)
      PROVE  RoutingInv'
    <2>1. /\ up' \subseteq Links /\ frames' \in [R!Hops -> Seq(R!Frame)]
          /\ UNCHANGED <<what, seen, fwd, sent, handled, expired>>
        BY <1>1 DEF R!Break, RoutingInv, RoutingTypes
    <2>2. ASSUME NEW p \in R!Hops, NEW f \in R!Frame, InChan(frames', p, f)
          PROVE  InChan(frames, p, f)
        <3>1. frames'[p] = <<>> \/ frames'[p] = frames[p]
            BY <1>1 DEF R!Break
        <3>2. QED
            BY <2>2, <3>1 DEF InChan
    <2>3. QED
        BY <2>1, <2>2, QuietStep
<1>2. CASE UNCHANGED R!vars
    BY <1>2, QuietStep DEF R!vars, RoutingInv, RoutingTypes
<1>3. QED
    BY <1>1, <1>2, SendStep, ReceiveStep, AnswerStep, ExpireStep DEF R!Next

\* The inductive invariant holds in every reachable state.
THEOREM RoutingInvariance == R!Spec => []RoutingInv
<1>1. R!Init => RoutingInv
    <2> SUFFICES ASSUME R!Init PROVE RoutingInv
        OBVIOUS
    <2>1. RoutingTypes
        BY NetworkAssumption DEF R!MessagesAssumption, R!Init, RoutingTypes
    <2>2. \A p \in R!Hops : \A f \in R!Frame : ~InChan(frames, p, f)
        BY DEF R!Init, InChan
    <2>3. \A n \in Nodes : \A id \in Ids : Tables(n, id)
        BY DEF R!Init, Tables
    <2>4. QED
        BY <2>1, <2>2, <2>3 DEF RoutingInv
<1>2. RoutingInv /\ [R!Next]_(R!vars) => RoutingInv'
    BY RoutingStep
<1>3. QED
    BY <1>1, <1>2, PTL DEF R!Spec

\* However the copies of a message cross, whichever links break and whenever
\* messages_ is cleared, no node handles a message twice, and no node handles
\* its own broadcast.
THEOREM EachHandledOnce == R!Spec => []HandledOnce
<1>1. RoutingInv => HandledOnce
    BY DEF RoutingInv, Tables, HandledOnce, R!HandledOnce
<1>2. QED
    BY <1>1, RoutingInvariance, PTL

------------------------------------------------------------------------------
(* Connections.                                                            *)

Phases == {"none", "opening", "open", "keyed", "active", "closed"}

\* A connection nobody opened has no service at either end.
Unopened ==
    \A s \in Sockets : dial[s][1] = None =>
        phase[<<s, "out">>] = "none" /\ phase[<<s, "in">>] = "none"

\* OneLinkPerPeer, with the two ends of a connection written out.
OneLink ==
    \A d, e \in L!Ends :
        (phase[d] = "active" /\ phase[e] = "active"
            /\ L!Here(d) = L!Here(e) /\ L!Peer(d) = L!Peer(e))
            => d = e

\* The inductive invariant.
LinkInv ==
    /\ dial \in [Sockets -> (Nodes \X Nodes) \union {<<None, None>>}]
    /\ phase \in [L!Ends -> Phases]
    /\ Unopened
    /\ OneLink

\* The two ends of a connection.
LEMMA EndFacts ==
    ASSUME NEW e \in L!Ends
    PROVE  /\ e[1] \in Sockets /\ e[2] \in {"out", "in"} /\ e = <<e[1], e[2]>>
           /\ L!Far(e) \in L!Ends /\ L!Far(e)[1] = e[1] /\ L!Far(L!Far(e)) = e
<1>1. PICK s \in Sockets, o \in {"out", "in"} : e = <<s, o>>
    BY DEF L!Ends
<1>2. QED
    BY <1>1 DEF L!Ends, L!Far

\* Closing ends activates none and opens none.
LEMMA ClosedFacts ==
    ASSUME NEW ph \in [L!Ends -> Phases], NEW es
    PROVE  /\ L!Closed(ph, es) \in [L!Ends -> Phases]
           /\ \A e \in L!Ends : L!Closed(ph, es)[e] = IF e \in es THEN "closed" ELSE ph[e]
BY DEF L!Closed, Phases

\* A step that activates no end keeps the invariant, when the ends it opens or
\* closes belong to connections somebody opened.
LEMMA NoNewLink ==
    ASSUME LinkInv, dial' = dial, phase' \in [L!Ends -> Phases],
           \A e \in L!Ends : phase'[e] = "active" => phase[e] = "active",
           \A e \in L!Ends : phase[e] = "none" /\ dial[e[1]][1] = None => phase'[e] = "none"
    PROVE  LinkInv'
<1>1. Unopened'
    <2>1. ASSUME NEW s \in Sockets, dial[s][1] = None, NEW o \in {"out", "in"}
          PROVE  phase'[<<s, o>>] = "none"
        <3>1. <<s, o>> \in L!Ends /\ <<s, o>>[1] = s
            BY DEF L!Ends
        <3>2. phase[<<s, o>>] = "none"
            BY <2>1 DEF LinkInv, Unopened
        <3>3. QED
            BY <2>1, <3>1, <3>2
    <2>2. QED
        BY <2>1 DEF Unopened
<1>2. OneLink'
    BY DEF LinkInv, OneLink, L!Here, L!Peer
<1>3. QED
    BY <1>1, <1>2 DEF LinkInv

\* The ends that a set of connections closes are in use, so they are no ends
\* of an unopened connection.
LEMMA CloseOpen ==
    ASSUME LinkInv, NEW es, \A e \in es : e \in L!Ends => phase[e] # "none",
           dial' = dial, phase' = L!Closed(phase, es)
    PROVE  LinkInv'
<1>1. phase' \in [L!Ends -> Phases]
    BY ClosedFacts DEF LinkInv
<1>2. \A e \in L!Ends : phase'[e] = IF e \in es THEN "closed" ELSE phase[e]
    BY ClosedFacts DEF LinkInv
<1>3. QED
    BY <1>1, <1>2, NoNewLink

\* connect_to_node_slot: the new connection is dialled on ends nobody uses.
LEMMA DialStep ==
    ASSUME LinkInv, NEW n \in Nodes, NEW m \in Nodes, L!ProbeOk(n, m)
    PROVE  LinkInv'
<1>1. CASE UNCHANGED <<dial, phase>>
    BY <1>1, NoNewLink DEF LinkInv
<1>2. ASSUME NEW s \in Sockets, NEW victims \in SUBSET L!Ends,
             L!MayConnect(n, m, victims), dial[s][1] = None,
             UNCHANGED dial, phase' = L!Closed(phase, victims)
      PROVE  LinkInv'
    <2>1. \A e \in victims : phase[e] # "none"
        BY <1>2 DEF L!MayConnect, L!Victims, L!Connections
    <2>2. QED
        BY <1>2, <2>1, CloseOpen
<1>3. ASSUME NEW s \in Sockets, NEW victims \in SUBSET L!Ends, NEW es \in SUBSET L!Ends,
             L!MayConnect(n, m, victims), dial[s][1] = None,
             \A e \in es : phase[e] # "none",
             dial' = [dial EXCEPT ![s] = <<n, m>>],
             phase' = [L!Closed(phase, es) EXCEPT ![<<s, "out">>] = "opening"]
      PROVE  LinkInv'
    <2>1. /\ L!Closed(phase, es) \in [L!Ends -> Phases]
          /\ \A e \in L!Ends : L!Closed(phase, es)[e] = IF e \in es THEN "closed" ELSE phase[e]
        BY ClosedFacts DEF LinkInv
    <2> <<s, "out">> \in L!Ends /\ <<s, "in">> \in L!Ends
        BY DEF L!Ends
    <2>2. /\ phase' \in [L!Ends -> Phases]
          /\ \A e \in L!Ends : phase'[e] = IF e = <<s, "out">> THEN "opening"
                                         ELSE IF e \in es THEN "closed" ELSE phase[e]
        BY <1>3, <2>1 DEF Phases
    <2>3. /\ dial' \in [Sockets -> (Nodes \X Nodes) \union {<<None, None>>}]
          /\ dial'[s] = <<n, m>> /\ \A i \in Sockets \ {s} : dial'[i] = dial[i]
        BY <1>3 DEF LinkInv
    <2>4. Unopened'
        <3>1. ASSUME NEW i \in Sockets, dial'[i][1] = None, NEW o \in {"out", "in"}
              PROVE  phase'[<<i, o>>] = "none"
            <4>1. i # s /\ dial[i][1] = None
                BY <2>3, <3>1, NetworkAssumption DEF L!LinkAssumption
            <4>2. <<i, o>> \in L!Ends /\ <<i, o>> # <<s, "out">>
                BY <4>1 DEF L!Ends
            <4>3. phase[<<i, o>>] = "none"
                BY <4>1 DEF LinkInv, Unopened
            <4>4. QED
                BY <1>3, <2>2, <4>2, <4>3
        <3>2. QED
            BY <3>1 DEF Unopened
    <2>5. OneLink'
        <3>1. ASSUME NEW e \in L!Ends, phase'[e] = "active"
              PROVE  phase[e] = "active" /\ e[1] # s
            <4>1. phase[e] = "active" /\ e # <<s, "out">>
                BY <2>2, <3>1
            <4>2. phase[<<s, "in">>] = "none"
                BY <1>3 DEF LinkInv, Unopened
            <4>3. e # <<s, "in">>
                BY <4>1, <4>2
            <4>4. QED
                BY <4>1, <4>3, EndFacts
        <3>2. ASSUME NEW e \in L!Ends, e[1] # s
              PROVE  L!Here(e)' = L!Here(e) /\ L!Peer(e)' = L!Peer(e)
            BY <2>3, <3>2, EndFacts DEF L!Here, L!Peer
        <3>3. QED
            BY <3>1, <3>2 DEF LinkInv, OneLink
    <2>6. QED
        BY <2>2, <2>3, <2>4, <2>5 DEF LinkInv
<1>4. ASSUME NEW s \in Sockets, NEW victims \in SUBSET L!Ends, L!MayConnect(n, m, victims)
      PROVE  \A e \in victims \union
                      {d \in L!Connections(L!Closed(phase, victims), n) : L!Peer(d) = m} :
                 e \in L!Ends /\ phase[e] # "none"
    <2>1. \A e \in victims : phase[e] # "none"
        BY <1>4 DEF L!MayConnect, L!Victims, L!Connections
    <2>2. \A e \in L!Connections(L!Closed(phase, victims), n) : e \in L!Ends /\ phase[e] # "none"
        BY <2>1, ClosedFacts DEF L!Connections, LinkInv
    <2>3. QED
        BY <1>4, <2>1, <2>2
<1>5. QED
    BY <1>1, <1>2, <1>3, <1>4 DEF L!ProbeOk

\* check_first_message: the handshake that activates an end has closed the
\* other active connection to the same peer, and there was at most one.
LEMMA ActivateLink ==
    ASSUME LinkInv, NEW e \in L!Ends, NEW w, NEW dup \in L!Duplicates(e), NEW h,
           L!Activate(e, w, dup, h), phase[e] # "none", UNCHANGED dial
    PROVE  LinkInv'
<1> DEFINE others == {d \in L!Active(phase, L!Here(e)) \ {e} : L!Peer(d) = L!Peer(e)}
<1>1. /\ dup \subseteq others
      /\ \A d \in others : d \in L!Ends /\ phase[d] = "active" /\ L!Here(d) = L!Here(e)
      /\ \A d \in L!Ends \ {e} :
            (phase[d] = "active" /\ L!Here(d) = L!Here(e) /\ L!Peer(d) = L!Peer(e)) => d \in others
    BY DEF L!Duplicates, L!Active, L!Connections
<1>2. others \subseteq dup
    <2>1. \A d, d2 \in others : d = d2
        BY <1>1 DEF LinkInv, OneLink
    <2>2. QED
        BY <2>1 DEF L!Duplicates
<1>3. PICK p \in {"closed", "active"} : phase' = [L!Closed(phase, dup) EXCEPT ![e] = p]
    BY DEF L!Activate
<1>4. /\ phase' \in [L!Ends -> Phases] /\ phase'[e] = p
      /\ \A d \in L!Ends \ {e} : phase'[d] = IF d \in dup THEN "closed" ELSE phase[d]
    BY <1>3, ClosedFacts DEF LinkInv, Phases
<1>5. Unopened'
    <2>1. ASSUME NEW i \in Sockets, dial[i][1] = None, NEW o \in {"out", "in"}
          PROVE  phase'[<<i, o>>] = "none"
        <3>1. phase[<<i, o>>] = "none" /\ <<i, o>> \in L!Ends
            BY <2>1 DEF LinkInv, Unopened, L!Ends
        <3>2. <<i, o>> # e /\ <<i, o>> \notin dup
            BY <1>1, <3>1
        <3>3. QED
            BY <1>4, <3>1, <3>2
    <2>2. QED
        BY <2>1 DEF Unopened
<1>6. OneLink'
    <2>1. \A d \in L!Ends : L!Here(d)' = L!Here(d) /\ L!Peer(d)' = L!Peer(d)
        BY DEF L!Here, L!Peer
    <2>2. \A d \in L!Ends \ {e} : phase'[d] = "active" => phase[d] = "active" /\ d \notin others
        BY <1>2, <1>4
    <2>3. QED
        BY <1>1, <2>1, <2>2 DEF LinkInv, OneLink
<1>7. QED
    BY <1>4, <1>5, <1>6 DEF LinkInv

\* Every step keeps the invariant.
LEMMA LinkStep ==
    ASSUME LinkInv, [L!Next]_(L!vars)
    PROVE  LinkInv'
<1>1. ASSUME NEW n \in Nodes, NEW m \in Nodes, L!ProbeOk(n, m)
      PROVE  LinkInv'
    BY <1>1, DialStep
<1>2. ASSUME NEW s \in Sockets, L!Accept(s)
      PROVE  LinkInv'
    <2> DEFINE e == <<s, "in">>
    <2>1. PICK victims \in SUBSET L!Ends :
             /\ \A d \in victims : phase[d] # "none"
             /\ phase' = [L!Closed(phase, victims) EXCEPT ![e] = "open"]
        BY <1>2 DEF L!Accept, L!Victims, L!Connections
    <2>2. /\ e \in L!Ends /\ e[1] = s /\ <<s, "out">> \in L!Ends
          /\ phase[<<s, "out">>] = "opening" /\ dial' = dial
        BY <1>2 DEF L!Accept, L!Ends
    <2>3. dial[s][1] # None
        BY <2>2 DEF LinkInv, Unopened
    <2>4. /\ phase' \in [L!Ends -> Phases]
          /\ phase'[e] = "open"
          /\ \A d \in L!Ends \ {e} : phase'[d] = IF d \in victims THEN "closed" ELSE phase[d]
        BY <2>1, <2>2, ClosedFacts DEF LinkInv, Phases
    <2>5. QED
        BY <2>1, <2>2, <2>3, <2>4, NoNewLink
<1>3. ASSUME NEW e \in L!Ends, NEW p \in {"open", "closed", "keyed"}, phase[e] # "none",
             phase' = [phase EXCEPT ![e] = p], UNCHANGED dial
      PROVE  LinkInv'
    <2>1. /\ phase' \in [L!Ends -> Phases] /\ phase'[e] = p
          /\ \A d \in L!Ends \ {e} : phase'[d] = phase[d]
        BY <1>3 DEF LinkInv, Phases
    <2>2. QED
        BY <1>3, <2>1, NoNewLink
<1>4. ASSUME NEW s \in Sockets, L!Connected(s) \/ L!ConnectTimeout(s)
      PROVE  LinkInv'
    <2>1. <<s, "out">> \in L!Ends
        BY DEF L!Ends
    <2>2. QED
        BY <1>3, <1>4, <2>1 DEF L!Connected, L!ConnectTimeout
<1>5. ASSUME NEW e \in L!Ends, L!ReceiveKey(e)
      PROVE  LinkInv'
    <2>1. /\ phase[e] \in {"open", "closed"} /\ UNCHANGED dial
          /\ phase' = [phase EXCEPT ![e] = IF phase[e] = "open" THEN "keyed" ELSE phase[e]]
        BY <1>5 DEF L!ReceiveKey
    <2>2. QED
        BY <1>3, <2>1
<1>6. ASSUME NEW e \in L!Ends, L!ReceiveHello(e)
      PROVE  LinkInv'
    <2> DEFINE h == Head(wire[e])
               w == [wire EXCEPT ![e] = Tail(@)]
    <2>1. phase[e] # "none" /\ UNCHANGED dial
        BY <1>6 DEF L!ReceiveHello
    <2>2. \A dup \in L!Duplicates(e) : \A d \in dup : phase[d] # "none"
        BY DEF L!Duplicates, L!Active, L!Connections
    <2>3. ASSUME NEW dup \in L!Duplicates(e) \union {{}}, L!Reject(e, w, phase, dup)
          PROVE  LinkInv'
        <3>1. \A d \in dup \union {e} : phase[d] # "none"
            BY <2>1, <2>2
        <3>2. QED
            BY <2>1, <2>3, <3>1, CloseOpen DEF L!Reject
    <2>4. ASSUME NEW dup \in L!Duplicates(e), phase' = L!Closed(phase, dup)
          PROVE  LinkInv'
        BY <2>1, <2>2, <2>4, CloseOpen
    <2>5. ASSUME NEW dup \in L!Duplicates(e), L!Activate(e, w, dup, h)
          PROVE  LinkInv'
        BY <2>1, <2>5, ActivateLink
    <2>6. QED
        BY <1>6, <2>3, <2>4, <2>5 DEF L!ReceiveHello
<1>7. ASSUME NEW e \in L!Ends, L!Disconnected(e)
      PROVE  LinkInv'
    BY <1>3, <1>7 DEF L!Disconnected
<1>8. ASSUME NEW n \in Nodes, L!DropAvoided(n)
      PROVE  LinkInv'
    BY <1>8, CloseOpen DEF L!DropAvoided, L!Active, L!Connections
<1>9. ASSUME NEW n \in Nodes, L!Reconnection(n)
      PROVE  LinkInv'
    <2>1. CASE UNCHANGED phase
        BY <1>9, <2>1, NoNewLink DEF L!Reconnection, LinkInv
    <2>2. ASSUME NEW es, \A e \in es : phase[e] # "none", phase' = L!Closed(phase, es)
          PROVE  LinkInv'
        BY <1>9, <2>2, CloseOpen DEF L!Reconnection
    <2>3. QED
        BY <1>9, <2>1, <2>2 DEF L!Reconnection, L!Connections
<1>10. CASE UNCHANGED <<dial, phase>>
    BY <1>10, NoNewLink DEF LinkInv
<1>11. QED
    BY <1>1, <1>2, <1>4, <1>5, <1>6, <1>7, <1>8, <1>9, <1>10
    DEF L!Next, L!vars, L!ProbeFails, L!TooLate, L!SetAvoided, L!Cut

\* The inductive invariant holds in every reachable state.
THEOREM LinkInvariance == L!Spec => []LinkInv
<1>1. L!Init => LinkInv
    BY DEF L!Init, LinkInv, Phases, Unopened, OneLink, L!Ends
<1>2. LinkInv /\ [L!Next]_(L!vars) => LinkInv'
    BY LinkStep
<1>3. QED
    BY <1>1, <1>2, PTL DEF L!Spec

\* Whichever side dials, however the handshakes cross, and however often
\* connections break, a node never has two active connections to one peer.
THEOREM LinksUnique == L!Spec => []OneLinkPerPeer
<1>1. LinkInv => OneLinkPerPeer
    BY DEF LinkInv, OneLink, OneLinkPerPeer, L!OneLinkPerPeer, L!Active, L!Connections
<1>2. QED
    BY <1>1, LinkInvariance, PTL
==============================================================================
