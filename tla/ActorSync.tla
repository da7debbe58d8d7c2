----------------------------- MODULE ActorSync -----------------------------
(***************************************************************************)
(* The index of public actors (ActorIndex): a file per actor, a row per    *)
(* actor in the Actors database, the counter and the bucket hashes kept in *)
(* memory, and the exchange of missing actors when two nodes connect.  A   *)
(* node whose first exchange has not ended keeps what it receives in a map *)
(* (actors_todo_map_), stores the map in one transaction and only then     *)
(* starts the DAG and the DFS.                                             *)
(*                                                                         *)
(* Saving is one synchronous call on the node's thread; its outcomes -     *)
(* stored, rolled back, rolled back with the files left behind - are       *)
(* chosen by the fault parameter, and a crash in the middle of it leaves   *)
(* files without rows.                                                     *)
(***************************************************************************)
EXTENDS Integers, Sequences, FiniteSets

CONSTANTS
  Nodes,      \* the nodes
  Pairs,      \* the pairs of them that connect
  Actors,     \* the actors, numbered: the order of ActorId
  First,      \* First[n]: the actors node n holds at the start
  Bucket,     \* Bucket[a]: the bucket of an actor (256 in the code)
  Unstorable, \* actors whose file or row a node that lacks them cannot write
  Page,       \* actors in one answer (100)
  Slack,      \* missing actors the first exchange does not wait for (15)
  MaxFaults   \* bound: refused transactions, crashes and lost connections

ASSUME ActorSyncAssumption ==
  /\ Pairs \subseteq {{n, p} : n, p \in Nodes} \ {{n} : n \in Nodes}
  /\ Actors \subseteq Nat /\ IsFiniteSet(Actors) /\ First \in [Nodes -> SUBSET Actors]
  /\ Unstorable \subseteq Actors
  /\ Page \in Nat \ {0} /\ Slack \in Nat /\ MaxFaults \in Nat

VARIABLES
  files,    \* files[n]: actors with a file                    (disk)
  rows,     \* rows[n]: actors with a row in the database      (disk)
  records,  \* records[n]: records_
  synch,    \* synch[n]: the ids behind the bucket hashes of synch_
  count,    \* count[n]: synch_count_
  todo,     \* todo[n]: actors_todo_map_
  done,     \* done[n]: sync_first_done_
  pending,  \* pending[n]: actors_broadcast_
  waiting,  \* waiting[n]: identifiers_after_actors_sync_
  links,    \* the connected pairs of nodes
  active,   \* active[n]: peers whose socket is activated at n
  asked,    \* asked[n]: active peers the DFS was synchronised with
  chan,     \* chan[n][p]: messages from n to p
  jobs,     \* jobs[n]: answers a pool thread of n is sending
  born,     \* the actors created so far
  faults,   \* faults so far
  left,     \* left[n]: actors whose file an interrupted save left (history)
  failed    \* failed[n]: a save was refused since the last activation (history)

disk   == <<files, rows>>
memory == <<records, synch, count, todo, done, pending, waiting>>
net    == <<links, active, asked, chan, jobs>>
vars   == <<disk, memory, net, born, faults, left, failed>>

Messages == [kind : {"Hash"}, count : Nat, ids : SUBSET Actors]
              \cup [kind : {"Page", "New"}, ids : SUBSET Actors]

TypeOK ==
  /\ files \in [Nodes -> SUBSET Actors] /\ rows \in [Nodes -> SUBSET Actors]
  /\ records \in [Nodes -> Nat] /\ synch \in [Nodes -> SUBSET Actors]
  /\ count \in [Nodes -> Nat] /\ todo \in [Nodes -> SUBSET Actors]
  /\ done \in [Nodes -> BOOLEAN] /\ pending \in [Nodes -> SUBSET Actors]
  /\ waiting \in [Nodes -> SUBSET Nodes] /\ active \in [Nodes -> SUBSET Nodes]
  /\ asked \in [Nodes -> SUBSET Nodes]
  /\ links \subseteq Pairs
  /\ \A n, p \in Nodes : \A i \in 1..Len(chan[n][p]) : chan[n][p][i] \in Messages
  /\ jobs \in [Nodes -> SUBSET [to : Nodes, ids : SUBSET Actors]]
  /\ born \subseteq Actors /\ faults \in 0..MaxFaults
  /\ left \in [Nodes -> SUBSET Actors]
  /\ failed \in [Nodes -> BOOLEAN]

-----------------------------------------------------------------------------
(* Bucket hashes; two buckets hash alike when they hold the same ids.      *)

InBucket(ids, b) == {a \in ids : Bucket[a] = b}

Differing(mine, theirs) ==
  {a \in mine : InBucket(mine, Bucket[a]) # InBucket(theirs, Bucket[a])}

FirstPage(ids) == {a \in ids : Cardinality({b \in ids : b < a}) < Page}

-----------------------------------------------------------------------------
(* Saving.                                                                 *)

(* Mutants of Storable: an existing actor is saved again; a file without a *)
(* row counts as saved.                                                    *)
StorableAgain(n, batch)  == batch \ Unstorable
StorableNoFile(n, batch) == (batch \ files[n]) \ Unstorable

(* What add() and the insert of the row can do for a batch: an actor with  *)
(* file and row is skipped, a file without a row is indexed, a new actor   *)
(* gets both.                                                              *)
Storable(n, batch) == (batch \ rows[n]) \ Unstorable

(* Mutant of Saved: one actor that cannot be stored fails its batch.       *)
SavedStrict(n, batch, fault) ==
  LET new == Storable(n, batch)
      same == [ok |-> FALSE, files |-> files[n], added |-> {}]
  IN  IF fault = "kept" THEN [same EXCEPT !.files = @ \cup new]
      ELSE IF fault = "refused" \/ (batch \cap Unstorable) \ rows[n] # {} THEN same
      ELSE [ok |-> TRUE, files |-> files[n] \cup new, added |-> new]

(* save_actor_batch: the outcome of saving a batch at node n.  A lone      *)
(* actor that cannot be stored is an error, one of several is left out.    *)
(* "refused": BEGIN or COMMIT fails; "kept": so does the ROLLBACK.         *)
Saved(n, batch, fault) ==
  LET new == Storable(n, batch)
      same == [ok |-> FALSE, files |-> files[n], added |-> {}]
  IN  IF fault = "kept" THEN [same EXCEPT !.files = @ \cup new]
      ELSE IF \/ fault = "refused"
              \/ Cardinality(batch) = 1 /\ (batch \cap Unstorable) \ rows[n] # {}
           THEN same
           ELSE [ok |-> TRUE, files |-> files[n] \cup new, added |-> new]

(* The disk, the counter and the hashes after a save.                      *)
Publish(n, s) ==
  /\ files' = [files EXCEPT ![n] = s.files]
  /\ rows' = [rows EXCEPT ![n] = @ \cup s.added]
  /\ records' = [records EXCEPT ![n] = @ + Cardinality(s.added)]
  /\ synch' = [synch EXCEPT ![n] = @ \cup s.added]
  /\ left' = [left EXCEPT ![n] = (@ \cup (s.files \ rows[n])) \ s.added]

(* A fault is chosen within the bound, and only when something is saved.   *)
Faulty(n, fault) ==
  /\ faults' = IF fault = "none" THEN faults ELSE faults + 1
  /\ fault # "none" => faults < MaxFaults

Refused(n, fault) == failed' = [failed EXCEPT ![n] = @ \/ fault # "none"]

-----------------------------------------------------------------------------
(* Messages.                                                               *)

Push(c, n, p, msg) == [c EXCEPT ![n][p] = Append(@, msg)]

(* A broadcast reaches the active peers.                                   *)
Broadcast(c, n, to, ids) ==
  [c EXCEPT ![n] = [p \in Nodes |->
     IF p \in to /\ ids # {} THEN Append(c[n][p], [kind |-> "New", ids |-> ids])
     ELSE c[n][p]]]

(* firstSyncEnded: the DFS is synchronised with the peers that waited.     *)
EndFirst(n) ==
  /\ done' = [done EXCEPT ![n] = TRUE]
  /\ asked' = [asked EXCEPT ![n] = @ \cup (waiting[n] \cap active[n])]

(* Nothing received is left unstored.                                      *)
Emptied(n, saves, s) == todo[n] = {} \/ (saves /\ s.ok)

(* network_actors_hash_request: what the peer lacks is sent by a pool      *)
(* thread; the first exchange may end here, but not before the received    *)
(* actors are stored.                                                      *)
HandleHash(n, p, msg, fault) ==
  LET ends    == records[n] + 1 >= msg.count
      saves   == ends /\ ~done[n] /\ todo[n] # {}
      s       == Saved(n, todo[n], fault)
      lacks   == Differing(synch[n], msg.ids)
  IN  /\ msg.kind = "Hash"
      /\ fault # "none" => saves
      /\ count' = [count EXCEPT ![n] = IF msg.count > @ THEN msg.count ELSE @]
      /\ jobs' = [jobs EXCEPT ![n] =
           IF lacks = {} THEN @ ELSE @ \cup {[to |-> p, ids |-> lacks]}]
      /\ IF saves THEN Publish(n, s) /\ Refused(n, fault)
                  ELSE UNCHANGED <<disk, records, synch, left, failed>>
      /\ todo' = [todo EXCEPT ![n] = IF saves /\ s.ok THEN {} ELSE @]
      /\ IF ends /\ Emptied(n, saves, s) /\ ~done[n] THEN EndFirst(n) ELSE UNCHANGED <<done, asked>>

(* network_actors_response: before the first exchange has ended the actors *)
(* are collected and stored together once enough of them arrived.          *)
HandlePage(n, msg, fault) ==
  LET all    == todo[n] \cup msg.ids
      enough == count[n] <= Cardinality(all) + records[n] + Slack
      batch  == IF done[n] THEN msg.ids ELSE all
      saves  == done[n] \/ enough
      s      == Saved(n, batch, fault)
  IN  /\ msg.kind = "Page"
      /\ fault # "none" => saves
      /\ IF saves THEN Publish(n, s) /\ Refused(n, fault)
                  ELSE UNCHANGED <<disk, records, synch, left, failed>>
      /\ IF ~done[n] /\ enough /\ s.ok
         THEN todo' = [todo EXCEPT ![n] = {}] /\ EndFirst(n)
         ELSE /\ todo' = [todo EXCEPT ![n] = IF done[n] THEN @ ELSE all]
              /\ UNCHANGED <<done, asked>>
      /\ UNCHANGED <<count, jobs>>

(* network_store_new_actor and the dispatch of NewActor: forwarded only    *)
(* when the actor was new and could be stored.                             *)
HandleNew(n, msg, fault) ==
  LET s == Saved(n, msg.ids, fault)
  IN  /\ msg.kind = "New"
      /\ Publish(n, s) /\ Refused(n, fault)
      /\ UNCHANGED <<count, todo, done, asked, jobs>>

Forward(n, p, msg) ==
  IF msg.kind = "New" /\ rows'[n] # rows[n] THEN active[n] \ {p} ELSE {}

Handle(n, p) ==
  /\ p \in active[n] /\ chan[p][n] # <<>>
  /\ LET msg == Head(chan[p][n])
     IN  \E fault \in {"none", "refused", "kept"} :
           /\ Faulty(n, fault)
           /\ \/ HandleHash(n, p, msg, fault)
              \/ HandlePage(n, msg, fault)
              \/ HandleNew(n, msg, fault)
           /\ chan' = Broadcast([chan EXCEPT ![p][n] = Tail(@)], n,
                                Forward(n, p, msg), msg.ids)
  /\ UNCHANGED <<pending, waiting, links, active, born>>

(* The pool thread: a page per step, read from the files.                  *)
SendPage(n) ==
  \E j \in jobs[n] :
    LET page == FirstPage(j.ids)
        rest == j.ids \ page
    IN  /\ jobs' = [jobs EXCEPT ![n] = (@ \ {j}) \cup
             (IF rest = {} THEN {} ELSE {[j EXCEPT !.ids = rest]})]
        /\ chan' = IF j.to \in active[n] /\ page \cap files[n] # {}
                   THEN Push(chan, n, j.to, [kind |-> "Page", ids |-> page \cap files[n]])
                   ELSE chan
        /\ UNCHANGED <<disk, memory, links, active, asked, born, faults, left, failed>>

-----------------------------------------------------------------------------
(* Connections and own actors.                                             *)

Connect(n, p) ==
  /\ {n, p} \in Pairs \ links
  /\ links' = links \cup {{n, p}}
  /\ UNCHANGED <<disk, memory, active, asked, chan, jobs, born, faults, left, failed>>

(* newSocketActivatedWithParams: own actors that found no peer are sent,   *)
(* then the hashes; a node that has done its first exchange synchronises   *)
(* the DFS at once.                                                        *)
Activate(n, p) ==
  /\ {n, p} \in links /\ p \notin active[n]
  /\ active' = [active EXCEPT ![n] = @ \cup {p}]
  /\ pending' = [pending EXCEPT ![n] = {}]
  /\ chan' = Push(Broadcast(chan, n, active[n] \cup {p}, pending[n]), n, p,
                  [kind |-> "Hash", count |-> records[n], ids |-> synch[n]])
  /\ IF done[n] THEN asked' = [asked EXCEPT ![n] = @ \cup {p}] /\ UNCHANGED waiting
                ELSE waiting' = [waiting EXCEPT ![n] = @ \cup {p}] /\ UNCHANGED asked
  /\ failed' = [q \in Nodes |-> failed[q] /\ q \notin {n, p}]
  /\ UNCHANGED <<disk, records, synch, count, todo, done, links, jobs, born, faults, left>>

(* A set of links is lost with what is under way on them.                  *)
Cut(lost) ==
  /\ links' = links \ lost
  /\ active' = [q \in Nodes |-> {r \in active[q] : {q, r} \notin lost}]
  /\ asked' = [q \in Nodes |-> {r \in asked[q] : {q, r} \notin lost}]
  /\ chan' = [q \in Nodes |-> [r \in Nodes |->
                IF {q, r} \in lost THEN <<>> ELSE chan[q][r]]]

Disconnect(n, p) ==
  /\ faults < MaxFaults /\ faults' = faults + 1
  /\ {n, p} \in links /\ Cut({{n, p}})
  /\ UNCHANGED <<disk, memory, jobs, born, left, failed>>

(* store_new_actor: an actor of the own profile.                           *)
Create(n, a) ==
  /\ a \in Actors \ born /\ born' = born \cup {a}
  /\ \E fault \in {"none", "refused", "kept"} :
       LET s == Saved(n, {a}, fault)
       IN  /\ Faulty(n, fault)
           /\ Publish(n, s) /\ Refused(n, fault)
           /\ chan' = IF s.ok THEN Broadcast(chan, n, active[n], {a}) ELSE chan
           /\ pending' = [pending EXCEPT ![n] =
                IF s.ok /\ active[n] = {} THEN @ \cup {a} ELSE @]
  /\ UNCHANGED <<count, todo, done, waiting, links, active, asked, jobs>>

(* What the node may be saving: an own actor, or what a message brought.    *)
Batches(n) ==
  {{a} : a \in Actors \ born} \cup
  {LET msg == Head(chan[p][n])
   IN  IF msg.kind = "Hash" THEN todo[n]
       ELSE IF msg.kind = "Page" /\ ~done[n] THEN todo[n] \cup msg.ids
       ELSE msg.ids : p \in {q \in active[n] : chan[q][n] # <<>>}}

(* The process ends, perhaps within a save whose files are partly there,   *)
(* and starts again: the counter and the hashes come from the rows.        *)
Crash(n) ==
  /\ faults < MaxFaults /\ faults' = faults + 1
  /\ \E batch \in Batches(n) \cup {{}} : \E written \in SUBSET Storable(n, batch) :
       /\ files' = [files EXCEPT ![n] = @ \cup written]
       /\ born' = born \cup written
       /\ left' = [left EXCEPT ![n] = @ \cup written]
  /\ records' = [records EXCEPT ![n] = Cardinality(rows[n])]
  /\ synch' = [synch EXCEPT ![n] = rows[n]]
  /\ count' = [count EXCEPT ![n] = 0] /\ todo' = [todo EXCEPT ![n] = {}]
  /\ done' = [done EXCEPT ![n] = FALSE]
  /\ pending' = [pending EXCEPT ![n] = {}] /\ waiting' = [waiting EXCEPT ![n] = {}]
  /\ jobs' = [jobs EXCEPT ![n] = {}]
  /\ failed' = [failed EXCEPT ![n] = FALSE]
  /\ Cut({l \in links : n \in l})
  /\ UNCHANGED rows

-----------------------------------------------------------------------------

Init ==
  /\ files = First /\ rows = First /\ synch = First
  /\ records = [n \in Nodes |-> Cardinality(First[n])]
  /\ count = [n \in Nodes |-> 0] /\ todo = [n \in Nodes |-> {}]
  /\ done = [n \in Nodes |-> FALSE] /\ pending = [n \in Nodes |-> {}]
  /\ waiting = [n \in Nodes |-> {}]
  /\ links = {} /\ active = [n \in Nodes |-> {}] /\ asked = [n \in Nodes |-> {}]
  /\ chan = [n \in Nodes |-> [p \in Nodes |-> <<>>]] /\ jobs = [n \in Nodes |-> {}]
  /\ born = UNION {First[n] : n \in Nodes} /\ faults = 0
  /\ left = [n \in Nodes |-> {}]
  /\ failed = [n \in Nodes |-> FALSE]

Next ==
  \/ \E n, p \in Nodes : Connect(n, p) \/ Activate(n, p) \/ Disconnect(n, p) \/ Handle(n, p)
  \/ \E n \in Nodes : SendPage(n) \/ Crash(n) \/ \E a \in Actors : Create(n, a)

(* Connections are retried, the event loop and the pool go on.  A save is  *)
(* not required to fail.                                                   *)
Fairness ==
  /\ \A n, p \in Nodes : WF_vars(Connect(n, p)) /\ WF_vars(Activate(n, p))
                         /\ WF_vars(Handle(n, p))
  /\ \A n \in Nodes : WF_vars(SendPage(n))

Spec == Init /\ [][Next]_vars /\ Fairness

-----------------------------------------------------------------------------
(* Properties.                                                             *)

(* The index agrees with itself whatever fails: every row has its file,    *)
(* and the counter and the hashes a node reports are those of its          *)
(* committed rows (save_actor_batch publishes after COMMIT).  A file       *)
(* without a row stays only where a save was interrupted or its rollback   *)
(* failed.                                                                 *)
IndexAgrees ==
  \A n \in Nodes : /\ rows[n] \subseteq files[n]
                   /\ records[n] = Cardinality(rows[n])
                   /\ synch[n] = rows[n]
                   /\ files[n] \ rows[n] \subseteq left[n]

(* The links stay up and no save was refused since they were activated.    *)
Steady == links = Pairs /\ \A n \in Nodes : ~failed[n]

(* With steady links every node ends its first exchange.                   *)
FirstSyncEnds == <>[]Steady => \A n \in Nodes : <>done[n]

(* With steady links every node gets every indexed actor it can store.     *)
ActorsSpread ==
  <>[]Steady => <>(\A n, p \in Nodes : rows[n] \subseteq rows[p] \cup Unstorable)

=============================================================================
