--------------------- MODULE NetworkReceiveQueueProofs ---------------------
(***************************************************************************)
(* Proofs about NetworkReceiveQueue for every number of producers, every   *)
(* capacity, quantum and number of stages.                                 *)
(***************************************************************************)
EXTENDS NetworkReceiveQueue, SequenceTheorems, TLAPS

(***************************************************************************)
(* Where the owner and the worker are, and what they hold there.           *)
(***************************************************************************)
OwnerInv ==
  /\ invoking <=> owner = "call" \/ (owner = "join" /\ stop_return = "call")
  /\ invoking => active # None
  /\ owner = "drain" => draining
  /\ owner \in {"loop", "drained"} => ~draining
  /\ owner = "finished" => active = None
  /\ owner = "join" => stopped
  /\ owner = "join" /\ stop_return = "loop" => ~draining

WorkerInv ==
  /\ running # None <=> worker \in {"run", "post"}
  /\ worker = "exited" => stopped /\ work = None
  /\ stopped /\ owner # "join" => worker = "exited"

\* Every promised stage was executed, waits in work or is being run.
PromiseInv ==
  promised = executed
    \cup (IF work = None THEN {} ELSE {work})
    \cup (IF worker = "run"
          THEN {[id |-> running.id, stage |-> running.stage]} ELSE {})

\* Ids are handed out, dispatched and retired consecutively.
OrderInv ==
  /\ active # None => active.id = retired + 1
  /\ ~stopped =>
       /\ \A i \in DOMAIN queue :
            queue[i].id = retired + (IF active = None THEN 0 ELSE 1) + i
       /\ next_id = retired + (IF active = None THEN 0 ELSE 1) + Len(queue) + 1

\* What Head, Tail and Append do to a sequence.
LEMMA SeqFacts ==
  ASSUME NEW S, NEW q \in Seq(S)
  PROVE  /\ \A x \in S : Append(q, x) \in Seq(S)
         /\ \A x \in S : Len(Append(q, x)) = Len(q) + 1
         /\ \A x \in S : \A i \in 1..Len(q) : Append(q, x)[i] = q[i]
         /\ \A x \in S : Append(q, x)[Len(q) + 1] = x
         /\ q # <<>> => /\ Head(q) \in S /\ Head(q) = q[1]
                        /\ Tail(q) \in Seq(S)
                        /\ Len(q) \in Nat \ {0} /\ Len(Tail(q)) = Len(q) - 1
                        /\ \A i \in 1..Len(Tail(q)) : Tail(q)[i] = q[i + 1]
OBVIOUS

\* The two shapes of a queued item.
LEMMA ItemFacts ==
  /\ \A i \in Nat : \A m \in Messages : \A p \in Peers :
       [id |-> i, message |-> m, peer |-> p, maintenance |-> FALSE] \in Item
  /\ \A i \in Nat :
       [id |-> i, message |-> None, peer |-> None, maintenance |-> TRUE] \in Item
  /\ \A x \in Item :
       /\ x.id \in Nat /\ x.maintenance \in BOOLEAN
       /\ ~x.maintenance => x.message \in Messages /\ x.peer \in Peers
  /\ None \notin Item
<1>1. \A i \in Nat : \A m \in Messages : \A p \in Peers :
        [id |-> i, message |-> m, peer |-> p, maintenance |-> FALSE] \in Item
  BY DEF Item
<1>2. \A i \in Nat :
        [id |-> i, message |-> None, peer |-> None, maintenance |-> TRUE] \in Item
  BY DEF Item
<1>3. \A x \in Item :
        /\ x.id \in Nat /\ x.maintenance \in BOOLEAN
        /\ ~x.maintenance => x.message \in Messages /\ x.peer \in Peers
  BY DEF Item
<1>4. QED
  BY <1>1, <1>2, <1>3, NoneAssumption

\* A deferred stage, before and after the worker ran it.
LEMMA StageFacts ==
  /\ \A i \in Nat : \A n \in Nat : [id |-> i, stage |-> n] \in Stage
  /\ \A x \in Stage : x.id \in Nat /\ x.stage \in Nat
  /\ \A i \in Nat : \A n \in Nat : \A b \in BOOLEAN :
       [id |-> i, stage |-> n, failed |-> b] \in Completion
  /\ \A x \in Completion :
       /\ x.id \in Nat /\ x.stage \in Nat /\ x.failed \in BOOLEAN
  /\ None \notin Stage /\ None \notin Completion
<1>1. \A x \in Stage : x.id \in Nat /\ x.stage \in Nat
  BY DEF Stage
<1>2. \A i \in Nat : \A n \in Nat : [id |-> i, stage |-> n] \in Stage
  BY DEF Stage
<1>3. \A i \in Nat : \A n \in Nat : \A b \in BOOLEAN :
        [id |-> i, stage |-> n, failed |-> b] \in Completion
  BY DEF Completion
<1>4. \A x \in Completion :
        x.id \in Nat /\ x.stage \in Nat /\ x.failed \in BOOLEAN
  BY DEF Completion
<1>5. QED
  BY <1>1, <1>2, <1>3, <1>4, NoneAssumption

\* The outcome of an operation is recorded without changing its stage.
LEMMA OutcomeFacts ==
  ASSUME NEW x \in Completion, NEW b \in BOOLEAN
  PROVE  /\ [x EXCEPT !.failed = b] \in Completion
         /\ [x EXCEPT !.failed = b].id = x.id
         /\ [x EXCEPT !.failed = b].stage = x.stage
BY DEF Completion

\* The two kinds of posted calls.
LEMMA EventFacts ==
  /\ [type |-> "drain"] \in Event
  /\ \A c \in Completion : [type |-> "complete", completion |-> c] \in Event
  /\ \A e \in Event : e.type \in {"drain", "complete"}
  /\ \A e \in Event : e.type = "complete" => e.completion \in Completion
<1>1. [type |-> "drain"] \in Event
  BY DEF Event
<1>2. \A c \in Completion : [type |-> "complete", completion |-> c] \in Event
  BY DEF Event
<1>3. \A e \in Event : e.type \in {"drain", "complete"}
  BY DEF Event
<1>4. \A e \in Event : e.type = "complete" => e.completion \in Completion
  BY DEF Event
<1>5. QED
  BY <1>1, <1>2, <1>3, <1>4

-----------------------------------------------------------------------------
(* Types *)

\* What schedule may change keeps its type.
LEMMA ScheduleType ==
  ASSUME TypeOK, Schedule
  PROVE  wake_pending' \in BOOLEAN /\ events' \in Seq(Event)
<1>1. Append(events, [type |-> "drain"]) \in Seq(Event)
  BY EventFacts DEF TypeOK
<1>2. wake_pending' \in BOOLEAN
  BY DEF TypeOK, Schedule
<1>3. events' = events \/ events' = Append(events, [type |-> "drain"])
  BY DEF Schedule
<1>4. QED
  BY <1>1, <1>2, <1>3 DEF TypeOK

\* What finish_active may change keeps its type.
LEMMA FinishActiveType ==
  ASSUME TypeOK, FinishActive
  PROVE  /\ active' = None /\ retired' \in Nat
         /\ message_count' \in Int /\ bytes' \in Int
         /\ peer_packets' \in [Peers -> Int]
         /\ maintenance_pending' \in BOOLEAN
<1>1. active \in Item
  BY DEF TypeOK, FinishActive
<1>2. active' = None /\ retired' \in Nat
  BY <1>1, ItemFacts DEF FinishActive
<1>3. ~active.maintenance => Bytes(active) \in Int
  BY <1>1, ItemFacts, ConstantsAssumption DEF Bytes
<1>4. message_count' \in Int /\ bytes' \in Int
  BY <1>3 DEF TypeOK, FinishActive
<1>5. peer_packets' \in [Peers -> Int]
  BY <1>1, ItemFacts DEF TypeOK, FinishActive
<1>6. maintenance_pending' \in BOOLEAN
  BY DEF TypeOK, FinishActive
<1>7. QED
  BY <1>2, <1>4, <1>5, <1>6

\* What finish_turn may change keeps its type.
LEMMA FinishTurnType ==
  ASSUME TypeOK, NEW waiting \in BOOLEAN, NEW posted \in Seq(Event),
         FinishTurn(waiting, posted)
  PROVE  /\ active' \in Item \cup {None} /\ retired' \in Nat
         /\ message_count' \in Int /\ bytes' \in Int
         /\ peer_packets' \in [Peers -> Int]
         /\ maintenance_pending' \in BOOLEAN
         /\ invoking' \in BOOLEAN /\ completion' \in Completion \cup {None}
         /\ events' \in Seq(Event)
         /\ owner' \in {"loop", "drain", "finished"}
<1>1. CASE completion # None /\ completion' = None
           /\ events' = Append(posted, [type |-> "complete", completion |-> completion])
           /\ owner' = Caller
           /\ UNCHANGED <<active, message_count, bytes, peer_packets,
                          maintenance_pending, retired>>
  <2>1. events' \in Seq(Event)
    BY <1>1, EventFacts DEF TypeOK
  <2>2. QED
    BY <1>1, <2>1 DEF TypeOK, FinishTurn, Caller
<1>2. CASE UNCHANGED <<active, message_count, bytes, peer_packets,
                       maintenance_pending, retired, completion>>
           /\ events' = posted /\ owner' = Caller
  BY <1>2 DEF TypeOK, FinishTurn, Caller
<1>3. CASE FinishActive /\ events' = posted /\ owner' = "finished"
           /\ UNCHANGED completion
  BY <1>3, FinishActiveType DEF TypeOK, FinishTurn
<1>4. QED
  BY <1>1, <1>2, <1>3 DEF FinishTurn

\* Every step keeps the type invariant.
LEMMA TypeStep ==
  ASSUME TypeOK, OwnerInv, WorkerInv, [Next]_vars
  PROVE  TypeOK'
<1> USE DEF TypeOK, lockVars, countVars, turnVars, workVars, ownerVars
<1>1. ASSUME NEW t \in Producers, NEW m \in Messages, NEW p \in Peers,
             Enqueue(t, m, p)
      PROVE  TypeOK'
  <2>1. queue' \in Seq(Item)
    <3>1. [id |-> next_id, message |-> m, peer |-> p, maintenance |-> FALSE] \in Item
      BY ItemFacts
    <3>2. QED
      BY <1>1, <3>1 DEF Enqueue
  <2>2. MessageSize[m] \in Int /\ PeerSize[p] \in Int /\ Hash[m] \in HashValues
    BY ConstantsAssumption DEF HashValues
  <2>3. bytes' \in Int /\ message_count' \in Int
    BY <1>1, <2>2 DEF Enqueue
  <2>4. queued_hashes' \in [HashValues -> Int] /\ peer_packets' \in [Peers -> Int]
    BY <1>1, <2>2, SMTT(30) DEF Enqueue
  <2>5. QED
    BY <1>1, <2>1, <2>3, <2>4 DEF Enqueue
<1>2. ASSUME NEW t \in Producers, NEW m \in Messages, NEW p \in Peers,
             EnqueueCopy(t, m, p)
      PROVE  TypeOK'
  BY <1>2 DEF EnqueueCopy
<1>3. ASSUME NEW t \in Producers, EnqueueMaintenance(t)
      PROVE  TypeOK'
  BY <1>3, ItemFacts DEF EnqueueMaintenance
<1>4. ASSUME NEW t \in Producers, ProducerSchedule(t)
      PROVE  TypeOK'
  BY <1>4, ScheduleType DEF ProducerSchedule
<1>5. CASE DrainBegin
  <2>1. events' \in Seq(Event)
    BY <1>5 DEF DrainBegin
  <2>2. drained' \in 0..Quantum
    BY <1>5, ConstantsAssumption DEF DrainBegin
  <2>3. /\ wake_pending' \in BOOLEAN /\ draining' \in BOOLEAN
        /\ owner' \in {"loop", "drain"}
        /\ UNCHANGED <<queue, countVars, active, turnVars, stopped, workVars,
                       stop_return, stage, retired, producer, next_id, owed>>
    BY <1>5 DEF DrainBegin
  <2>4. QED
    BY <2>1, <2>2, <2>3
<1>6. CASE Dispatch
  <2>1. queue # <<>> /\ Head(queue) \in Item /\ Tail(queue) \in Seq(Item)
    BY <1>6 DEF Dispatch, MayDispatch
  <2>2. queued_hashes' \in [HashValues -> Int]
    <3>1. CASE ~Head(queue).maintenance
      <4>1. Hash[Head(queue).message] \in HashValues
        BY <2>1, <3>1, ItemFacts DEF HashValues
      <4>2. QED
        BY <1>6, <4>1 DEF Dispatch
    <3>2. CASE Head(queue).maintenance
      BY <1>6, <3>2 DEF Dispatch
    <3>3. QED
      BY <3>1, <3>2
  <2>3. drained' \in 0..Quantum
    BY <1>6, ConstantsAssumption DEF Dispatch, MayDispatch
  <2>4. QED
    BY <1>6, <2>1, <2>2, <2>3, ZenonT(30) DEF Dispatch
<1>7. CASE DrainEnd
  <2>1. /\ draining' \in BOOLEAN /\ owner' = "drained"
        /\ UNCHANGED <<queue, countVars, active, wake_pending, turnVars, stopped,
                       workVars, events, drained, stop_return, stage, retired,
                       producer, next_id, owed>>
    BY <1>7 DEF DrainEnd
  <2>2. QED
    BY <2>1
<1>8. CASE DrainSchedule
  BY <1>8, ScheduleType DEF DrainSchedule
<1>9. CASE CallReturn
  BY <1>9, FinishTurnType DEF CallReturn
<1>10. CASE CallThrow
  BY <1>10, FinishTurnType DEF CallThrow
<1>11. CASE FinishSchedule
  BY <1>11, ScheduleType DEF FinishSchedule, Caller
<1>12. CASE Defer
  <2>1. active \in Item
    BY <1>12 DEF Defer, MayDefer, OwnerInv
  <2>2. [id |-> active.id, stage |-> stage + 1] \in Stage /\ stage + 1 \in Nat
    BY <2>1, ItemFacts, StageFacts
  <2>3. QED
    BY <1>12, <2>2 DEF Defer
<1>13. CASE Complete
  <2>1. Tail(events) \in Seq(Event)
    BY <1>13 DEF Complete
  <2>2. CASE FinishTurn(FALSE, Tail(events)) /\ active_failed' = TRUE
    BY <1>13, <2>1, <2>2, FinishTurnType DEF Complete
  <2>3. CASE /\ invoking' = TRUE /\ owner' = "call" /\ events' = Tail(events)
             /\ UNCHANGED <<active, message_count, bytes, peer_packets,
                       maintenance_pending, active_failed, completion, retired>>
    <3>1. invoking' \in BOOLEAN /\ deferred' \in BOOLEAN
      BY <1>13, <2>3 DEF Complete
    <3>2. UNCHANGED <<queue, queued_hashes, wake_pending, draining, stopped,
                         workVars, drained, stop_return, stage, producer,
                         next_id, owed>>
      BY <1>13 DEF Complete
    <3>3. /\ owner' = "call" /\ events' = Tail(events)
          /\ UNCHANGED <<active, message_count, bytes, peer_packets,
                         maintenance_pending, active_failed, completion, retired>>
      BY <2>3
    <3>4. QED
      BY <2>1, <3>1, <3>2, <3>3
  <2>4. QED
    BY <1>13, <2>2, <2>3 DEF Complete
<1>14. CASE CompleteStopped
  BY <1>14 DEF CompleteStopped
<1>15. CASE NestedEvent
  <2>1. Head(events) \in Event /\ Tail(events) \in Seq(Event)
    BY <1>15 DEF NestedEvent
  <2>2. completion' \in Completion \cup {None}
    BY <1>15, <2>1, EventFacts DEF NestedEvent
  <2>3. /\ wake_pending' \in BOOLEAN /\ events' = Tail(events)
        /\ UNCHANGED <<queue, countVars, active, draining, invoking, deferred,
                       active_failed, stopped, workVars, ownerVars, producer,
                       next_id, owed>>
    BY <1>15 DEF NestedEvent
  <2>4. QED
    BY <2>1, <2>2, <2>3
<1>16. CASE StopEnd
  <2>1. queue' \in Seq(Item) /\ active' \in Item \cup {None}
    BY <1>16 DEF StopEnd, ActiveAfterStop
  <2>2. queued_hashes' \in [HashValues -> Int] /\ peer_packets' \in [Peers -> Int]
    BY <1>16 DEF StopEnd
  <2>3. owner' \in {"loop", "call"} /\ owed' \subseteq Messages
    BY <1>16 DEF StopEnd
  <2>4. /\ maintenance_pending' \in BOOLEAN /\ wake_pending' \in BOOLEAN
        /\ deferred' \in BOOLEAN /\ completion' = None
        /\ message_count' = 0 /\ bytes' = 0
        /\ UNCHANGED <<draining, invoking, active_failed, stopped, workVars, events,
                       drained, stop_return, stage, retired, producer, next_id>>
    BY <1>16 DEF StopEnd
  <2>5. QED
    BY <2>1, <2>2, <2>3, <2>4
<1>17. CASE WorkerTake
  <2>1. running' \in Completion
    BY <1>17, StageFacts DEF WorkerTake
  <2>2. QED
    BY <1>17, <2>1 DEF WorkerTake
<1>18. CASE WorkerRun
  <2>1. running \in Completion
    BY <1>18 DEF WorkerRun, WorkerInv
  <2>2. running' \in Completion
    BY <1>18, <2>1, OutcomeFacts DEF WorkerRun
  <2>3. executed' \subseteq Stage
    BY <1>18, <2>1, StageFacts DEF WorkerRun
  <2>4. QED
    BY <1>18, <2>2, <2>3 DEF WorkerRun
<1>19. CASE WorkerPost
  BY <1>19, EventFacts DEF WorkerPost, WorkerInv
<1>20. CASE WorkerExit
  BY <1>20 DEF WorkerExit
<1>21. CASE StopBegin
  BY <1>21 DEF StopBegin
<1>22. CASE UNCHANGED vars
  BY <1>22 DEF vars
<1>23. QED
  BY <1>1, <1>2, <1>3, <1>4, <1>5, <1>6, <1>7, <1>8, <1>9, <1>10, <1>11, <1>12,
     <1>13, <1>14, <1>15, <1>16, <1>17, <1>18, <1>19, <1>20, <1>21, <1>22
  DEF Next, ProducerNext, OwnerStep, WorkerStep, EnqueueRefused

-----------------------------------------------------------------------------
(* One stage in flight *)

\* The positions of the posted calls of complete, for any list of posted calls.
CompletesOf(q) == { i \in DOMAIN q : q[i].type = "complete" }

\* OneStageInFlight, one place of the stage at a time.
StageInv ==
  ~stopped =>
    /\ deferred <=> \/ work # None \/ running # None \/ completion # None
                    \/ CompletesOf(events) # {}
    /\ work # None => running = None /\ completion = None /\ CompletesOf(events) = {}
    /\ running # None => completion = None /\ CompletesOf(events) = {}
    /\ completion # None => CompletesOf(events) = {}
    /\ \A i, j \in CompletesOf(events) : i = j
    /\ work # None => active # None /\ work.id = active.id
    /\ running # None => active # None /\ running.id = active.id
    /\ completion # None => active # None /\ completion.id = active.id
    /\ \A i \in CompletesOf(events) : active # None /\ events[i].completion.id = active.id

LEMMA StageInvIsOneStageInFlight ==
  ASSUME TypeOK
  PROVE  StageInv <=> OneStageInFlight
<1>1. \A i \in CompletesOf(events) : events[i].completion \in Completion
  BY EventFacts DEF CompletesOf, TypeOK
<1>2. Completes = CompletesOf(events)
  BY DEF Completes, CompletesOf
<1>3. /\ work # None => work \in InFlight
      /\ running # None => running \in InFlight
      /\ completion # None => completion \in InFlight
      /\ \A i \in CompletesOf(events) : events[i].completion \in InFlight
  BY <1>2 DEF InFlight
<1>4. \A x \in InFlight :
        \/ x = work /\ work # None
        \/ x = running /\ running # None
        \/ x = completion /\ completion # None
        \/ \E i \in CompletesOf(events) : x = events[i].completion
  BY <1>2 DEF InFlight
<1>5. InFlight # {} <=> \/ work # None \/ running # None \/ completion # None
                        \/ CompletesOf(events) # {}
  BY <1>3, <1>4
<1>6. (\A x \in InFlight : active # None /\ x.id = active.id)
      <=> /\ work # None => active # None /\ work.id = active.id
          /\ running # None => active # None /\ running.id = active.id
          /\ completion # None => active # None /\ completion.id = active.id
          /\ \A i \in CompletesOf(events) :
               active # None /\ events[i].completion.id = active.id
  BY <1>3, <1>4
<1>7. QED
  BY <1>2, <1>5, <1>6 DEF StageInv, OneStageInFlight

\* Posting drain adds no call of complete; posting complete adds one; running
\* the oldest call removes it.
LEMMA CompletesFacts ==
  ASSUME NEW q \in Seq(Event)
  PROVE  /\ LET d == Append(q, [type |-> "drain"]) IN
            CompletesOf(d) = CompletesOf(q) /\ \A i \in CompletesOf(q) : d[i] = q[i]
         /\ \A c \in Completion :
              LET d == Append(q, [type |-> "complete", completion |-> c]) IN
              /\ CompletesOf(d) = CompletesOf(q) \cup {Len(q) + 1}
              /\ \A i \in CompletesOf(q) : d[i] = q[i]
              /\ d[Len(q) + 1].completion = c
         /\ q # <<>> =>
              /\ \A i \in CompletesOf(Tail(q)) :
                   i + 1 \in CompletesOf(q) /\ Tail(q)[i] = q[i + 1] /\ i \in Nat /\ i # 0
              /\ Head(q).type = "complete" => 1 \in CompletesOf(q) /\ Head(q) = q[1]
              /\ Head(q).type = "drain" =>
                   \A i \in CompletesOf(q) : i - 1 \in CompletesOf(Tail(q))
<1> DEFINE d == Append(q, [type |-> "drain"])
<1>0. Len(q) \in Nat /\ DOMAIN q = 1..Len(q)
  OBVIOUS
<1>1. CompletesOf(d) = CompletesOf(q) /\ \A i \in CompletesOf(q) : d[i] = q[i]
  <2>1. [type |-> "drain"] \in Event
    BY EventFacts
  <2>2. DOMAIN d = 1..(Len(q) + 1) /\ d[Len(q) + 1].type = "drain"
        /\ \A i \in 1..Len(q) : d[i] = q[i]
    BY <2>1
  <2>3. QED
    BY <1>0, <2>2 DEF CompletesOf
<1>2. ASSUME NEW c \in Completion
      PROVE  LET e == Append(q, [type |-> "complete", completion |-> c]) IN
             /\ CompletesOf(e) = CompletesOf(q) \cup {Len(q) + 1}
             /\ \A i \in CompletesOf(q) : e[i] = q[i]
             /\ e[Len(q) + 1].completion = c
  <2> DEFINE e == Append(q, [type |-> "complete", completion |-> c])
  <2>1. [type |-> "complete", completion |-> c] \in Event
    BY EventFacts
  <2>2. DOMAIN e = 1..(Len(q) + 1)
        /\ e[Len(q) + 1] = [type |-> "complete", completion |-> c]
        /\ \A i \in 1..Len(q) : e[i] = q[i]
    BY <2>1
  <2> HIDE DEF e
  <2>3. CompletesOf(e) = CompletesOf(q) \cup {Len(q) + 1}
    BY <1>0, <2>2 DEF CompletesOf
  <2>4. \A i \in CompletesOf(q) : e[i] = q[i]
    BY <1>0, <2>2 DEF CompletesOf
  <2>5. e[Len(q) + 1].completion = c
    BY <2>2
  <2>6. QED
    BY <2>3, <2>4, <2>5 DEF e
<1>3. ASSUME q # <<>>
      PROVE  /\ \A i \in CompletesOf(Tail(q)) :
                  i + 1 \in CompletesOf(q) /\ Tail(q)[i] = q[i + 1] /\ i \in Nat /\ i # 0
             /\ Head(q).type = "complete" => 1 \in CompletesOf(q) /\ Head(q) = q[1]
             /\ Head(q).type = "drain" =>
                  \A i \in CompletesOf(q) : i - 1 \in CompletesOf(Tail(q))
  <2>1. Head(q) = q[1] /\ Len(q) # 0 /\ DOMAIN Tail(q) = 1..(Len(q) - 1)
        /\ \A i \in 1..(Len(q) - 1) : Tail(q)[i] = q[i + 1]
    BY <1>3
  <2>2. QED
    BY <1>0, <2>1 DEF CompletesOf
<1>4. QED
  BY <1>1, <1>2, <1>3

-----------------------------------------------------------------------------
(* The owner and the worker *)

\* Every step keeps OwnerInv: while the handler runs it has an active item.
LEMMA OwnerStepInv ==
  ASSUME TypeOK, OwnerInv, StageInv, [Next]_vars
  PROVE  OwnerInv'
<1> USE DEF TypeOK, OwnerInv
<1>1. ASSUME NEW t \in Producers, NEW m \in Messages, NEW p \in Peers, Enqueue(t, m, p)
      PROVE  OwnerInv'
  BY <1>1 DEF Enqueue, lockVars, countVars, turnVars, workVars, ownerVars
<1>2. ASSUME NEW t \in Producers, NEW m \in Messages, NEW p \in Peers, EnqueueCopy(t, m, p)
      PROVE  OwnerInv'
  BY <1>2 DEF EnqueueCopy, lockVars, countVars, turnVars, workVars, ownerVars
<1>3. ASSUME NEW t \in Producers, EnqueueMaintenance(t)
      PROVE  OwnerInv'
  BY <1>3 DEF EnqueueMaintenance, MaintenanceWanted, lockVars, countVars, turnVars, workVars, ownerVars
<1>4. ASSUME NEW t \in Producers, ProducerSchedule(t)
      PROVE  OwnerInv'
  BY <1>4 DEF ProducerSchedule, Schedule, lockVars, countVars, turnVars, workVars, ownerVars
<1>5. CASE DrainBegin
  BY <1>5 DEF DrainBegin, lockVars, countVars, turnVars, workVars, ownerVars
<1>6. CASE Dispatch
  <2>1. Head(queue) # None
    BY <1>6, ItemFacts DEF Dispatch, MayDispatch
  <2>2. QED
    BY <1>6, <2>1 DEF Dispatch, MayDispatch, lockVars, countVars, turnVars, workVars, ownerVars
<1>7. CASE DrainEnd
  BY <1>7 DEF DrainEnd, lockVars, countVars, turnVars, workVars, ownerVars
<1>8. CASE DrainSchedule
  BY <1>8 DEF DrainSchedule, Schedule, lockVars, countVars, turnVars, workVars, ownerVars
<1>9. CASE CallReturn
  BY <1>9 DEF CallReturn, FinishTurn, FinishActive, Caller, lockVars, countVars, turnVars, workVars, ownerVars
<1>10. CASE CallThrow
  BY <1>10 DEF CallThrow, FinishTurn, FinishActive, Caller, lockVars, countVars, turnVars, workVars, ownerVars
<1>11. CASE FinishSchedule
  BY <1>11 DEF FinishSchedule, Schedule, Caller, lockVars, countVars, turnVars, workVars, ownerVars
<1>12. CASE Defer
  BY <1>12 DEF Defer, MayDefer, lockVars, countVars, turnVars, workVars, ownerVars
<1>13. CASE Complete
  <2>1. active # None
    BY <1>13, CompletesFacts DEF Complete, MayDeliver, StageInv
  <2>2. QED
    BY <1>13, <2>1 DEF Complete, FinishTurn, FinishActive, Caller, lockVars, countVars, turnVars, workVars, ownerVars
<1>14. CASE CompleteStopped
  BY <1>14 DEF CompleteStopped, MayDeliver, lockVars, countVars, turnVars, workVars, ownerVars
<1>15. CASE NestedEvent
  BY <1>15 DEF NestedEvent, lockVars, countVars, turnVars, workVars, ownerVars
<1>16. CASE StopEnd
  BY <1>16 DEF StopEnd, ActiveAfterStop, lockVars, countVars, turnVars, workVars, ownerVars
<1>17. CASE WorkerTake
  BY <1>17 DEF WorkerTake, lockVars, countVars, turnVars, workVars, ownerVars
<1>18. CASE WorkerRun
  BY <1>18 DEF WorkerRun, lockVars, countVars, turnVars, workVars, ownerVars
<1>19. CASE WorkerPost
  BY <1>19 DEF WorkerPost, lockVars, countVars, turnVars, workVars, ownerVars
<1>20. CASE WorkerExit
  BY <1>20 DEF WorkerExit, MayExit, lockVars, countVars, turnVars, workVars, ownerVars
<1>21. CASE StopBegin
  BY <1>21 DEF StopBegin, lockVars, countVars, turnVars, workVars, ownerVars
<1>22. CASE UNCHANGED vars
  BY <1>22 DEF vars, lockVars, countVars, turnVars, workVars, ownerVars
<1>23. QED
  BY <1>1, <1>2, <1>3, <1>4, <1>5, <1>6, <1>7, <1>8, <1>9, <1>10, <1>11, <1>12,
     <1>13, <1>14, <1>15, <1>16, <1>17, <1>18, <1>19, <1>20, <1>21, <1>22
  DEF Next, ProducerNext, OwnerStep, WorkerStep, EnqueueRefused

\* Every step keeps WorkerInv: the worker leaves only when it has no work.
LEMMA WorkerStepInv ==
  ASSUME TypeOK, OwnerInv, WorkerInv, [Next]_vars
  PROVE  WorkerInv'
<1> USE DEF TypeOK, OwnerInv, WorkerInv
<1>1. ASSUME NEW t \in Producers, NEW m \in Messages, NEW p \in Peers, Enqueue(t, m, p)
      PROVE  WorkerInv'
  BY <1>1 DEF Enqueue, lockVars, countVars, turnVars, workVars, ownerVars
<1>2. ASSUME NEW t \in Producers, NEW m \in Messages, NEW p \in Peers, EnqueueCopy(t, m, p)
      PROVE  WorkerInv'
  BY <1>2 DEF EnqueueCopy, lockVars, countVars, turnVars, workVars, ownerVars
<1>3. ASSUME NEW t \in Producers, EnqueueMaintenance(t)
      PROVE  WorkerInv'
  BY <1>3 DEF EnqueueMaintenance, MaintenanceWanted, lockVars, countVars, turnVars, workVars, ownerVars
<1>4. ASSUME NEW t \in Producers, ProducerSchedule(t)
      PROVE  WorkerInv'
  BY <1>4 DEF ProducerSchedule, Schedule, lockVars, countVars, turnVars, workVars, ownerVars
<1>5. CASE DrainBegin
  BY <1>5 DEF DrainBegin, lockVars, countVars, turnVars, workVars, ownerVars
<1>6. CASE Dispatch
  BY <1>6 DEF Dispatch, MayDispatch, lockVars, countVars, turnVars, workVars, ownerVars
<1>7. CASE DrainEnd
  BY <1>7 DEF DrainEnd, lockVars, countVars, turnVars, workVars, ownerVars
<1>8. CASE DrainSchedule
  BY <1>8 DEF DrainSchedule, Schedule, lockVars, countVars, turnVars, workVars, ownerVars
<1>9. CASE CallReturn
  BY <1>9 DEF CallReturn, FinishTurn, FinishActive, Caller, lockVars, countVars, turnVars, workVars, ownerVars
<1>10. CASE CallThrow
  BY <1>10 DEF CallThrow, FinishTurn, FinishActive, Caller, lockVars, countVars, turnVars, workVars, ownerVars
<1>11. CASE FinishSchedule
  BY <1>11 DEF FinishSchedule, Schedule, Caller, lockVars, countVars, turnVars, workVars, ownerVars
<1>12. CASE Defer
  BY <1>12 DEF Defer, MayDefer, lockVars, countVars, turnVars, workVars, ownerVars
<1>13. CASE Complete
  BY <1>13 DEF Complete, MayDeliver, FinishTurn, FinishActive, Caller, lockVars, countVars, turnVars, workVars, ownerVars
<1>14. CASE CompleteStopped
  BY <1>14 DEF CompleteStopped, MayDeliver, lockVars, countVars, turnVars, workVars, ownerVars
<1>15. CASE NestedEvent
  BY <1>15 DEF NestedEvent, lockVars, countVars, turnVars, workVars, ownerVars
<1>16. CASE StopEnd
  BY <1>16 DEF StopEnd, ActiveAfterStop, lockVars, countVars, turnVars, workVars, ownerVars
<1>17. CASE WorkerTake
  <2>1. running' \in Completion
    BY <1>17, StageFacts DEF WorkerTake
  <2>2. running' # None
    BY <2>1, StageFacts
  <2>3. QED
    BY <1>17, <2>2 DEF WorkerTake, lockVars, countVars, turnVars, workVars, ownerVars
<1>18. CASE WorkerRun
  <2>1. running' \in Completion
    BY <1>18, OutcomeFacts DEF WorkerRun
  <2>2. running' # None
    BY <2>1, StageFacts
  <2>3. QED
    BY <1>18, <2>2 DEF WorkerRun, lockVars, countVars, turnVars, workVars, ownerVars
<1>19. CASE WorkerPost
  BY <1>19 DEF WorkerPost, lockVars, countVars, turnVars, workVars, ownerVars
<1>20. CASE WorkerExit
  BY <1>20 DEF WorkerExit, MayExit, lockVars, countVars, turnVars, workVars, ownerVars
<1>21. CASE StopBegin
  BY <1>21 DEF StopBegin, lockVars, countVars, turnVars, workVars, ownerVars
<1>22. CASE UNCHANGED vars
  BY <1>22 DEF vars, lockVars, countVars, turnVars, workVars, ownerVars
<1>23. QED
  BY <1>1, <1>2, <1>3, <1>4, <1>5, <1>6, <1>7, <1>8, <1>9, <1>10, <1>11, <1>12,
     <1>13, <1>14, <1>15, <1>16, <1>17, <1>18, <1>19, <1>20, <1>21, <1>22
  DEF Next, ProducerNext, OwnerStep, WorkerStep, EnqueueRefused

\* schedule posts no call of complete.
LEMMA ScheduleCompletes ==
  ASSUME TypeOK, Schedule
  PROVE  /\ CompletesOf(events') = CompletesOf(events)
         /\ \A i \in CompletesOf(events) : events'[i] = events[i]
<1>1. events' = events \/ events' = Append(events, [type |-> "drain"])
  BY DEF Schedule
<1>2. events \in Seq(Event)
  BY DEF TypeOK
<1>3. CASE events' = events
  BY <1>3
<1>4. CASE events' = Append(events, [type |-> "drain"])
  BY <1>2, <1>4, CompletesFacts
<1>5. QED
  BY <1>1, <1>3, <1>4

\* A stage that is in flight when a turn ends stays in flight, and the item is
\* retired only when there is none.
LEMMA FinishTurnStage ==
  ASSUME TypeOK, StageInv, FinishTurn(deferred, events),
         UNCHANGED <<deferred, work, running, stopped>>
  PROVE  StageInv'
<1>1. CASE /\ completion # None /\ completion' = None
           /\ events' = Append(events, [type |-> "complete", completion |-> completion])
           /\ active' = active
  <2>1. /\ CompletesOf(events') = CompletesOf(events) \cup {Len(events) + 1}
        /\ events'[Len(events) + 1].completion = completion
    BY <1>1, CompletesFacts DEF TypeOK
  <2>2. QED
    BY <1>1, <2>1 DEF StageInv
<1>2. CASE UNCHANGED <<completion, events, active>>
  BY <1>2 DEF StageInv
<1>3. CASE completion = None /\ ~deferred /\ UNCHANGED <<completion, events>>
  BY <1>3 DEF StageInv
<1>4. QED
  BY <1>1, <1>2, <1>3 DEF FinishTurn

\* Taking a call of drain from the event loop moves the calls of complete one
\* place forward and nothing else, so it keeps StageInv.
LEMMA DrainTakenStage ==
  ASSUME TypeOK, StageInv,
         UNCHANGED <<work, running, completion, deferred, stopped, active>>,
         events # <<>>, Head(events).type = "drain", events' = Tail(events)
  PROVE  StageInv'
<1>1. /\ \A i \in CompletesOf(events') :
           i + 1 \in CompletesOf(events) /\ events'[i] = events[i + 1] /\ i \in Nat
      /\ \A i \in CompletesOf(events) : i - 1 \in CompletesOf(events')
  BY CompletesFacts DEF TypeOK
<1>2. CompletesOf(events') = {} <=> CompletesOf(events) = {}
  BY <1>1
<1>3. SUFFICES ASSUME ~stopped
               PROVE  /\ \A i, j \in CompletesOf(events') : i = j
                      /\ \A i \in CompletesOf(events') :
                           active # None /\ events'[i].completion.id = active.id
  BY <1>2 DEF StageInv
<1>4. ASSUME NEW i \in CompletesOf(events'), NEW j \in CompletesOf(events')
      PROVE  i = j
  <2>1. i + 1 = j + 1 /\ i \in Nat /\ j \in Nat
    BY <1>1, <1>3 DEF StageInv
  <2>2. QED
    BY <2>1
<1>5. ASSUME NEW i \in CompletesOf(events')
      PROVE  active # None /\ events'[i].completion.id = active.id
  <2>1. i + 1 \in CompletesOf(events) /\ events'[i] = events[i + 1]
    BY <1>1
  <2>2. active # None /\ events[i + 1].completion.id = active.id
    BY <1>3, <2>1 DEF StageInv
  <2>3. QED
    BY <2>1, <2>2
<1>6. QED
  BY <1>4, <1>5

\* Every step keeps StageInv: a stage moves from work_ to the worker, to the
\* event loop, to completion_ and back to the event loop, alone.
LEMMA StageStepInv ==
  ASSUME TypeOK, OwnerInv, WorkerInv, StageInv, [Next]_vars
  PROVE  StageInv'
<1> USE DEF StageInv
<1>1. ASSUME NEW t \in Producers, NEW m \in Messages, NEW p \in Peers, Enqueue(t, m, p)
      PROVE  StageInv'
  BY <1>1 DEF Enqueue, lockVars, countVars, turnVars, workVars, ownerVars
<1>2. ASSUME NEW t \in Producers, NEW m \in Messages, NEW p \in Peers, EnqueueCopy(t, m, p)
      PROVE  StageInv'
  BY <1>2 DEF EnqueueCopy, lockVars, countVars, turnVars, workVars, ownerVars
<1>3. ASSUME NEW t \in Producers, EnqueueMaintenance(t)
      PROVE  StageInv'
  BY <1>3 DEF EnqueueMaintenance, MaintenanceWanted, lockVars, countVars, turnVars, workVars, ownerVars
<1>4. ASSUME NEW t \in Producers, ProducerSchedule(t)
      PROVE  StageInv'
  <2>1. /\ UNCHANGED <<work, running, completion, deferred, stopped, active>>
        /\ Schedule
    BY <1>4 DEF ProducerSchedule, lockVars, countVars, turnVars, workVars, ownerVars
  <2>2. QED
    BY <2>1, ScheduleCompletes
<1>5. CASE DrainBegin
  <2>1. /\ UNCHANGED <<work, running, completion, deferred, stopped, active>>
        /\ events # <<>> /\ Head(events).type = "drain" /\ events' = Tail(events)
    BY <1>5 DEF DrainBegin, lockVars, countVars, turnVars, workVars, ownerVars
  <2>2. QED
    BY <2>1, DrainTakenStage
<1>6. CASE Dispatch
  <2>1. /\ UNCHANGED <<work, running, completion, deferred, stopped, events>>
        /\ active = None
    BY <1>6 DEF Dispatch, MayDispatch, lockVars, countVars, turnVars, workVars, ownerVars
  <2>2. QED
    BY <2>1
<1>7. CASE DrainEnd
  BY <1>7 DEF DrainEnd, lockVars, countVars, turnVars, workVars, ownerVars
<1>8. CASE DrainSchedule
  <2>1. /\ UNCHANGED <<work, running, completion, deferred, stopped, active>>
        /\ Schedule
    BY <1>8 DEF DrainSchedule, lockVars, countVars, turnVars, workVars, ownerVars
  <2>2. QED
    BY <2>1, ScheduleCompletes
<1>9. CASE CallReturn
  <2>1. /\ UNCHANGED <<deferred, work, running, stopped>>
        /\ FinishTurn(deferred, events)
    BY <1>9 DEF CallReturn, lockVars, countVars, turnVars, workVars, ownerVars
  <2>2. QED
    BY <2>1, FinishTurnStage DEF StageInv
<1>10. CASE CallThrow
  <2>1. /\ UNCHANGED <<deferred, work, running, stopped>>
        /\ FinishTurn(deferred, events)
    BY <1>10 DEF CallThrow, lockVars, countVars, turnVars, workVars, ownerVars
  <2>2. QED
    BY <2>1, FinishTurnStage DEF StageInv
<1>11. CASE FinishSchedule
  <2>1. /\ UNCHANGED <<work, running, completion, deferred, stopped, active>>
        /\ Schedule
    BY <1>11 DEF FinishSchedule, lockVars, countVars, turnVars, workVars, ownerVars
  <2>2. QED
    BY <2>1, ScheduleCompletes
<1>12. CASE Defer
  <2>1. /\ ~stopped /\ ~deferred /\ work' = [id |-> active.id, stage |-> stage + 1]
        /\ deferred' = TRUE /\ active # None
        /\ UNCHANGED <<running, completion, stopped, active, events>>
    BY <1>12 DEF Defer, MayDefer, OwnerInv, lockVars, countVars, turnVars, workVars, ownerVars
  <2>2. work' # None
    BY <2>1, ItemFacts, StageFacts DEF TypeOK
  <2>3. QED
    BY <2>1, <2>2
<1>13. CASE Complete
  <2>1. /\ ~stopped /\ deferred' = FALSE /\ UNCHANGED <<work, running, stopped>>
        /\ events # <<>> /\ Head(events).type = "complete"
    BY <1>13 DEF Complete, MayDeliver, lockVars, countVars, turnVars, workVars, ownerVars
  <2>2. 1 \in CompletesOf(events)
    BY <2>1, CompletesFacts DEF TypeOK
  <2>3. work = None /\ running = None /\ completion = None
    BY <2>1, <2>2
  <2>4. events' = Tail(events) /\ completion' = completion
    BY <1>13, <2>3 DEF Complete, FinishTurn
  <2>5. CompletesOf(events') = {}
    BY <2>1, <2>2, <2>4, CompletesFacts DEF TypeOK
  <2>6. QED
    BY <2>1, <2>3, <2>4, <2>5
<1>14. CASE CompleteStopped
  BY <1>14 DEF CompleteStopped, MayDeliver, lockVars, countVars, turnVars, workVars, ownerVars
<1>15. CASE NestedEvent
  <2>1. /\ UNCHANGED <<work, running, deferred, stopped, active>>
        /\ events # <<>> /\ events' = Tail(events)
    BY <1>15 DEF NestedEvent, lockVars, countVars, turnVars, workVars, ownerVars
  <2>2. CASE Head(events).type = "drain"
    <3>1. completion' = completion
      BY <1>15, <2>2 DEF NestedEvent
    <3>2. QED
      BY <2>1, <2>2, <3>1, DrainTakenStage
  <2>3. CASE Head(events).type = "complete" /\ ~stopped
    <3>1. completion' = Head(events).completion
      BY <1>15, <2>3 DEF NestedEvent
    <3>2. 1 \in CompletesOf(events) /\ Head(events) = events[1]
      BY <2>1, <2>3, CompletesFacts DEF TypeOK
    <3>3. completion' \in Completion
      BY <2>1, <2>3, <3>1, EventFacts DEF TypeOK
    <3>4. completion' # None
      BY <3>3, StageFacts
    <3>5. CompletesOf(events') = {}
      BY <2>1, <2>3, <3>2, CompletesFacts DEF TypeOK
    <3>6. QED
      BY <2>1, <2>3, <3>1, <3>2, <3>4, <3>5
  <2>4. CASE stopped
    BY <2>1, <2>4
  <2>5. Head(events).type \in {"drain", "complete"}
    BY <2>1, EventFacts DEF TypeOK
  <2>6. QED
    BY <2>2, <2>3, <2>4, <2>5
<1>16. CASE StopEnd
  BY <1>16 DEF StopEnd, OwnerInv
<1>17. CASE WorkerTake
  <2>1. /\ work # None /\ work' = None /\ running'.id = work.id
        /\ UNCHANGED <<completion, deferred, stopped, active, events>>
    BY <1>17 DEF WorkerTake, lockVars, countVars, turnVars, workVars, ownerVars
  <2>2. running' \in Completion
    BY <1>17, StageFacts DEF WorkerTake, TypeOK
  <2>3. running' # None
    BY <2>2, StageFacts
  <2>4. QED
    BY <2>1, <2>3
<1>18. CASE WorkerRun
  <2>1. UNCHANGED <<work, completion, deferred, stopped, active, events>>
    BY <1>18 DEF WorkerRun, lockVars, countVars, turnVars, workVars, ownerVars
  <2>2. running # None /\ running' \in Completion /\ running'.id = running.id
    BY <1>18, OutcomeFacts DEF WorkerRun, WorkerInv, TypeOK
  <2>3. running' # None
    BY <2>2, StageFacts
  <2>4. QED
    BY <2>1, <2>2, <2>3
<1>19. CASE WorkerPost
  <2>1. /\ UNCHANGED <<work, completion, deferred, stopped, active>> /\ running' = None
        /\ running \in Completion /\ running # None
    BY <1>19 DEF WorkerPost, WorkerInv, TypeOK, lockVars, countVars, turnVars, workVars, ownerVars
  <2>2. CASE ~stopped
    <3>1. events' = Append(events, [type |-> "complete", completion |-> running])
      BY <1>19, <2>2 DEF WorkerPost
    <3>2. /\ CompletesOf(events') = CompletesOf(events) \cup {Len(events) + 1}
          /\ events'[Len(events) + 1].completion = running
      BY <2>1, <3>1, CompletesFacts DEF TypeOK
    <3>3. QED
      BY <2>1, <2>2, <3>2
  <2>3. QED
    BY <2>1, <2>2
<1>20. CASE WorkerExit
  BY <1>20 DEF WorkerExit, MayExit, lockVars, countVars, turnVars, workVars, ownerVars
<1>21. CASE StopBegin
  BY <1>21 DEF StopBegin, lockVars, countVars, turnVars, workVars, ownerVars
<1>22. CASE UNCHANGED vars
  BY <1>22 DEF vars, lockVars, countVars, turnVars, workVars, ownerVars
<1>23. QED
  BY <1>1, <1>2, <1>3, <1>4, <1>5, <1>6, <1>7, <1>8, <1>9, <1>10, <1>11, <1>12,
     <1>13, <1>14, <1>15, <1>16, <1>17, <1>18, <1>19, <1>20, <1>21, <1>22
  DEF Next, ProducerNext, OwnerStep, WorkerStep, EnqueueRefused

-----------------------------------------------------------------------------
(* Accepted stages are run *)

\* Every step keeps PromiseInv.
LEMMA PromiseStepInv ==
  ASSUME TypeOK, OwnerInv, WorkerInv, PromiseInv, [Next]_vars
  PROVE  PromiseInv'
<1> USE DEF PromiseInv
<1>1. ASSUME NEW t \in Producers, NEW m \in Messages, NEW p \in Peers, Enqueue(t, m, p)
      PROVE  PromiseInv'
  BY <1>1 DEF Enqueue, lockVars, countVars, turnVars, workVars, ownerVars
<1>2. ASSUME NEW t \in Producers, NEW m \in Messages, NEW p \in Peers, EnqueueCopy(t, m, p)
      PROVE  PromiseInv'
  BY <1>2 DEF EnqueueCopy, lockVars, countVars, turnVars, workVars, ownerVars
<1>3. ASSUME NEW t \in Producers, EnqueueMaintenance(t)
      PROVE  PromiseInv'
  BY <1>3 DEF EnqueueMaintenance, MaintenanceWanted, lockVars, countVars, turnVars, workVars, ownerVars
<1>4. ASSUME NEW t \in Producers, ProducerSchedule(t)
      PROVE  PromiseInv'
  BY <1>4 DEF ProducerSchedule, Schedule, lockVars, countVars, turnVars, workVars, ownerVars
<1>5. CASE DrainBegin
  BY <1>5 DEF DrainBegin, lockVars, countVars, turnVars, workVars, ownerVars
<1>6. CASE Dispatch
  BY <1>6 DEF Dispatch, MayDispatch, lockVars, countVars, turnVars, workVars, ownerVars
<1>7. CASE DrainEnd
  BY <1>7 DEF DrainEnd, lockVars, countVars, turnVars, workVars, ownerVars
<1>8. CASE DrainSchedule
  BY <1>8 DEF DrainSchedule, Schedule, lockVars, countVars, turnVars, workVars, ownerVars
<1>9. CASE CallReturn
  BY <1>9 DEF CallReturn, FinishTurn, FinishActive, Caller, lockVars, countVars, turnVars, workVars, ownerVars
<1>10. CASE CallThrow
  BY <1>10 DEF CallThrow, FinishTurn, FinishActive, Caller, lockVars, countVars, turnVars, workVars, ownerVars
<1>11. CASE FinishSchedule
  BY <1>11 DEF FinishSchedule, Schedule, Caller, lockVars, countVars, turnVars, workVars, ownerVars
<1>12. CASE Defer
  <2>1. /\ work = None /\ work' = [id |-> active.id, stage |-> stage + 1]
        /\ promised' = promised \cup {work'} /\ active \in Item
        /\ UNCHANGED <<worker, running, executed>>
    BY <1>12 DEF Defer, MayDefer, OwnerInv, TypeOK
  <2>2. work' # None
    BY <2>1, ItemFacts, StageFacts DEF TypeOK
  <2>3. QED
    BY <2>1, <2>2
<1>13. CASE Complete
  BY <1>13 DEF Complete, MayDeliver, FinishTurn, FinishActive, Caller, lockVars, countVars, turnVars, workVars, ownerVars
<1>14. CASE CompleteStopped
  BY <1>14 DEF CompleteStopped, MayDeliver, lockVars, countVars, turnVars, workVars, ownerVars
<1>15. CASE NestedEvent
  BY <1>15 DEF NestedEvent, lockVars, countVars, turnVars, workVars, ownerVars
<1>16. CASE StopEnd
  BY <1>16 DEF StopEnd, ActiveAfterStop, lockVars, countVars, turnVars, workVars, ownerVars
<1>17. CASE WorkerTake
  <2>1. /\ work \in Stage /\ work # None /\ work' = None
        /\ worker = "wait" /\ worker' = "run"
        /\ running' = [id |-> work.id, stage |-> work.stage, failed |-> FALSE]
        /\ UNCHANGED <<promised, executed>>
    BY <1>17 DEF WorkerTake, TypeOK
  <2>2. [id |-> running'.id, stage |-> running'.stage] = work
    BY <2>1 DEF Stage
  <2>3. QED
    BY <2>1, <2>2
<1>18. CASE WorkerRun
  BY <1>18 DEF WorkerRun, lockVars, countVars, turnVars, workVars, ownerVars
<1>19. CASE WorkerPost
  BY <1>19 DEF WorkerPost, lockVars, countVars, turnVars, workVars, ownerVars
<1>20. CASE WorkerExit
  BY <1>20 DEF WorkerExit, MayExit, lockVars, countVars, turnVars, workVars, ownerVars
<1>21. CASE StopBegin
  BY <1>21 DEF StopBegin, lockVars, countVars, turnVars, workVars, ownerVars
<1>22. CASE UNCHANGED vars
  BY <1>22 DEF vars, lockVars, countVars, turnVars, workVars, ownerVars
<1>23. QED
  BY <1>1, <1>2, <1>3, <1>4, <1>5, <1>6, <1>7, <1>8, <1>9, <1>10, <1>11, <1>12,
     <1>13, <1>14, <1>15, <1>16, <1>17, <1>18, <1>19, <1>20, <1>21, <1>22
  DEF Next, ProducerNext, OwnerStep, WorkerStep, EnqueueRefused

-----------------------------------------------------------------------------
(* Wakeups *)

\* The positions of the posted calls of drain, for any list of posted calls.
DrainsOf(q) == { i \in DOMAIN q : q[i].type = "drain" }

\* A running drain consumed the posted call, and none is posted while it runs:
\* the wake_pending of dispatch clears nothing.
WakeInv ==
  ~stopped =>
    /\ queue = <<>> \/ active # None \/ draining \/ wake_pending \/ ScheduleAhead
    /\ wake_pending <=> DrainsOf(events) # {}
    /\ \A i, j \in DrainsOf(events) : i = j
    /\ draining => ~wake_pending

\* Posting complete adds no call of drain; posting drain adds one; running the
\* oldest call removes it.
LEMMA DrainsFacts ==
  ASSUME NEW q \in Seq(Event)
  PROVE  /\ DrainsOf(Append(q, [type |-> "drain"])) = DrainsOf(q) \cup {Len(q) + 1}
         /\ \A c \in Completion :
              DrainsOf(Append(q, [type |-> "complete", completion |-> c])) = DrainsOf(q)
         /\ q # <<>> =>
              /\ \A i \in DrainsOf(Tail(q)) : i + 1 \in DrainsOf(q) /\ i \in Nat /\ i # 0
              /\ Head(q).type = "drain" => 1 \in DrainsOf(q)
              /\ Head(q).type = "complete" =>
                   \A i \in DrainsOf(q) : i - 1 \in DrainsOf(Tail(q))
<1>0. Len(q) \in Nat /\ DOMAIN q = 1..Len(q)
  OBVIOUS
<1>1. DrainsOf(Append(q, [type |-> "drain"])) = DrainsOf(q) \cup {Len(q) + 1}
  <2> DEFINE d == Append(q, [type |-> "drain"])
  <2>1. [type |-> "drain"] \in Event
    BY EventFacts
  <2>2. DOMAIN d = 1..(Len(q) + 1) /\ d[Len(q) + 1].type = "drain"
        /\ \A i \in 1..Len(q) : d[i] = q[i]
    BY <2>1
  <2>3. QED
    BY <1>0, <2>2 DEF DrainsOf
<1>2. ASSUME NEW c \in Completion
      PROVE  DrainsOf(Append(q, [type |-> "complete", completion |-> c])) = DrainsOf(q)
  <2> DEFINE e == Append(q, [type |-> "complete", completion |-> c])
  <2>1. [type |-> "complete", completion |-> c] \in Event
    BY EventFacts
  <2>2. DOMAIN e = 1..(Len(q) + 1)
        /\ e[Len(q) + 1].type = "complete"
        /\ \A i \in 1..Len(q) : e[i] = q[i]
    BY <2>1
  <2> HIDE DEF e
  <2>3. DrainsOf(e) = DrainsOf(q)
    BY <1>0, <2>2 DEF DrainsOf
  <2>4. QED
    BY <2>3 DEF e
<1>3. ASSUME q # <<>>
      PROVE  /\ \A i \in DrainsOf(Tail(q)) : i + 1 \in DrainsOf(q) /\ i \in Nat /\ i # 0
             /\ Head(q).type = "drain" => 1 \in DrainsOf(q)
             /\ Head(q).type = "complete" =>
                  \A i \in DrainsOf(q) : i - 1 \in DrainsOf(Tail(q))
  <2>1. Head(q) = q[1] /\ Len(q) # 0 /\ DOMAIN Tail(q) = 1..(Len(q) - 1)
        /\ \A i \in 1..(Len(q) - 1) : Tail(q)[i] = q[i + 1]
    BY <1>3
  <2>2. QED
    BY <1>0, <2>1 DEF DrainsOf
<1>4. QED
  BY <1>1, <1>2, <1>3

\* After schedule no item waits unattended, and a wakeup is posted at most once.
LEMMA ScheduleWakes ==
  ASSUME TypeOK, WakeInv, Schedule, UNCHANGED <<queue, active, draining, stopped>>
  PROVE  WakeInv'
<1>1. CASE UNCHANGED <<wake_pending, events>>
           /\ (stopped \/ wake_pending \/ draining \/ active # None \/ queue = <<>>)
  BY <1>1 DEF WakeInv
<1>2. CASE wake_pending' = TRUE /\ ~wake_pending /\ ~draining
           /\ events' = Append(events, [type |-> "drain"])
  <2>1. DrainsOf(events') = DrainsOf(events) \cup {Len(events) + 1}
    BY <1>2, DrainsFacts DEF TypeOK
  <2>2. QED
    BY <1>2, <2>1 DEF WakeInv
<1>3. QED
  BY <1>1, <1>2 DEF Schedule

\* A posted complete is no wakeup, and neither is running one.
LEMMA TailWakes ==
  ASSUME TypeOK, WakeInv, events # <<>>, Head(events).type = "complete", ~stopped
  PROVE  /\ DrainsOf(Tail(events)) # {} <=> wake_pending
         /\ \A i, j \in DrainsOf(Tail(events)) : i = j
<1>1. /\ \A i \in DrainsOf(Tail(events)) : i + 1 \in DrainsOf(events) /\ i \in Nat
      /\ \A i \in DrainsOf(events) : i - 1 \in DrainsOf(Tail(events))
  BY DrainsFacts DEF TypeOK
<1>2. DrainsOf(Tail(events)) = {} <=> DrainsOf(events) = {}
  BY <1>1
<1>3. \A i, j \in DrainsOf(Tail(events)) : i = j
  BY <1>1 DEF WakeInv
<1>4. QED
  BY <1>2, <1>3 DEF WakeInv

\* The oldest call was the only posted drain.
LEMMA TailSleeps ==
  ASSUME TypeOK, WakeInv, events # <<>>, Head(events).type = "drain", ~stopped
  PROVE  DrainsOf(Tail(events)) = {}
BY DrainsFacts DEF TypeOK, WakeInv

\* The end of a turn leaves the item active or has a schedule ahead.
LEMMA FinishTurnWakes ==
  ASSUME TypeOK, WakeInv, StageInv, active # None, NEW waiting \in BOOLEAN,
         NEW posted \in Seq(Event), FinishTurn(waiting, posted),
         DrainsOf(posted) # {} <=> wake_pending,
         \A i, j \in DrainsOf(posted) : i = j,
         UNCHANGED <<wake_pending, draining, stopped>>
  PROVE  WakeInv'
<1>1. DrainsOf(events') = DrainsOf(posted)
  <2>1. CASE events' = posted
    BY <2>1
  <2>2. CASE /\ completion # None
             /\ events' = Append(posted, [type |-> "complete", completion |-> completion])
    <3>1. completion \in Completion
      BY <2>2 DEF TypeOK
    <3>2. QED
      BY <2>2, <3>1, DrainsFacts
  <2>3. QED
    BY <2>1, <2>2 DEF FinishTurn
<1>2. active' # None \/ owner' = "finished"
  BY DEF FinishTurn
<1>3. QED
  BY <1>1, <1>2 DEF WakeInv, ScheduleAhead

\* Every step keeps WakeInv.
LEMMA WakeStepInv ==
  ASSUME TypeOK, OwnerInv, WorkerInv, StageInv, WakeInv, [Next]_vars
  PROVE  WakeInv'
<1> USE DEF WakeInv
<1>1. ASSUME NEW t \in Producers, NEW m \in Messages, NEW p \in Peers, Enqueue(t, m, p)
      PROVE  WakeInv'
  <2>1. /\ UNCHANGED <<active, draining, wake_pending, events, stopped>>
        /\ producer' = [producer EXCEPT ![t] = "queued"]
    BY <1>1 DEF Enqueue, lockVars, countVars, turnVars, workVars, ownerVars
  <2>2. producer'[t] = "queued"
    BY <2>1 DEF TypeOK
  <2>3. QED
    BY <2>1, <2>2 DEF ScheduleAhead
<1>2. ASSUME NEW t \in Producers, NEW m \in Messages, NEW p \in Peers, EnqueueCopy(t, m, p)
      PROVE  WakeInv'
  <2>1. UNCHANGED <<queue, active, draining, wake_pending, events, stopped, producer, owner>>
    BY <1>2 DEF EnqueueCopy, lockVars, countVars, turnVars, workVars, ownerVars
  <2>2. QED
    BY <2>1 DEF ScheduleAhead
<1>3. ASSUME NEW t \in Producers, EnqueueMaintenance(t)
      PROVE  WakeInv'
  <2>1. /\ UNCHANGED <<active, draining, wake_pending, events, stopped>>
        /\ producer' = [producer EXCEPT ![t] = "queued"]
    BY <1>3 DEF EnqueueMaintenance, lockVars, countVars, turnVars, workVars, ownerVars
  <2>2. producer'[t] = "queued"
    BY <2>1 DEF TypeOK
  <2>3. QED
    BY <2>1, <2>2 DEF ScheduleAhead
<1>4. ASSUME NEW t \in Producers, ProducerSchedule(t)
      PROVE  WakeInv'
  <2>1. UNCHANGED <<queue, active, draining, stopped>> /\ Schedule
    BY <1>4 DEF ProducerSchedule, lockVars, countVars, turnVars, workVars, ownerVars
  <2>2. QED
    BY <2>1, ScheduleWakes
<1>5. CASE DrainBegin
  <2>1. /\ events # <<>> /\ Head(events).type = "drain" /\ events' = Tail(events)
        /\ wake_pending' = FALSE /\ UNCHANGED <<queue, active, stopped>>
        /\ stopped \/ draining' \/ active # None
    BY <1>5 DEF DrainBegin, OwnerInv, lockVars, countVars, turnVars, workVars, ownerVars
  <2>2. QED
    BY <2>1, TailSleeps
<1>6. CASE Dispatch
  <2>1. /\ wake_pending' = FALSE /\ draining' = draining /\ draining
        /\ active' # None /\ UNCHANGED <<events, stopped>>
    BY <1>6, ItemFacts DEF Dispatch, MayDispatch, OwnerInv, TypeOK, lockVars, countVars, turnVars, workVars, ownerVars
  <2>2. QED
    BY <2>1
<1>7. CASE DrainEnd
  <2>1. /\ draining' = FALSE /\ owner' = "drained"
        /\ UNCHANGED <<queue, active, wake_pending, events, stopped>>
    BY <1>7 DEF DrainEnd, lockVars, countVars, turnVars, workVars, ownerVars
  <2>2. QED
    BY <2>1 DEF ScheduleAhead
<1>8. CASE DrainSchedule
  <2>1. UNCHANGED <<queue, active, draining, stopped>> /\ Schedule
    BY <1>8 DEF DrainSchedule, lockVars, countVars, turnVars, workVars, ownerVars
  <2>2. QED
    BY <2>1, ScheduleWakes
<1>9. CASE CallReturn
  <2>1. /\ UNCHANGED <<wake_pending, draining, stopped>>
        /\ FinishTurn(deferred, events) /\ active # None
    BY <1>9 DEF CallReturn, OwnerInv, lockVars, countVars, turnVars, workVars, ownerVars
  <2>2. CASE ~stopped
    BY <2>1, <2>2, FinishTurnWakes DEF TypeOK
  <2>3. QED
    BY <2>1, <2>2
<1>10. CASE CallThrow
  <2>1. /\ UNCHANGED <<wake_pending, draining, stopped>>
        /\ FinishTurn(deferred, events) /\ active # None
    BY <1>10 DEF CallThrow, OwnerInv, lockVars, countVars, turnVars, workVars, ownerVars
  <2>2. CASE ~stopped
    BY <2>1, <2>2, FinishTurnWakes DEF TypeOK
  <2>3. QED
    BY <2>1, <2>2
<1>11. CASE FinishSchedule
  <2>1. UNCHANGED <<queue, active, draining, stopped>> /\ Schedule
    BY <1>11 DEF FinishSchedule, lockVars, countVars, turnVars, workVars, ownerVars
  <2>2. QED
    BY <2>1, ScheduleWakes
<1>12. CASE Defer
  <2>1. UNCHANGED <<queue, active, draining, wake_pending, events, stopped, producer, owner>>
    BY <1>12 DEF Defer, lockVars, countVars, turnVars, workVars, ownerVars
  <2>2. QED
    BY <2>1 DEF ScheduleAhead
<1>13. CASE Complete
  <2>1. /\ ~stopped /\ events # <<>> /\ Head(events).type = "complete"
        /\ UNCHANGED <<queue, wake_pending, draining, stopped>>
    BY <1>13 DEF Complete, MayDeliver, lockVars, countVars, turnVars, workVars, ownerVars
  <2>2. /\ DrainsOf(Tail(events)) # {} <=> wake_pending
        /\ \A i, j \in DrainsOf(Tail(events)) : i = j
    BY <2>1, TailWakes
  <2>3. active # None
    BY <2>1, CompletesFacts DEF StageInv, TypeOK
  <2>4. Tail(events) \in Seq(Event)
    BY <2>1 DEF TypeOK
  <2>5. CASE FinishTurn(FALSE, Tail(events))
    BY <2>1, <2>2, <2>3, <2>4, <2>5, FinishTurnWakes
  <2>6. CASE events' = Tail(events) /\ active' = active
    BY <2>1, <2>2, <2>3, <2>6
  <2>7. QED
    BY <1>13, <2>5, <2>6 DEF Complete
<1>14. CASE CompleteStopped
  <2>1. stopped /\ stopped' = stopped
    BY <1>14 DEF CompleteStopped, MayDeliver
  <2>2. QED
    BY <2>1
<1>15. CASE NestedEvent
  <2>1. /\ events # <<>> /\ events' = Tail(events) /\ active # None
        /\ UNCHANGED <<queue, active, draining, stopped>>
    BY <1>15 DEF NestedEvent, OwnerInv, lockVars, countVars, turnVars, workVars, ownerVars
  <2>2. CASE Head(events).type = "drain" /\ wake_pending' = FALSE
    BY <2>1, <2>2, TailSleeps
  <2>3. CASE Head(events).type = "complete" /\ wake_pending' = wake_pending
    BY <2>1, <2>3, TailWakes
  <2>4. Head(events).type \in {"drain", "complete"}
    BY <2>1, EventFacts DEF TypeOK
  <2>5. QED
    BY <1>15, <2>2, <2>3, <2>4 DEF NestedEvent
<1>16. CASE StopEnd
  BY <1>16 DEF StopEnd, OwnerInv
<1>17. CASE WorkerTake
  <2>1. UNCHANGED <<queue, active, draining, wake_pending, events, stopped, producer, owner>>
    BY <1>17 DEF WorkerTake, lockVars, countVars, turnVars, workVars, ownerVars
  <2>2. QED
    BY <2>1 DEF ScheduleAhead
<1>18. CASE WorkerRun
  <2>1. UNCHANGED <<queue, active, draining, wake_pending, events, stopped, producer, owner>>
    BY <1>18 DEF WorkerRun, lockVars, countVars, turnVars, workVars, ownerVars
  <2>2. QED
    BY <2>1 DEF ScheduleAhead
<1>19. CASE WorkerPost
  <2>1. /\ UNCHANGED <<queue, active, draining, wake_pending, stopped, producer, owner>>
        /\ running \in Completion
    BY <1>19 DEF WorkerPost, WorkerInv, TypeOK, lockVars, countVars, turnVars, workVars, ownerVars
  <2>2. ~stopped => DrainsOf(events') = DrainsOf(events)
    BY <1>19, <2>1, DrainsFacts DEF WorkerPost, TypeOK
  <2>3. QED
    BY <2>1, <2>2 DEF ScheduleAhead
<1>20. CASE WorkerExit
  <2>1. UNCHANGED <<queue, active, draining, wake_pending, events, stopped, producer, owner>>
    BY <1>20 DEF WorkerExit, lockVars, countVars, turnVars, workVars, ownerVars
  <2>2. QED
    BY <2>1 DEF ScheduleAhead
<1>21. CASE StopBegin
  BY <1>21 DEF StopBegin
<1>22. CASE UNCHANGED vars
  BY <1>22 DEF ScheduleAhead, vars, lockVars, countVars, turnVars, workVars, ownerVars
<1>23. QED
  BY <1>1, <1>2, <1>3, <1>4, <1>5, <1>6, <1>7, <1>8, <1>9, <1>10, <1>11, <1>12,
     <1>13, <1>14, <1>15, <1>16, <1>17, <1>18, <1>19, <1>20, <1>21, <1>22
  DEF Next, ProducerNext, OwnerStep, WorkerStep, EnqueueRefused

-----------------------------------------------------------------------------
(* Order of service *)

\* finish_turn either leaves the active item or retires it.
LEMMA FinishTurnOrder ==
  ASSUME OrderInv, NEW waiting, NEW posted, FinishTurn(waiting, posted),
         UNCHANGED <<queue, next_id, stopped>>, TypeOK
  PROVE  OrderInv'
<1>1. CASE UNCHANGED <<active, retired>>
  BY <1>1 DEF OrderInv
<1>2. CASE active # None /\ active' = None /\ retired' = active.id
  <2>1. active.id \in Nat
    BY <1>2, ItemFacts DEF TypeOK
  <2>2. retired' = retired + 1 /\ retired \in Nat
    BY <1>2 DEF OrderInv, TypeOK
  <2>3. CASE ~stopped
    <3>1. /\ \A i \in DOMAIN queue : queue[i].id = retired + 1 + i
          /\ next_id = retired + 1 + Len(queue) + 1
      BY <1>2, <2>3 DEF OrderInv
    <3>2. /\ \A i \in DOMAIN queue' : queue'[i].id = retired' + 0 + i
          /\ next_id' = retired' + 0 + Len(queue') + 1
      BY <2>2, <3>1 DEF TypeOK
    <3>3. QED
      BY <1>2, <3>2 DEF OrderInv
  <2>4. QED
    BY <1>2, <2>3 DEF OrderInv
<1>3. QED
  BY <1>1, <1>2 DEF FinishTurn, FinishActive

\* Every step keeps OrderInv: ids leave the queue in the order they entered.
LEMMA OrderStepInv ==
  ASSUME TypeOK, OwnerInv, OrderInv, [Next]_vars
  PROVE  OrderInv'
<1> USE DEF OrderInv
<1>1. ASSUME NEW t \in Producers, NEW m \in Messages, NEW p \in Peers, Enqueue(t, m, p)
      PROVE  OrderInv'
  <2>1. /\ queue' = Append(queue, [id |-> next_id, message |-> m, peer |-> p, maintenance |-> FALSE])
        /\ next_id' = next_id + 1 /\ UNCHANGED <<active, retired, stopped>> /\ ~stopped
    BY <1>1 DEF Enqueue, MaintenanceWanted, lockVars, countVars, turnVars, workVars, ownerVars
  <2>2. [id |-> next_id, message |-> m, peer |-> p, maintenance |-> FALSE] \in Item
    BY ItemFacts DEF TypeOK
  <2>3. /\ Len(queue') = Len(queue) + 1 /\ Len(queue) \in Nat
        /\ DOMAIN queue' = 1..(Len(queue) + 1)
        /\ \A i \in 1..Len(queue) : queue'[i] = queue[i]
        /\ queue'[Len(queue) + 1].id = next_id
    BY <2>1, <2>2 DEF TypeOK
  <2>4. PICK b \in Nat : b = retired + (IF active = None THEN 0 ELSE 1)
    BY DEF TypeOK
  <2>5. /\ \A i \in 1..Len(queue) : queue[i].id = b + i
        /\ next_id = b + Len(queue) + 1
    BY <2>1, <2>4 DEF TypeOK
  <2>6. next_id' = b + Len(queue') + 1
    <3>1. next_id' = next_id + 1 /\ Len(queue') = Len(queue) + 1 /\ Len(queue) \in Nat
      BY <2>1, <2>3
    <3>2. QED
      BY <3>1, <2>5
  <2>7. ASSUME NEW i \in DOMAIN queue'
        PROVE  queue'[i].id = b + i
    <3>1. i \in 1..Len(queue) \/ i = Len(queue) + 1
      BY <2>3
    <3>2. CASE i \in 1..Len(queue)
      BY <3>2, <2>3, <2>5
    <3>3. CASE i = Len(queue) + 1
      <4>1. queue'[i].id = next_id /\ Len(queue) \in Nat
        BY <3>3, <2>3
      <4>2. QED
        BY <4>1, <3>3, <2>5
    <3>4. QED
      BY <3>1, <3>2, <3>3
  <2>8. QED
    BY <2>1, <2>4, <2>6, <2>7
<1>2. ASSUME NEW t \in Producers, NEW m \in Messages, NEW p \in Peers, EnqueueCopy(t, m, p)
      PROVE  OrderInv'
  BY <1>2 DEF EnqueueCopy, lockVars, countVars, turnVars, workVars, ownerVars
<1>3. ASSUME NEW t \in Producers, EnqueueMaintenance(t)
      PROVE  OrderInv'
  <2>1. /\ queue' = Append(queue, [id |-> next_id, message |-> None, peer |-> None, maintenance |-> TRUE])
        /\ next_id' = next_id + 1 /\ UNCHANGED <<active, retired, stopped>> /\ ~stopped
    BY <1>3 DEF EnqueueMaintenance, MaintenanceWanted, lockVars, countVars, turnVars, workVars, ownerVars
  <2>2. [id |-> next_id, message |-> None, peer |-> None, maintenance |-> TRUE] \in Item
    BY ItemFacts DEF TypeOK
  <2>3. /\ Len(queue') = Len(queue) + 1 /\ Len(queue) \in Nat
        /\ DOMAIN queue' = 1..(Len(queue) + 1)
        /\ \A i \in 1..Len(queue) : queue'[i] = queue[i]
        /\ queue'[Len(queue) + 1].id = next_id
    BY <2>1, <2>2 DEF TypeOK
  <2>4. PICK b \in Nat : b = retired + (IF active = None THEN 0 ELSE 1)
    BY DEF TypeOK
  <2>5. /\ \A i \in 1..Len(queue) : queue[i].id = b + i
        /\ next_id = b + Len(queue) + 1
    BY <2>1, <2>4 DEF TypeOK
  <2>6. next_id' = b + Len(queue') + 1
    <3>1. next_id' = next_id + 1 /\ Len(queue') = Len(queue) + 1 /\ Len(queue) \in Nat
      BY <2>1, <2>3
    <3>2. QED
      BY <3>1, <2>5
  <2>7. ASSUME NEW i \in DOMAIN queue'
        PROVE  queue'[i].id = b + i
    <3>1. i \in 1..Len(queue) \/ i = Len(queue) + 1
      BY <2>3
    <3>2. CASE i \in 1..Len(queue)
      BY <3>2, <2>3, <2>5
    <3>3. CASE i = Len(queue) + 1
      <4>1. queue'[i].id = next_id /\ Len(queue) \in Nat
        BY <3>3, <2>3
      <4>2. QED
        BY <4>1, <3>3, <2>5
    <3>4. QED
      BY <3>1, <3>2, <3>3
  <2>8. QED
    BY <2>1, <2>4, <2>6, <2>7
<1>4. ASSUME NEW t \in Producers, ProducerSchedule(t)
      PROVE  OrderInv'
  BY <1>4 DEF ProducerSchedule, Schedule, lockVars, countVars, turnVars, workVars, ownerVars
<1>5. CASE DrainBegin
  BY <1>5 DEF DrainBegin, lockVars, countVars, turnVars, workVars, ownerVars
<1>6. CASE Dispatch
  <2>1. /\ active = None /\ queue # <<>> /\ active' = Head(queue) /\ queue' = Tail(queue)
        /\ ~stopped /\ UNCHANGED <<next_id, stopped, retired>>
    BY <1>6 DEF Dispatch, MayDispatch, lockVars, countVars, turnVars, workVars, ownerVars
  <2>2. /\ Head(queue) = queue[1] /\ Head(queue) \in Item
        /\ Len(queue) \in Nat \ {0} /\ DOMAIN queue = 1..Len(queue)
        /\ DOMAIN Tail(queue) = 1..(Len(queue) - 1) /\ Len(Tail(queue)) = Len(queue) - 1
        /\ \A i \in 1..(Len(queue) - 1) : Tail(queue)[i] = queue[i + 1]
    BY <2>1 DEF TypeOK
  <2>3. Head(queue) # None
    BY <2>2, ItemFacts
  <2>4. QED
    BY <2>1, <2>2, <2>3 DEF TypeOK
<1>7. CASE DrainEnd
  BY <1>7 DEF DrainEnd, lockVars, countVars, turnVars, workVars, ownerVars
<1>8. CASE DrainSchedule
  BY <1>8 DEF DrainSchedule, Schedule, lockVars, countVars, turnVars, workVars, ownerVars
<1>9. CASE CallReturn
  <2>1. UNCHANGED <<queue, next_id, stopped>> /\ FinishTurn(deferred, events)
    BY <1>9 DEF CallReturn, lockVars, countVars, turnVars, workVars, ownerVars
  <2>2. QED
    BY <2>1, FinishTurnOrder DEF OrderInv
<1>10. CASE CallThrow
  <2>1. UNCHANGED <<queue, next_id, stopped>> /\ FinishTurn(deferred, events)
    BY <1>10 DEF CallThrow, lockVars, countVars, turnVars, workVars, ownerVars
  <2>2. QED
    BY <2>1, FinishTurnOrder DEF OrderInv
<1>11. CASE FinishSchedule
  BY <1>11 DEF FinishSchedule, Schedule, Caller, lockVars, countVars, turnVars, workVars, ownerVars
<1>12. CASE Defer
  BY <1>12 DEF Defer, MayDefer, lockVars, countVars, turnVars, workVars, ownerVars
<1>13. CASE Complete
  <2>1. UNCHANGED <<queue, next_id, stopped>>
    BY <1>13 DEF Complete, lockVars, countVars, turnVars, workVars, ownerVars
  <2>2. CASE FinishTurn(FALSE, Tail(events))
    BY <2>1, <2>2, FinishTurnOrder DEF OrderInv
  <2>3. CASE UNCHANGED <<active, retired>>
    BY <2>1, <2>3
  <2>4. QED
    BY <1>13, <2>2, <2>3 DEF Complete
<1>14. CASE CompleteStopped
  BY <1>14 DEF CompleteStopped, MayDeliver, lockVars, countVars, turnVars, workVars, ownerVars
<1>15. CASE NestedEvent
  BY <1>15 DEF NestedEvent, lockVars, countVars, turnVars, workVars, ownerVars
<1>16. CASE StopEnd
  <2>1. stopped' /\ (active' = active \/ active' = None) /\ retired' = retired
    BY <1>16 DEF StopEnd, ActiveAfterStop, OwnerInv
  <2>2. QED
    BY <2>1
<1>17. CASE WorkerTake
  BY <1>17 DEF WorkerTake, lockVars, countVars, turnVars, workVars, ownerVars
<1>18. CASE WorkerRun
  BY <1>18 DEF WorkerRun, lockVars, countVars, turnVars, workVars, ownerVars
<1>19. CASE WorkerPost
  BY <1>19 DEF WorkerPost, lockVars, countVars, turnVars, workVars, ownerVars
<1>20. CASE WorkerExit
  BY <1>20 DEF WorkerExit, MayExit, lockVars, countVars, turnVars, workVars, ownerVars
<1>21. CASE StopBegin
  BY <1>21 DEF StopBegin, lockVars, countVars, turnVars, workVars, ownerVars
<1>22. CASE UNCHANGED vars
  BY <1>22 DEF vars, lockVars, countVars, turnVars, workVars, ownerVars
<1>23. QED
  BY <1>1, <1>2, <1>3, <1>4, <1>5, <1>6, <1>7, <1>8, <1>9, <1>10, <1>11, <1>12,
     <1>13, <1>14, <1>15, <1>16, <1>17, <1>18, <1>19, <1>20, <1>21, <1>22
  DEF Next, ProducerNext, OwnerStep, WorkerStep, EnqueueRefused

-----------------------------------------------------------------------------
(* The theorems *)

\* The inductive invariant.
IInv ==
  /\ TypeOK
  /\ OwnerInv
  /\ WorkerInv
  /\ StageInv
  /\ PromiseInv
  /\ WakeInv
  /\ OrderInv

LEMMA InitIInv ==
  ASSUME Init
  PROVE  IInv
<1> USE DEF Init
<1>1. TypeOK
  <2>1. queue \in Seq(Item) /\ events \in Seq(Event) /\ drained \in 0..Quantum
    BY ConstantsAssumption
  <2>2. /\ queued_hashes \in [HashValues -> Int] /\ peer_packets \in [Peers -> Int]
        /\ producer \in [Producers -> {"idle", "queued"}]
    OBVIOUS
  <2>3. /\ maintenance_pending \in BOOLEAN /\ wake_pending \in BOOLEAN
        /\ draining \in BOOLEAN /\ invoking \in BOOLEAN /\ deferred \in BOOLEAN
        /\ active_failed \in BOOLEAN /\ stopped \in BOOLEAN
    OBVIOUS
  <2>4. /\ active = None /\ completion = None /\ work = None /\ running = None
        /\ message_count = 0 /\ bytes = 0 /\ owner = "loop" /\ worker = "wait"
        /\ stop_return = "loop" /\ next_id = 1 /\ retired = 0 /\ stage = 0
        /\ promised = {} /\ executed = {} /\ owed = {}
    OBVIOUS
  <2> HIDE DEF Init
  <2>5. QED
    BY <2>1, <2>2, <2>3, <2>4 DEF TypeOK
<1>2. OwnerInv /\ WorkerInv /\ PromiseInv
  BY DEF OwnerInv, WorkerInv, PromiseInv
<1>3. StageInv
  BY DEF StageInv, CompletesOf
<1>4. WakeInv
  BY DEF WakeInv, DrainsOf
<1>5. OrderInv
  BY DEF OrderInv
<1>6. QED
  BY <1>1, <1>2, <1>3, <1>4, <1>5 DEF IInv

LEMMA StepIInv ==
  ASSUME IInv, [Next]_vars
  PROVE  IInv'
<1>1. TypeOK'
  BY TypeStep DEF IInv
<1>2. OwnerInv'
  BY OwnerStepInv DEF IInv
<1>3. WorkerInv'
  BY WorkerStepInv DEF IInv
<1>4. StageInv'
  BY StageStepInv DEF IInv
<1>5. PromiseInv'
  BY PromiseStepInv DEF IInv
<1>6. WakeInv'
  BY WakeStepInv DEF IInv
<1>7. OrderInv'
  BY OrderStepInv DEF IInv
<1>8. QED
  BY <1>1, <1>2, <1>3, <1>4, <1>5, <1>6, <1>7 DEF IInv

\* The inductive invariant holds in every reachable state of the queue.
THEOREM Invariance == Spec => []IInv
<1>1. Init => IInv
  BY InitIInv
<1>2. IInv /\ [Next]_vars => IInv'
  BY StepIInv
<1>3. QED
  BY <1>1, <1>2, PTL DEF Spec

\* Every variable of the receive queue keeps its type.
THEOREM TypeCorrect == Spec => []TypeOK
<1>1. IInv => TypeOK
  BY DEF IInv
<1>2. QED
  BY <1>1, Invariance, PTL

\* A packet is never served before the deferred SQL stages of the one before
\* it, and a deferred stage is never run or delivered twice: it is in exactly
\* one of work_, the worker, the event loop and completion_.
THEOREM StagesSerialised == Spec => []OneStageInFlight
<1>1. IInv => OneStageInFlight
  BY StageInvIsOneStageInFlight DEF IInv
<1>2. QED
  BY <1>1, Invariance, PTL

\* enqueue, drain and finish_active never leave an item waiting without a
\* wakeup, and schedule never posts two.
THEOREM WakeupsNotLost == Spec => []NoLostWakeup
<1>1. IInv => NoLostWakeup
  BY DEF IInv, WakeInv, NoLostWakeup, Drains, DrainsOf
<1>2. QED
  BY <1>1, Invariance, PTL

\* The item a running handler borrows is not destroyed by finish_turn or stop.
THEOREM BorrowSafe == Spec => []BorrowedItemStays
<1>1. IInv => BorrowedItemStays
  BY DEF IInv, OwnerInv, BorrowedItemStays
<1>2. QED
  BY <1>1, Invariance, PTL

\* When stop returns, the worker has run every stage that defer accepted.
THEOREM StopCompletesWork == Spec => []StopJoinsAcceptedWork
<1>1. IInv => StopJoinsAcceptedWork
  BY DEF IInv, WorkerInv, PromiseInv, StopJoinsAcceptedWork
<1>2. QED
  BY <1>1, Invariance, PTL

\* Items are retired in the order they were queued and none is skipped.
THEOREM ServedInOrder == Spec => RetiredInOrder
<1>1. IInv /\ [Next]_vars => [retired' # retired => retired' = retired + 1]_vars
  <2> SUFFICES ASSUME IInv, Next, retired' # retired
               PROVE  retired' = retired + 1
    BY DEF vars, ownerVars
  <2>1. active # None /\ retired' = active.id
    BY ZenonT(30) DEF Next, ProducerNext, OwnerStep, WorkerStep, EnqueueRefused, vars,
           Enqueue, EnqueueCopy, EnqueueMaintenance, ProducerSchedule,
           DrainBegin, Dispatch, DrainEnd, DrainSchedule, CallReturn, CallThrow,
           FinishSchedule, Defer, Complete, CompleteStopped, NestedEvent,
           StopEnd, WorkerTake, WorkerRun, WorkerPost, WorkerExit, StopBegin,
           FinishTurn, FinishActive, ownerVars
  <2>2. QED
    BY <2>1 DEF IInv, OrderInv
<1>2. QED
  BY <1>1, Invariance, PTL DEF Spec, RetiredInOrder

\* Once stopped, dispatch and complete start no handler and no continuation.
THEOREM QuietAfterStop == Spec => NothingStartsAfterStop
<1>1. [Next]_vars => [stopped /\ ~invoking => ~invoking']_vars
  <2> SUFFICES ASSUME Next, stopped, ~invoking
               PROVE  ~invoking'
    BY DEF vars, turnVars
  <2>1. QED
    BY ZenonT(30) DEF Next, ProducerNext, OwnerStep, WorkerStep, EnqueueRefused, vars,
           Enqueue, EnqueueCopy, EnqueueMaintenance, ProducerSchedule,
           DrainBegin, Dispatch, DrainEnd, DrainSchedule, CallReturn, CallThrow,
           FinishSchedule, Defer, Complete, CompleteStopped, NestedEvent,
           StopEnd, WorkerTake, WorkerRun, WorkerPost, WorkerExit, StopBegin,
           FinishTurn, FinishActive, turnVars, MayDispatch, MayDeliver
<1>2. QED
  BY <1>1, PTL DEF Spec, NothingStartsAfterStop

-----------------------------------------------------------------------------
(* Accepted messages *)

\* Every step keeps AcceptedIsWaiting: an accepted message leaves the queue by
\* its dispatch, or with everything else when stop discards the backlog.
LEMMA AcceptedStep ==
  ASSUME TypeOK, AcceptedIsWaiting, [Next]_vars
  PROVE  AcceptedIsWaiting'
<1> USE DEF AcceptedIsWaiting
<1>1. ASSUME NEW x \in Item, queue' = Append(queue, x), UNCHANGED stopped,
             owed' = IF x.maintenance THEN owed ELSE owed \cup {x.message}
      PROVE  AcceptedIsWaiting'
  <2>1. /\ \A i \in DOMAIN queue : i \in DOMAIN queue' /\ queue'[i] = queue[i]
        /\ Len(queue) + 1 \in DOMAIN queue' /\ queue'[Len(queue) + 1] = x
    BY <1>1 DEF TypeOK
  <2>2. QED
    BY <1>1, <2>1
<1>2. ASSUME NEW t \in Producers, NEW m \in Messages, NEW p \in Peers, Enqueue(t, m, p)
      PROVE  AcceptedIsWaiting'
  <2> DEFINE x == [id |-> next_id, message |-> m, peer |-> p, maintenance |-> FALSE]
  <2>1. x \in Item /\ ~x.maintenance /\ x.message = m
    BY ItemFacts DEF TypeOK
  <2>2. queue' = Append(queue, x) /\ owed' = owed \cup {m} /\ UNCHANGED stopped
    BY <1>2 DEF Enqueue
  <2>3. QED
    BY <1>1, <2>1, <2>2
<1>3. ASSUME NEW t \in Producers, EnqueueMaintenance(t)
      PROVE  AcceptedIsWaiting'
  <2> DEFINE x == [id |-> next_id, message |-> None, peer |-> None, maintenance |-> TRUE]
  <2>1. x \in Item /\ x.maintenance
    BY ItemFacts DEF TypeOK
  <2>2. queue' = Append(queue, x) /\ owed' = owed /\ UNCHANGED stopped
    BY <1>3 DEF EnqueueMaintenance
  <2>3. QED
    BY <1>1, <2>1, <2>2
<1>4. ASSUME NEW t \in Producers, NEW m \in Messages, NEW p \in Peers, EnqueueCopy(t, m, p)
      PROVE  AcceptedIsWaiting'
  BY <1>4 DEF EnqueueCopy, AlreadyWaiting, lockVars
<1>5. CASE Dispatch
  <2>1. /\ queue # <<>> /\ queue' = Tail(queue) /\ UNCHANGED stopped
        /\ owed' = owed \ {Head(queue).message}
    BY <1>5 DEF Dispatch, MayDispatch
  <2>2. /\ Head(queue) = queue[1] /\ DOMAIN queue = 1..Len(queue) /\ Len(queue) \in Nat \ {0}
        /\ DOMAIN Tail(queue) = 1..(Len(queue) - 1)
        /\ \A i \in 1..(Len(queue) - 1) : Tail(queue)[i] = queue[i + 1]
    BY <2>1 DEF TypeOK
  <2>3. ASSUME ~stopped', NEW m \in owed'
        PROVE  \E i \in DOMAIN queue' : queue'[i].message = m
    <3>1. PICK j \in DOMAIN queue : queue[j].message = m
      BY <2>1, <2>3
    <3>2. j # 1
      BY <2>1, <2>2, <2>3, <3>1
    <3>3. j - 1 \in 1..(Len(queue) - 1) /\ (j - 1) + 1 = j
      BY <2>2, <3>1, <3>2
    <3>4. queue'[j - 1] = queue[j] /\ j - 1 \in DOMAIN queue'
      BY <2>1, <2>2, <3>3
    <3>5. QED
      BY <3>1, <3>4
  <2>4. QED
    BY <2>3
<1>6. CASE StopEnd
  BY <1>6 DEF StopEnd
<1>7. CASE StopBegin
  BY <1>7 DEF StopBegin
<1>8. CASE UNCHANGED <<queue, owed, stopped>>
  BY <1>8
<1>9. QED
  BY <1>2, <1>3, <1>4, <1>5, <1>6, <1>7, <1>8
  DEF Next, ProducerNext, OwnerStep, WorkerStep, EnqueueRefused, vars, lockVars,
      ProducerSchedule, DrainBegin, DrainEnd, DrainSchedule, CallReturn, CallThrow,
      FinishSchedule, Defer, Complete, CompleteStopped, NestedEvent, WorkerTake,
      WorkerRun, WorkerPost, WorkerExit

-----------------------------------------------------------------------------
(* The serial receiver *)

\* No stage is run twice: the stages of the active item are numbered by the
\* order of defer, one waits or runs at a time, and items retired before had
\* smaller ids.  (Until the worker has left, which it does last of all.)
FreshInv ==
  worker # "exited" =>
    /\ \A x \in executed :
         \/ x.id <= retired
         \/ active # None /\ x.id = active.id /\ x.stage <= stage
    /\ work # None =>
         /\ worker = "wait"
         /\ active # None /\ work.id = active.id /\ work.stage = stage
         /\ work \notin executed
    /\ worker = "run" =>
         /\ active # None /\ running.id = active.id /\ running.stage = stage
         /\ [id |-> running.id, stage |-> running.stage] \notin executed
    /\ work # None \/ worker = "run" => stage >= 1
    /\ stage <= MaxStages

\* finish_turn retires an item when none of its stages waits or runs.
LEMMA FinishTurnFresh ==
  ASSUME IInv, FreshInv, NEW waiting, NEW posted, FinishTurn(waiting, posted),
         ~waiting => work = None /\ running = None,
         UNCHANGED <<workVars, stage>>
  PROVE  FreshInv'
<1>1. CASE UNCHANGED <<active, retired>>
  BY <1>1 DEF FreshInv, workVars
<1>2. CASE FinishActive /\ ~waiting
  <2>1. /\ active # None /\ active' = None /\ retired' = active.id
        /\ active.id = retired + 1 /\ retired \in Nat
    BY <1>2 DEF FinishActive, IInv, OrderInv, TypeOK
  <2>2. work = None /\ worker # "run"
    BY <1>2 DEF IInv, WorkerInv
  <2>3. \A x \in executed : x.id \in Nat
    BY StageFacts DEF IInv, TypeOK
  <2>4. QED
    BY <2>1, <2>2, <2>3 DEF FreshInv, workVars
<1>3. QED
  BY <1>1, <1>2 DEF FinishTurn

\* Every step keeps FreshInv.
LEMMA FreshStep ==
  ASSUME IInv, FreshInv, [Next]_vars
  PROVE  FreshInv'
<1> USE DEF FreshInv
<1>1. /\ \A x \in executed : x \in Stage /\ x.id \in Nat /\ x.stage \in Nat
      /\ stage \in Nat /\ retired \in Nat
      /\ worker \in {"wait", "run", "post", "exited"}
      /\ active # None => active.id = retired + 1
      /\ running # None <=> worker \in {"run", "post"}
      /\ worker = "exited" => work = None
      /\ stopped /\ owner # "join" => worker = "exited"
  BY StageFacts DEF IInv, TypeOK, OrderInv, WorkerInv
<1>2. CASE Dispatch
  <2>1. active = None /\ ~stopped /\ queue # <<>>
    BY <1>2 DEF Dispatch, MayDispatch
  <2>2. /\ active' = Head(queue) /\ stage' = 0
        /\ UNCHANGED <<retired, work, worker, running, executed>>
    BY <1>2 DEF Dispatch, workVars
  <2>3. MaxStages \in Nat
    BY ConstantsAssumption
  <2>4. QED
    BY <1>1, <2>1, <2>2, <2>3
<1>3. CASE CallReturn \/ CallThrow
  <2>1. FinishTurn(deferred, events) /\ UNCHANGED <<workVars, stage>> /\ owner = "call"
    BY <1>3 DEF CallReturn, CallThrow
  <2>2. ~stopped => (~deferred => work = None /\ running = None)
    BY DEF IInv, StageInv
  <2>3. CASE ~stopped
    BY <2>1, <2>2, <2>3, FinishTurnFresh
  <2>4. CASE stopped
    <3>1. worker' = "exited"
      BY <1>1, <2>1, <2>4 DEF workVars
    <3>2. QED
      BY <3>1
  <2>5. QED
    BY <2>3, <2>4
<1>4. CASE Complete
  <2>1. /\ ~stopped /\ events # <<>> /\ Head(events).type = "complete"
        /\ UNCHANGED <<workVars, stage>>
    BY <1>4 DEF Complete, MayDeliver
  <2>2. CompletesOf(events) # {}
    BY <2>1, CompletesFacts DEF IInv, TypeOK
  <2>3. work = None /\ running = None
    BY <2>1, <2>2 DEF IInv, StageInv
  <2>4. CASE FinishTurn(FALSE, Tail(events))
    BY <2>1, <2>3, <2>4, FinishTurnFresh
  <2>5. CASE UNCHANGED <<active, retired>>
    BY <2>1, <2>5 DEF workVars
  <2>6. QED
    BY <1>4, <2>4, <2>5 DEF Complete
<1>5. CASE Defer
  <2>1. /\ ~deferred /\ work = None /\ ~stopped /\ invoking /\ stage < MaxStages
        /\ stage' = stage + 1 /\ work' = [id |-> active.id, stage |-> stage + 1]
        /\ UNCHANGED <<active, retired, worker, running, executed>>
    BY <1>5 DEF Defer, MayDefer, lockVars
  <2>2. active # None /\ running = None
    BY <2>1 DEF IInv, OwnerInv, StageInv
  <2>3. worker = "wait"
    BY <1>1, <2>1, <2>2 DEF IInv, WorkerInv
  <2>4. /\ work'.id = active.id /\ work'.stage = stage + 1
        /\ stage + 1 <= MaxStages /\ MaxStages \in Nat
    BY <1>1, <2>1, ConstantsAssumption
  <2>5. \A x \in executed : \/ x.id <= retired
                            \/ x.id = active.id /\ x.stage <= stage
    BY <2>3
  <2>6. work' \notin executed
    BY <1>1, <2>2, <2>4, <2>5
  <2>7. QED
    BY <1>1, <2>1, <2>2, <2>3, <2>4, <2>5, <2>6
<1>6. CASE StopEnd
  BY <1>6 DEF StopEnd, workVars
<1>7. CASE WorkerTake
  <2>1. /\ work # None /\ worker = "wait" /\ work' = None /\ worker' = "run"
        /\ running' = [id |-> work.id, stage |-> work.stage, failed |-> FALSE]
        /\ UNCHANGED <<active, retired, stage, executed>>
    BY <1>7 DEF WorkerTake, lockVars, ownerVars
  <2>2. work \in Stage /\ work = [id |-> work.id, stage |-> work.stage]
    BY <2>1 DEF IInv, TypeOK, Stage
  <2>3. running'.id = work.id /\ running'.stage = work.stage
    BY <2>1
  <2>4. QED
    BY <2>1, <2>2, <2>3
<1>8. CASE WorkerRun
  <2>1. /\ worker = "run" /\ worker' = "post" /\ UNCHANGED <<active, retired, stage, work>>
        /\ executed' = executed \cup {[id |-> running.id, stage |-> running.stage]}
    BY <1>8 DEF WorkerRun, lockVars, ownerVars
  <2>2. running \in Completion /\ active # None /\ running.id = active.id /\ running.stage = stage
    BY <1>1, <2>1 DEF IInv, TypeOK
  <2>3. QED
    BY <1>1, <2>1, <2>2
<1>9. CASE WorkerPost
  BY <1>9 DEF WorkerPost, lockVars, ownerVars
<1>10. CASE WorkerExit
  BY <1>10 DEF WorkerExit
<1>11. CASE UNCHANGED <<active, retired, stage, work, worker, running, executed>>
  BY <1>11
<1>12. QED
  BY <1>2, <1>3, <1>4, <1>5, <1>6, <1>7, <1>8, <1>9, <1>10, <1>11, ZenonT(30)
  DEF Next, ProducerNext, OwnerStep, WorkerStep, EnqueueRefused, vars, lockVars,
      workVars, ownerVars, Enqueue, EnqueueCopy, EnqueueMaintenance, ProducerSchedule,
      DrainBegin, DrainEnd, DrainSchedule, FinishSchedule, CompleteStopped,
      NestedEvent, StopBegin

\* The ids of the waiting items, as the serial receiver sees them.
Ids(q) == [i \in DOMAIN q |-> q[i].id]

\* What Append, Head and Tail do to a sequence of ids.
LEMMA IdSequences ==
  ASSUME NEW s \in Seq(Nat)
  PROVE  /\ \A y \in Nat :
              /\ Append(s, y) \in [1..(Len(s) + 1) -> Nat]
              /\ \A i \in 1..Len(s) : Append(s, y)[i] = s[i]
              /\ Append(s, y)[Len(s) + 1] = y
         /\ Len(s) # 0 =>
              /\ s # <<>> /\ Head(s) = s[1]
              /\ Tail(s) \in [1..(Len(s) - 1) -> Nat]
              /\ \A i \in 1..(Len(s) - 1) : Tail(s)[i] = s[i + 1]
<1>1. ASSUME NEW y \in Nat
      PROVE  Append(s, y) \in [1..(Len(s) + 1) -> Nat]
  <2>1. Append(s, y) \in Seq(Nat) /\ Len(Append(s, y)) = Len(s) + 1
    OBVIOUS
  <2>2. QED
    BY <2>1, LenProperties, Zenon
<1>2. ASSUME Len(s) # 0
      PROVE  Tail(s) \in [1..(Len(s) - 1) -> Nat]
  <2>1. Tail(s) \in Seq(Nat) /\ Len(Tail(s)) = Len(s) - 1
    BY <1>2
  <2>2. QED
    BY <2>1, LenProperties, Zenon
<1>3. QED
  BY <1>1, <1>2

\* An item enters the serial receiver's queue at its end and leaves it at its head.
LEMMA IdsFacts ==
  ASSUME NEW q \in Seq(Item)
  PROVE  /\ Ids(q) \in Seq(Nat) /\ Len(Ids(q)) = Len(q)
         /\ \A x \in Item : Ids(Append(q, x)) = Append(Ids(q), x.id)
         /\ q # <<>> => /\ Ids(q) # <<>> /\ Head(Ids(q)) = Head(q).id
                        /\ Ids(Tail(q)) = Tail(Ids(q))
<1>1. /\ Ids(q) \in [1..Len(q) -> Nat] /\ Len(q) \in Nat
      /\ \A i \in 1..Len(q) : Ids(q)[i] = q[i].id
  BY ItemFacts DEF Ids
<1>2. Ids(q) \in Seq(Nat) /\ Len(Ids(q)) = Len(q)
  BY <1>1
<1>3. ASSUME NEW x \in Item
      PROVE  Ids(Append(q, x)) = Append(Ids(q), x.id)
  <2>1. x.id \in Nat
    BY ItemFacts
  <2>2. /\ Append(q, x) \in Seq(Item) /\ DOMAIN Append(q, x) = 1..(Len(q) + 1)
        /\ \A i \in 1..Len(q) : Append(q, x)[i] = q[i]
        /\ Append(q, x)[Len(q) + 1] = x
    OBVIOUS
  <2>3. /\ Append(Ids(q), x.id) \in [1..(Len(q) + 1) -> Nat]
        /\ \A i \in 1..Len(q) : Append(Ids(q), x.id)[i] = q[i].id
        /\ Append(Ids(q), x.id)[Len(q) + 1] = x.id
    BY <1>1, <1>2, <2>1, IdSequences
  <2>4. /\ Ids(Append(q, x)) = [i \in 1..(Len(q) + 1) |-> Append(q, x)[i].id]
    BY <2>2 DEF Ids
  <2>5. \A i \in 1..(Len(q) + 1) : Append(q, x)[i].id = Append(Ids(q), x.id)[i]
    BY <1>1, <2>2, <2>3
  <2>6. QED
    BY <2>3, <2>4, <2>5
<1>4. ASSUME q # <<>>
      PROVE  /\ Ids(q) # <<>> /\ Head(Ids(q)) = Head(q).id
             /\ Ids(Tail(q)) = Tail(Ids(q))
  <2>1. /\ Len(q) \in Nat \ {0} /\ Head(q) = q[1] /\ Tail(q) \in Seq(Item)
        /\ DOMAIN Tail(q) = 1..(Len(q) - 1)
        /\ \A i \in 1..(Len(q) - 1) : Tail(q)[i] = q[i + 1]
    BY <1>4
  <2>2. /\ Ids(q) # <<>> /\ Head(Ids(q)) = Ids(q)[1]
        /\ Tail(Ids(q)) \in [1..(Len(q) - 1) -> Nat]
        /\ \A i \in 1..(Len(q) - 1) : Tail(Ids(q))[i] = Ids(q)[i + 1]
    BY <1>2, <2>1, IdSequences
  <2>3. Ids(Tail(q)) = [i \in 1..(Len(q) - 1) |-> Tail(q)[i].id]
    BY <2>1 DEF Ids
  <2>4. \A i \in 1..(Len(q) - 1) : Tail(q)[i].id = Tail(Ids(q))[i]
    BY <1>1, <2>1, <2>2
  <2>5. QED
    BY <1>1, <2>1, <2>2, <2>3, <2>4
<1>5. QED
  BY <1>2, <1>3, <1>4

\* enqueue and enqueue_maintenance are Accept.
LEMMA AcceptRefined ==
  ASSUME IInv, NEW x \in Item, x.id = next_id, queue' = Append(queue, x),
         next_id <= MaxPackets, ~stopped, UNCHANGED <<active, executed, stopped>>
  PROVE  Serial!Accept
<1>1. /\ next_id \in 1..MaxPackets /\ retired \in Nat
      /\ Len(queue) \in Nat /\ DOMAIN queue = 1..Len(queue)
      /\ active # None => active.id = retired + 1
      /\ \A k \in DOMAIN queue : queue[k].id = retired + (IF active = None THEN 0 ELSE 1) + k
      /\ next_id = retired + (IF active = None THEN 0 ELSE 1) + Len(queue) + 1
  BY ConstantsAssumption DEF IInv, TypeOK, OrderInv
<1>2. \A k \in DOMAIN queue : queue[k].id < next_id
  BY <1>1
<1>3. active # None => active.id < next_id
  BY <1>1
<1>4. Ids(queue') = Append(Ids(queue), next_id)
  BY IdsFacts DEF IInv, TypeOK
<1>5. QED
  BY <1>1, <1>2, <1>3, <1>4 DEF Serial!Accept, Ids

\* finish_turn is Retire, or nothing the caller of the queue can tell.
LEMMA RetireRefined ==
  ASSUME IInv, NEW waiting, NEW posted, FinishTurn(waiting, posted),
         UNCHANGED <<queue, executed, stopped>>
  PROVE  Serial!Next \/ UNCHANGED Serial!vars
<1>1. CASE UNCHANGED active
  BY <1>1 DEF Serial!vars
<1>2. CASE FinishActive
  <2>1. active # None /\ active' = None /\ active.id \in Nat
    BY <1>2, ItemFacts DEF FinishActive, IInv, TypeOK
  <2>2. Serial!Retire
    BY <2>1, NoneAssumption DEF Serial!Retire
  <2>3. QED
    BY <2>2 DEF Serial!Next
<1>3. QED
  BY <1>1, <1>2 DEF FinishTurn

\* Every step of the queue is a step of the serial receiver or a stutter.
LEMMA StepRefined ==
  ASSUME IInv, FreshInv, [Next]_vars
  PROVE  Serial!Next \/ UNCHANGED Serial!vars
<1>1. ASSUME NEW t \in Producers, NEW m \in Messages, NEW p \in Peers, Enqueue(t, m, p)
      PROVE  Serial!Accept
  <2> DEFINE x == [id |-> next_id, message |-> m, peer |-> p, maintenance |-> FALSE]
  <2>1. x \in Item /\ x.id = next_id
    BY ItemFacts DEF IInv, TypeOK
  <2>2. /\ queue' = Append(queue, x) /\ next_id <= MaxPackets /\ ~stopped
        /\ UNCHANGED <<active, executed, stopped>>
    BY <1>1 DEF Enqueue, workVars
  <2>3. QED
    BY <2>1, <2>2, AcceptRefined
<1>2. ASSUME NEW t \in Producers, EnqueueMaintenance(t)
      PROVE  Serial!Accept
  <2> DEFINE x == [id |-> next_id, message |-> None, peer |-> None, maintenance |-> TRUE]
  <2>1. x \in Item /\ x.id = next_id
    BY ItemFacts DEF IInv, TypeOK
  <2>2. /\ queue' = Append(queue, x) /\ next_id <= MaxPackets /\ ~stopped
        /\ UNCHANGED <<active, executed, stopped>>
    BY <1>2 DEF EnqueueMaintenance, MaintenanceWanted, workVars
  <2>3. QED
    BY <2>1, <2>2, AcceptRefined
<1>3. CASE Dispatch
  <2>1. /\ ~stopped /\ active = None /\ queue # <<>>
        /\ active' = Head(queue) /\ queue' = Tail(queue) /\ UNCHANGED <<executed, stopped>>
    BY <1>3 DEF Dispatch, MayDispatch, workVars
  <2>2. Head(queue) \in Item /\ Head(queue) # None
    BY <2>1, NoneAssumption DEF IInv, TypeOK
  <2>3. /\ Ids(queue) # <<>> /\ Head(Ids(queue)) = active'.id
        /\ Ids(queue') = Tail(Ids(queue))
    BY <2>1, IdsFacts DEF IInv, TypeOK
  <2>4. Serial!Start
    BY <2>1, <2>2, <2>3 DEF Serial!Start, Ids
  <2>5. QED
    BY <2>4 DEF Serial!Next
<1>4. CASE CallReturn \/ CallThrow
  BY <1>4, RetireRefined DEF CallReturn, CallThrow, workVars
<1>5. CASE Complete
  <2>1. UNCHANGED <<queue, executed, stopped>>
    BY <1>5 DEF Complete, workVars
  <2>2. CASE UNCHANGED active
    BY <2>1, <2>2 DEF Serial!vars
  <2>3. CASE FinishTurn(FALSE, Tail(events))
    BY <2>1, <2>3, RetireRefined
  <2>4. QED
    BY <1>5, <2>2, <2>3 DEF Complete
<1>6. CASE WorkerRun
  <2>1. /\ worker = "run" /\ UNCHANGED <<queue, active, stopped>>
        /\ executed' = executed \cup {[id |-> running.id, stage |-> running.stage]}
    BY <1>6 DEF WorkerRun, lockVars
  <2>2. /\ active # None /\ running.id = active.id
        /\ running.stage = stage /\ stage >= 1 /\ stage <= MaxStages
        /\ [id |-> running.id, stage |-> running.stage] \notin executed
    BY <2>1 DEF FreshInv
  <2>3. active.id \in Nat /\ stage \in 1..MaxStages
    BY <2>2, ItemFacts, ConstantsAssumption DEF IInv, TypeOK
  <2>4. Serial!Execute
    BY <2>1, <2>2, <2>3, NoneAssumption DEF Serial!Execute
  <2>5. QED
    BY <2>4 DEF Serial!Next
<1>7. CASE StopBegin
  <2>1. stopped' = TRUE /\ UNCHANGED <<queue, active, executed>>
    BY <1>7 DEF StopBegin, lockVars, workVars
  <2>2. CASE ~stopped
    <3>1. Serial!Close
      BY <2>1, <2>2 DEF Serial!Close
    <3>2. QED
      BY <3>1 DEF Serial!Next
  <2>3. CASE stopped
    BY <2>1, <2>3 DEF Serial!vars, IInv, TypeOK
  <2>4. QED
    BY <2>2, <2>3
<1>8. CASE StopEnd
  <2>1. /\ stopped /\ queue' = <<>> /\ (active' = active \/ active' = None)
        /\ UNCHANGED <<executed, stopped>>
    BY <1>8 DEF StopEnd, ActiveAfterStop, IInv, OwnerInv, workVars
  <2>2. [i \in DOMAIN queue' |-> queue'[i].id] = <<>>
    BY <2>1
  <2>3. Serial!Discard
    BY <2>1, <2>2 DEF Serial!Discard
  <2>4. QED
    BY <2>3 DEF Serial!Next
<1>9. CASE UNCHANGED <<queue, active, executed, stopped>>
  BY <1>9 DEF Serial!vars
<1>10. QED
  BY <1>1, <1>2, <1>3, <1>4, <1>5, <1>6, <1>7, <1>8, <1>9
  DEF Serial!Next, Next, ProducerNext, OwnerStep, WorkerStep, EnqueueRefused, vars,
      lockVars, workVars, EnqueueCopy, ProducerSchedule, DrainBegin, DrainEnd,
      DrainSchedule, FinishSchedule, Defer, CompleteStopped, NestedEvent, WorkerTake,
      WorkerPost, WorkerExit

\* A message that enqueue accepted, as an item or as a copy of a waiting one,
\* is never lost before its dispatch, whatever the hashes of the messages are.
THEOREM AcceptedWaits == Spec => []AcceptedIsWaiting
<1>1. Init => AcceptedIsWaiting
  BY DEF Init, AcceptedIsWaiting
<1>2. TypeOK /\ AcceptedIsWaiting /\ [Next]_vars => AcceptedIsWaiting'
  BY AcceptedStep
<1>3. QED
  BY <1>1, <1>2, TypeCorrect, PTL DEF Spec

\* The inductive invariant and FreshInv hold together.
LEMMA Fresh == Spec => [](IInv /\ FreshInv)
<1>1. Init => FreshInv
  BY ConstantsAssumption DEF Init, FreshInv
<1>2. IInv /\ FreshInv /\ [Next]_vars => FreshInv'
  BY FreshStep
<1>3. QED
  BY <1>1, <1>2, Invariance, PTL DEF Spec

\* The queue, with its threads, locks, wakeups and completions, implements the
\* serial receiver: items are served one at a time in the order of acceptance,
\* every stage runs once and while its item is served, and stop discards the
\* backlog only.
THEOREM Implements == Spec => ImplementsSerialReceiver
<1>1. Init => Serial!Init
  BY DEF Init, Serial!Init
<1>2. IInv /\ FreshInv /\ [Next]_vars => [Serial!Next]_Serial!vars
  BY StepRefined
<1>3. QED
  BY <1>1, <1>2, Fresh, PTL DEF Spec, ImplementsSerialReceiver, Serial!Spec
=============================================================================
