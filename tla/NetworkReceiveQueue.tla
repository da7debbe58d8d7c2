------------------------ MODULE NetworkReceiveQueue ------------------------
(***************************************************************************)
(* The bounded receive queue of a node                                     *)
(* (headers/network/network_receive_queue.h and                            *)
(* sources/network/network_receive_queue.cpp).                             *)
(*                                                                         *)
(* Three kinds of threads touch the queue:                                 *)
(*   - producers call enqueue and enqueue_maintenance;                     *)
(*   - the owner thread runs the Qt event loop: it drains the queue, calls *)
(*     the packet handler and the continuations of deferred stages, and is *)
(*     the only thread that calls stop;                                    *)
(*   - one worker thread runs the deferred (SQL) stages.                   *)
(*                                                                         *)
(* An action is one critical section of queue_mutex_ or work_mutex_, or    *)
(* one run of code that only the owner thread can observe.  The handler is *)
(* a parameter of the class: it may return, throw, defer a stage, run a    *)
(* nested event loop and call stop, in any order.                          *)
(***************************************************************************)
EXTENDS Integers, Sequences, FiniteSets, FiniteSetsExt

CONSTANTS
  Producers,    \* threads that call enqueue
  Messages,     \* contents of signed frames
  Peers,        \* peer identifiers (each stands for an ip and an identifier)
  MessageSize,  \* message.size() of each message
  PeerSize,     \* ip.size() + identifier.size() of each peer
  Hash,         \* std::hash of each message; collisions are allowed
  MaxMessages,  \* limits_.messages
  MaxBytes,     \* limits_.bytes
  Quantum,      \* packets per owner wakeup (64 in drain)
  MaxStages,    \* bound: deferred stages of one packet
  MaxPackets,   \* bound: items ever queued
  None          \* std::nullopt

HashValues == { Hash[m] : m \in Messages }

ASSUME ConstantsAssumption ==
  /\ MessageSize \in [Messages -> Nat]
  /\ PeerSize \in [Peers -> Nat]
  /\ MaxMessages \in Nat \ {0}
  /\ MaxBytes \in Nat \ {0}
  /\ Quantum \in Nat \ {0}
  /\ MaxStages \in Nat
  /\ MaxPackets \in Nat

Item ==
  [id : Nat, message : Messages, peer : Peers, maintenance : {FALSE}]
  \cup [id : Nat, message : {None}, peer : {None}, maintenance : {TRUE}]

Stage == [id : Nat, stage : Nat]
Completion == [id : Nat, stage : Nat, failed : BOOLEAN]
Event == [type : {"drain"}] \cup [type : {"complete"}, completion : Completion]

\* nullopt is none of the values the optional members can hold, nor an item's id.
ASSUME NoneAssumption ==
  /\ None \notin Messages /\ None \notin Peers /\ None \notin Nat
  /\ None \notin Item /\ None \notin Stage /\ None \notin Completion

VARIABLES
  queue, queued_hashes, peer_packets, active, message_count, bytes,
  maintenance_pending, wake_pending, draining,
                      \* guarded by queue_mutex_
  invoking, deferred, active_failed, completion,
                      \* owner thread only
  stopped,            \* std::atomic<bool>
  work,               \* guarded by work_mutex_
  events,             \* calls posted to the owner's event loop, oldest first
  owner,              \* where the owner thread is
  drained,            \* packets dispatched by the running drain
  stop_return,        \* where the owner continues after stop
  worker,             \* where the worker thread is
  running,            \* the stage the worker took from work
  producer,           \* where each producer thread is
  next_id,            \* history: items queued so far, plus one
  retired,            \* history: id of the last item finish_active retired
  stage,              \* history: stages the active item has deferred
  promised,           \* history: stages accepted by defer
  executed,           \* history: stages whose operation the worker ran
  owed                \* history: messages accepted since their last dispatch

lockVars == <<queue, queued_hashes, peer_packets, active, message_count, bytes,
              maintenance_pending, wake_pending, draining>>
countVars == <<queued_hashes, peer_packets, message_count, bytes,
               maintenance_pending>>
turnVars == <<invoking, deferred, active_failed, completion>>
workVars == <<work, worker, running, promised, executed>>
ownerVars == <<owner, drained, stop_return, stage, retired>>
vars == <<lockVars, turnVars, stopped, workVars, events, ownerVars, producer,
          next_id, owed>>

-----------------------------------------------------------------------------
(* Types and the initial state *)

TypeOK ==
  /\ queue \in Seq(Item)
  /\ queued_hashes \in [HashValues -> Int]
  /\ peer_packets \in [Peers -> Int]
  /\ active \in Item \cup {None}
  /\ message_count \in Int /\ bytes \in Int
  /\ maintenance_pending \in BOOLEAN /\ wake_pending \in BOOLEAN
  /\ draining \in BOOLEAN
  /\ invoking \in BOOLEAN /\ deferred \in BOOLEAN /\ active_failed \in BOOLEAN
  /\ completion \in Completion \cup {None}
  /\ stopped \in BOOLEAN
  /\ work \in Stage \cup {None}
  /\ events \in Seq(Event)
  /\ owner \in {"loop", "drain", "drained", "call", "finished", "join"}
  /\ drained \in 0..Quantum
  /\ stop_return \in {"loop", "call"}
  /\ worker \in {"wait", "run", "post", "exited"}
  /\ running \in Completion \cup {None}
  /\ producer \in [Producers -> {"idle", "queued"}]
  /\ next_id \in Nat \ {0} /\ retired \in Nat /\ stage \in Nat
  /\ promised \subseteq Stage /\ executed \subseteq Stage
  /\ owed \subseteq Messages

Init ==
  /\ queue = <<>>
  /\ queued_hashes = [h \in HashValues |-> 0]
  /\ peer_packets = [p \in Peers |-> 0]
  /\ active = None
  /\ message_count = 0 /\ bytes = 0
  /\ maintenance_pending = FALSE /\ wake_pending = FALSE /\ draining = FALSE
  /\ invoking = FALSE /\ deferred = FALSE /\ active_failed = FALSE
  /\ completion = None
  /\ stopped = FALSE
  /\ work = None
  /\ events = <<>>
  /\ owner = "loop" /\ drained = 0 /\ stop_return = "loop"
  /\ worker = "wait" /\ running = None
  /\ producer = [t \in Producers |-> "idle"]
  /\ next_id = 1 /\ retired = 0 /\ stage = 0
  /\ promised = {} /\ executed = {} /\ owed = {}

-----------------------------------------------------------------------------
(* Producers *)

Bytes(item) ==
  IF item.maintenance THEN 0 ELSE MessageSize[item.message] + PeerSize[item.peer]

\* The capacity test of enqueue; message, ip and identifier are compared with
\* what is left one after the other, so nothing can underflow.
HasRoom(m, p) ==
  /\ message_count < MaxMessages
  /\ MessageSize[m] <= MaxBytes - bytes
  /\ PeerSize[p] <= MaxBytes - bytes - MessageSize[m]

\* Bug: equal hashes are taken for equal messages.
HashWaiting(m) == queued_hashes[Hash[m]] > 0

\* A copy of m already waits: the hash index is consulted before the queue.
AlreadyWaiting(m) ==
  /\ queued_hashes[Hash[m]] > 0
  /\ \E i \in DOMAIN queue : ~queue[i].maintenance /\ queue[i].message = m

\* enqueue, first critical section: the packet is queued.
Enqueue(t, m, p) ==
  /\ producer[t] = "idle"
  /\ next_id <= MaxPackets
  /\ ~stopped /\ HasRoom(m, p)
  /\ queue' = Append(queue, [id |-> next_id, message |-> m, peer |-> p,
                             maintenance |-> FALSE])
  /\ bytes' = bytes + MessageSize[m] + PeerSize[p]
  /\ message_count' = message_count + 1
  /\ queued_hashes' = [queued_hashes EXCEPT ![Hash[m]] = @ + 1]
  /\ peer_packets' = [peer_packets EXCEPT ![p] = @ + 1]
  /\ producer' = [producer EXCEPT ![t] = "queued"]
  /\ next_id' = next_id + 1
  /\ owed' = owed \cup {m}
  /\ UNCHANGED <<active, maintenance_pending, wake_pending, draining, turnVars,
                 stopped, workVars, events, ownerVars>>

\* enqueue with no room: refuse() still accepts a copy of a waiting packet.
EnqueueCopy(t, m, p) ==
  /\ producer[t] = "idle"
  /\ ~stopped /\ ~HasRoom(m, p) /\ AlreadyWaiting(m)
  /\ owed' = owed \cup {m}
  /\ UNCHANGED <<lockVars, turnVars, stopped, workVars, events, ownerVars,
                 producer, next_id>>

\* enqueue refused: the caller is told so and the queue does not change.
EnqueueRefused(t, m, p) ==
  /\ producer[t] = "idle"
  /\ stopped \/ (~HasRoom(m, p) /\ ~AlreadyWaiting(m))
  /\ UNCHANGED vars

MaintenanceWanted == ~stopped /\ ~maintenance_pending

\* enqueue_maintenance: one reserved item, further ticks are coalesced.
EnqueueMaintenance(t) ==
  /\ producer[t] = "idle"
  /\ next_id <= MaxPackets
  /\ MaintenanceWanted
  /\ queue' = Append(queue, [id |-> next_id, message |-> None, peer |-> None,
                             maintenance |-> TRUE])
  /\ maintenance_pending' = TRUE
  /\ producer' = [producer EXCEPT ![t] = "queued"]
  /\ next_id' = next_id + 1
  /\ UNCHANGED <<queued_hashes, peer_packets, active, message_count, bytes,
                 wake_pending, draining, turnVars, stopped, workVars, events,
                 ownerVars, owed>>

\* schedule: post one drain call unless one is on its way or not needed.
Schedule ==
  IF stopped \/ wake_pending \/ draining \/ active # None \/ queue = <<>>
  THEN UNCHANGED <<wake_pending, events>>
  ELSE /\ wake_pending' = TRUE
       /\ events' = Append(events, [type |-> "drain"])

\* enqueue and enqueue_maintenance, second critical section.
ProducerSchedule(t) ==
  /\ producer[t] = "queued"
  /\ Schedule
  /\ producer' = [producer EXCEPT ![t] = "idle"]
  /\ UNCHANGED <<queue, countVars, active, draining, turnVars, stopped,
                 workVars, ownerVars, next_id, owed>>

-----------------------------------------------------------------------------
(* The owner thread: draining *)

\* drain called from the event loop.
DrainBegin ==
  /\ owner = "loop"
  /\ events # <<>> /\ Head(events).type = "drain"
  /\ events' = Tail(events)
  /\ wake_pending' = FALSE
  /\ IF stopped \/ draining \/ active # None
     THEN UNCHANGED <<draining, owner, drained>>
     ELSE /\ draining' = TRUE
          /\ owner' = "drain"
          /\ drained' = 0
  /\ UNCHANGED <<queue, countVars, active, turnVars, stopped, workVars,
                 stop_return, stage, retired, producer, next_id, owed>>

\* Bug: the next packet does not wait for the stages of the active one.
DispatchOverlapping == drained < Quantum /\ ~stopped /\ queue # <<>>

MayDispatch == drained < Quantum /\ ~stopped /\ active = None /\ queue # <<>>

\* dispatch: the oldest item becomes active and the handler is called.
Dispatch ==
  /\ owner = "drain"
  /\ MayDispatch
  /\ active' = Head(queue)
  /\ queue' = Tail(queue)
  /\ LET h == Hash[Head(queue).message] IN
     queued_hashes' =
       IF ~Head(queue).maintenance /\ queued_hashes[h] > 0
       THEN [queued_hashes EXCEPT ![h] = @ - 1]
       ELSE queued_hashes
  /\ wake_pending' = FALSE
  /\ invoking' = TRUE
  /\ active_failed' = FALSE
  /\ owner' = "call"
  /\ drained' = drained + 1
  /\ stage' = 0
  /\ owed' = owed \ {Head(queue).message}
  /\ UNCHANGED <<peer_packets, message_count, bytes, maintenance_pending,
                 draining, deferred, completion, stopped, workVars, events,
                 stop_return, retired, producer, next_id>>

\* The drain loop ends: quantum, 2 ms (after at least one packet), or no more
\* to dispatch.
DrainEnd ==
  /\ owner = "drain"
  /\ drained > 0 \/ stopped \/ active # None \/ queue = <<>>
  /\ draining' = FALSE
  /\ owner' = "drained"
  /\ UNCHANGED <<queue, countVars, active, wake_pending, turnVars, stopped,
                 workVars, events, drained, stop_return, stage, retired,
                 producer, next_id, owed>>

\* Bug: drain ends without schedule.
DrainForgetsSchedule ==
  /\ owner = "drained"
  /\ owner' = "loop"
  /\ UNCHANGED <<lockVars, turnVars, stopped, workVars, events, drained,
                 stop_return, stage, retired, producer, next_id, owed>>

\* The schedule call at the end of drain.
DrainSchedule ==
  /\ owner = "drained"
  /\ Schedule
  /\ owner' = "loop"
  /\ UNCHANGED <<queue, countVars, active, draining, turnVars, stopped,
                 workVars, drained, stop_return, stage, retired, producer,
                 next_id, owed>>

-----------------------------------------------------------------------------
(* The owner thread: one turn of the active item *)

\* Where the owner goes when dispatch or complete returns.
Caller == IF draining THEN "drain" ELSE "loop"

\* The part of finish_active inside the critical section.
FinishActive ==
  /\ active # None
  /\ IF stopped
     THEN UNCHANGED <<maintenance_pending, message_count, bytes, peer_packets>>
     ELSE IF active.maintenance
     THEN /\ maintenance_pending' = FALSE
          /\ UNCHANGED <<message_count, bytes, peer_packets>>
     ELSE /\ message_count' = message_count - 1
          /\ bytes' = bytes - Bytes(active)
          /\ peer_packets' =
               IF peer_packets[active.peer] > 0
               THEN [peer_packets EXCEPT ![active.peer] = @ - 1]
               ELSE peer_packets
          /\ UNCHANGED maintenance_pending
  /\ active' = None
  /\ retired' = active.id

\* finish_turn: repost a retained completion, wait for a deferred stage, or
\* retire the active item.
FinishTurn(waiting, posted) ==
  /\ invoking' = FALSE
  /\ \/ /\ completion # None
        /\ completion' = None
        /\ events' = Append(posted, [type |-> "complete", completion |-> completion])
        /\ owner' = Caller
        /\ UNCHANGED <<active, message_count, bytes, peer_packets,
                       maintenance_pending, retired>>
     \/ /\ completion = None /\ waiting
        /\ events' = posted
        /\ owner' = Caller
        /\ UNCHANGED <<active, message_count, bytes, peer_packets,
                       maintenance_pending, retired, completion>>
     \/ /\ completion = None /\ ~waiting
        /\ FinishActive
        /\ events' = posted
        /\ owner' = "finished"
        /\ UNCHANGED completion

\* The handler or continuation returns.
CallReturn ==
  /\ owner = "call"
  /\ FinishTurn(deferred, events)
  /\ UNCHANGED <<queue, queued_hashes, wake_pending, draining, deferred,
                 active_failed, stopped, workVars, drained, stop_return, stage,
                 producer, next_id, owed>>

\* The handler or continuation throws; report swallows what the error handler
\* throws.
CallThrow ==
  /\ owner = "call"
  /\ active_failed' = TRUE
  /\ FinishTurn(deferred, events)
  /\ UNCHANGED <<queue, queued_hashes, wake_pending, draining, deferred,
                 stopped, workVars, drained, stop_return, stage, producer,
                 next_id, owed>>

\* Bug: finish_active returns without schedule.
FinishForgetsSchedule ==
  /\ owner = "finished"
  /\ owner' = Caller
  /\ UNCHANGED <<lockVars, turnVars, stopped, workVars, events, drained,
                 stop_return, stage, retired, producer, next_id, owed>>

\* The schedule call at the end of finish_active.
FinishSchedule ==
  /\ owner = "finished"
  /\ Schedule
  /\ owner' = Caller
  /\ UNCHANGED <<queue, countVars, active, draining, turnVars, stopped,
                 workVars, drained, stop_return, stage, retired, producer,
                 next_id, owed>>

MayDefer == ~stopped /\ invoking /\ ~deferred /\ work = None

\* defer, when its preconditions hold; otherwise it throws (CallThrow).
Defer ==
  /\ owner = "call"
  /\ MayDefer
  /\ stage < MaxStages
  /\ stage' = stage + 1
  /\ work' = [id |-> active.id, stage |-> stage + 1]
  /\ promised' = promised \cup {[id |-> active.id, stage |-> stage + 1]}
  /\ deferred' = TRUE
  /\ UNCHANGED <<lockVars, invoking, active_failed, completion, stopped,
                 worker, running, executed, events, owner, drained,
                 stop_return, retired, producer, next_id, owed>>

MayDeliver == ~stopped

\* complete called from the event loop: run the continuation unless the stage
\* or an earlier part of the packet failed.
Complete ==
  /\ owner = "loop"
  /\ events # <<>> /\ Head(events).type = "complete"
  /\ MayDeliver
  /\ deferred' = FALSE
  /\ \/ /\ ~Head(events).completion.failed /\ ~active_failed
        /\ invoking' = TRUE
        /\ owner' = "call"
        /\ events' = Tail(events)
        /\ UNCHANGED <<active, message_count, bytes, peer_packets,
                       maintenance_pending, active_failed, completion, retired>>
     \/ /\ Head(events).completion.failed \/ active_failed
        /\ active_failed' = TRUE
        /\ FinishTurn(FALSE, Tail(events))
  /\ UNCHANGED <<queue, queued_hashes, wake_pending, draining, stopped,
                 workVars, drained, stop_return, stage, producer, next_id,
                 owed>>

\* complete after stop: the queued continuation is suppressed.
CompleteStopped ==
  /\ owner = "loop"
  /\ events # <<>> /\ Head(events).type = "complete"
  /\ ~MayDeliver
  /\ events' = Tail(events)
  /\ UNCHANGED <<lockVars, turnVars, stopped, workVars, ownerVars, producer,
                 next_id, owed>>

\* A nested event loop of the handler delivers the oldest event: drain only
\* clears its wakeup, complete retains the completion for the outer turn.
NestedEvent ==
  /\ owner = "call"
  /\ events # <<>>
  /\ events' = Tail(events)
  /\ IF Head(events).type = "drain"
     THEN /\ wake_pending' = FALSE
          /\ UNCHANGED completion
     ELSE /\ completion' = IF stopped THEN completion ELSE Head(events).completion
          /\ UNCHANGED wake_pending
  /\ UNCHANGED <<queue, countVars, active, draining, invoking, deferred,
                 active_failed, stopped, workVars, ownerVars, producer,
                 next_id, owed>>

-----------------------------------------------------------------------------
(* The worker thread *)

WorkerTake ==
  /\ worker = "wait"
  /\ work # None
  /\ running' = [id |-> work.id, stage |-> work.stage, failed |-> FALSE]
  /\ work' = None
  /\ worker' = "run"
  /\ UNCHANGED <<lockVars, turnVars, stopped, promised, executed, events,
                 ownerVars, producer, next_id, owed>>

\* The operation returns or throws.
WorkerRun ==
  /\ worker = "run"
  /\ \E error \in BOOLEAN : running' = [running EXCEPT !.failed = error]
  /\ executed' = executed \cup {[id |-> running.id, stage |-> running.stage]}
  /\ worker' = "post"
  /\ UNCHANGED <<lockVars, turnVars, stopped, work, promised, events,
                 ownerVars, producer, next_id, owed>>

WorkerPost ==
  /\ worker = "post"
  /\ events' = IF stopped THEN events
               ELSE Append(events, [type |-> "complete", completion |-> running])
  /\ running' = None
  /\ worker' = "wait"
  /\ UNCHANGED <<lockVars, turnVars, stopped, work, promised, executed,
                 ownerVars, producer, next_id, owed>>

\* Bug: the worker leaves as soon as the queue is stopped.
ExitAtOnce == stopped

MayExit == stopped /\ work = None

WorkerExit ==
  /\ worker = "wait"
  /\ MayExit
  /\ worker' = "exited"
  /\ UNCHANGED <<lockVars, turnVars, stopped, work, running, promised,
                 executed, events, ownerVars, producer, next_id, owed>>

-----------------------------------------------------------------------------
(* stop, from the event loop (or the destructor) and from inside a handler *)

StopBegin ==
  /\ owner \in {"loop", "call"}
  /\ stopped' = TRUE
  /\ stop_return' = owner
  /\ owner' = "join"
  /\ UNCHANGED <<lockVars, turnVars, workVars, events, drained, stage, retired,
                 producer, next_id, owed>>

\* Bug: stop drops the packet its own caller still borrows.
DropActive == None

ActiveAfterStop == IF invoking THEN active ELSE None

\* worker_.join() returned: discard everything that was not dispatched.
StopEnd ==
  /\ owner = "join"
  /\ worker = "exited"
  /\ queue' = <<>>
  /\ queued_hashes' = [h \in HashValues |-> 0]
  /\ peer_packets' = [p \in Peers |-> 0]
  /\ active' = ActiveAfterStop
  /\ completion' = None
  /\ message_count' = 0 /\ bytes' = 0
  /\ maintenance_pending' = FALSE /\ wake_pending' = FALSE
  /\ deferred' = FALSE
  /\ owner' = stop_return
  /\ owed' = {}
  /\ UNCHANGED <<draining, invoking, active_failed, stopped, workVars, events,
                 drained, stop_return, stage, retired, producer, next_id>>

-----------------------------------------------------------------------------
ProducerNext ==
  \E t \in Producers :
    \/ \E m \in Messages, p \in Peers :
         Enqueue(t, m, p) \/ EnqueueCopy(t, m, p) \/ EnqueueRefused(t, m, p)
    \/ EnqueueMaintenance(t)
    \/ ProducerSchedule(t)

OwnerStep ==
  \/ DrainBegin \/ Dispatch \/ DrainEnd \/ DrainSchedule
  \/ CallReturn \/ CallThrow \/ FinishSchedule \/ Defer
  \/ Complete \/ CompleteStopped \/ NestedEvent \/ StopEnd

WorkerStep == WorkerTake \/ WorkerRun \/ WorkerPost \/ WorkerExit

Next == ProducerNext \/ OwnerStep \/ WorkerStep \/ StopBegin

Spec == Init /\ [][Next]_vars

\* The operating system runs every thread that can run; a handler and the
\* operation of a stage end.  Nothing forces a producer to call enqueue or the
\* owner to call stop.
Fairness ==
  /\ WF_vars(OwnerStep)
  /\ WF_vars(WorkerStep)
  /\ \A t \in Producers : WF_vars(ProducerSchedule(t))

FairSpec == Spec /\ Fairness
-----------------------------------------------------------------------------
(* What the queue promises *)

\* Somebody is about to call schedule: a producer between its two critical
\* sections, or the owner before the schedule that ends drain or finish_active.
ScheduleAhead ==
  \/ \E t \in Producers : producer[t] = "queued"
  \/ owner \in {"drained", "finished"}

\* The positions of the posted calls of drain and of complete.
Drains == { i \in DOMAIN events : events[i].type = "drain" }
Completes == { i \in DOMAIN events : events[i].type = "complete" }

\* No lost wakeup: items never wait without an active item, a running drain, a
\* posted drain call or a pending schedule; and wake_pending is true exactly
\* while one drain call is posted.
NoLostWakeup ==
  ~stopped =>
    /\ queue = <<>> \/ active # None \/ draining \/ wake_pending \/ ScheduleAhead
    /\ wake_pending <=> Drains # {}
    /\ \A i, j \in Drains : i = j

\* Every stage accepted by defer whose continuation has not been started.
InFlight ==
  ({work, running, completion} \ {None})
  \cup { events[i].completion : i \in Completes }

\* "One owner-thread dispatch at a time, including all of its deferred SQL
\* stages": a deferred stage is in exactly one of work_, the worker, the event
\* loop and completion_, and belongs to the active item; when none is deferred
\* these are empty, so the worker never runs SQL of a packet already retired.
OneStageInFlight ==
  ~stopped =>
    /\ deferred <=> InFlight # {}
    /\ work # None => running = None /\ completion = None /\ Completes = {}
    /\ running # None => completion = None /\ Completes = {}
    /\ completion # None => Completes = {}
    /\ \A i, j \in Completes : i = j
    /\ \A x \in InFlight : active # None /\ x.id = active.id

\* The packet a running handler or continuation borrows stays active, also when
\* the handler calls stop or runs a nested event loop.
BorrowedItemStays ==
  /\ invoking => active # None
  /\ invoking <=> owner = "call" \/ (owner = "join" /\ stop_return = "call")

\* stop joins the worker after it has run every stage that defer accepted, and
\* no stage runs that was not deferred.
StopJoinsAcceptedWork ==
  /\ executed \subseteq promised
  /\ (stopped /\ owner # "join") => (executed = promised /\ worker = "exited")

\* A message that enqueue accepted, as an item or as a copy of a waiting one, is
\* still waiting for its dispatch; two messages with the same hash are told
\* apart.
AcceptedIsWaiting ==
  ~stopped =>
    \A m \in owed : \E i \in DOMAIN queue : queue[i].message = m

\* The queue implements the serial receiver: items are served one after the
\* other in the order of acceptance, each with its SQL stages, until shutdown.
Serial == INSTANCE SerialReceiver
  WITH waiting <- [i \in DOMAIN queue |-> queue[i].id],
       current <- IF active = None THEN None ELSE active.id,
       sql <- executed,
       closed <- stopped,
       Ids <- 1..MaxPackets,
       Stages <- 1..MaxStages

ImplementsSerialReceiver == Serial!Spec

\* Items are retired in the order they were queued and none is skipped.
RetiredInOrder == [][retired' # retired => retired' = retired + 1]_vars

\* Once stopped, no handler and no continuation is started.
NothingStartsAfterStop == [][stopped /\ ~invoking => ~invoking']_vars

\* Every queued item is eventually retired, unless the queue is stopped.
EveryItemRetired ==
  \A i \in 1..MaxPackets : (next_id > i) ~> (retired >= i \/ stopped)
=============================================================================
