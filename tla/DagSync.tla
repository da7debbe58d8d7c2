------------------------------ MODULE DagSync ------------------------------
(***************************************************************************)
(* Chain synchronisation of a client node (class Dag, IS_APP_CLIENT build; *)
(* sources/chain/dag.cpp).  A client that connects asks its neighbours for *)
(* their last section, searches the newest control hash both sides agree   *)
(* on, drops its sections above it, downloads section files batch by batch *)
(* and finally asks for the peer's cached balances and recent transactions *)
(* ("light data").  A light client only asks for the light data.           *)
(*                                                                         *)
(* Three kinds of activity interleave:                                     *)
(*   - the node thread: network handlers, plus the FIFO of queued calls    *)
(*     that start, stop and report the single sync timer                   *)
(*     (Qt::QueuedConnection in extrachain_node.cpp);                      *)
(*   - the pool tasks of file and light responses;                         *)
(*   - the network, which answers late, several times or never.            *)
(*                                                                         *)
(* Abstraction.  Controls are scaled to one per section                    *)
(* (CONTROL_INTERVAL = 1, so every id is aligned), and a stored section is *)
(* "peer" (its control equals the peers') or "own" (it differs); the peers *)
(* are honest, luminous and share one chain.  An answer of a peer without  *)
(* luminance, not ready or undecodable changes nothing but the timer, as a *)
(* lost answer does, and is covered by Lossy.                              *)
(***************************************************************************)
EXTENDS Integers, Sequences, FiniteSets, FiniteSetsExt

CONSTANTS
    Top,            \* bound: the last section the peers ever reach
    InitModes,      \* the modes a client may be configured with
    BackOff,        \* sections dropped below the first difference (50)
    Batch,          \* SYNC_SECTIONS_BATCH
    LightLag,       \* sections a light package reaches back from the last one
    Ahead,          \* sections a transaction may be ahead (15)
    PostedBound,    \* bound: queued timer calls before the node takes a message
    LightBound,     \* bound: light responses waiting in their pool
    Settings        \* the surroundings a client may find itself in

(* A setting [peers, start, top, count, checks, switches, lossy, late, racy]: *)
(* the neighbours that answer the client, their last section in the initial  *)
(* state and the last one they ever reach, COUNT (controls asked for in one  *)
(* search request), calls of start_check and of force_full_mode or           *)
(* force_light_mode (bounds), and the modes in which answers and broadcasts  *)
(* may get lost, the timer may expire while an answer is coming, and pool    *)
(* threads run between two statements of the node.                           *)
ASSUME SyncAssumption ==
    /\ \A s \in Settings :
          /\ s.peers # {} /\ IsFiniteSet(s.peers)
          /\ s.top \in 0..Top /\ s.start \in 0..s.top
          /\ s.count \in Nat \ {0} /\ {s.checks, s.switches} \subseteq Nat
          /\ {s.lossy, s.late, s.racy} \subseteq SUBSET {"Full", "Light"}
    /\ Top \in Nat
    /\ InitModes \subseteq {"Full", "Light"}
    /\ BackOff \in Nat /\ Batch \in Nat \ {0}
    /\ LightLag \in Nat \ {0} /\ Ahead \in Nat \ {0}
    /\ PostedBound \in Nat /\ LightBound \in Nat \ {0}

VARIABLES
    mode,            \* mode_
    status,          \* status_
    sync_status,     \* sync_status_
    check_status,    \* check_status_
    search,          \* search_control_ and the age of its time stamp
    light_requested, \* light_requested_
    timer,           \* timer_sync_ is running
    posted,          \* timer calls queued on the node thread, oldest first
    current,         \* current_section_, -1 when there is none
    target,          \* sync_last_index_
    local,           \* the section files, and whether their control agrees
    cached,          \* cached_txs_, by section
    inserting,       \* transaction the node thread is about to put in cached_txs_
    net,             \* requests that may still be answered
    tasks,           \* file responses running in the dag_sync pool (8 threads)
    lights,          \* light responses in the single-threaded pool, oldest first
    peer,            \* the peers' last section
    checks,          \* calls of start_check so far
    switches,        \* mode switches so far
    setting          \* the surroundings, chosen in the initial state

timerVars  == <<timer, posted>>
statusVars == <<mode, status, sync_status, check_status, search, light_requested>>
chainVars  == <<current, target, local, cached>>
poolVars   == <<tasks, lights>>
vars == <<timerVars, statusVars, chainVars, poolVars, inserting, net, peer, checks, switches, setting>>

Peers == setting.peers

Section  == 0..Top
Calls    == {"start", "stop", "tick"}
Idle     == -1
MaxOf(a, b) == IF a < b THEN b ELSE a
MinOf(a, b) == IF a < b THEN a ELSE b

-----------------------------------------------------------------------------
(* Requests.  A request stands for the answer that may follow: the peers   *)
(* answer from the chain they hold when the answer is taken.               *)

Request  == [kind : {"LastInfo", "Controls", "Files", "Light"},
             from : Section, to : -1..Top, by : Peers]

Ask(kind, from, to, by) == [kind |-> kind, from |-> from, to |-> to, by |-> by]

LastInfoRequests    == {Ask("LastInfo", 0, 0, p) : p \in Peers}
LightRequest(by)    == {Ask("Light", 0, 0, by)}

ControlRequest(hi, to) ==
    {Ask("Controls", MaxOf(0, hi - (setting.count - 1)), hi, p) : p \in to}
FileRequest(from, to, by) == {Ask("Files", MaxOf(0, from), to, by)}

-----------------------------------------------------------------------------
(* The chain on disk. *)

Present(loc, s) == s \in Section /\ loc[s] # "none"

(* find_last_control: the newest section that carries a control. *)
LastControl(loc, cur) ==
    LET found == {s \in Section : s <= cur /\ loc[s] # "none"}
    IN  IF found = {} THEN -1 ELSE Max(found)

(* save_transactions followed by the generation of the missing controls:   *)
(* a control chains the one below it, so it agrees with the peers' only if *)
(* that one does; a light client takes the controls of the package.        *)
Filled(loc, S) ==
    LET f[s \in Section] ==
            IF loc[s] # "none" \/ s \notin S THEN loc[s]
            ELSE IF s = 0 \/ mode = "Light" THEN "peer"
            ELSE IF f[s - 1] = "peer" THEN "peer" ELSE "own"
    IN  f

Topmost(cur, S) == IF S = {} THEN cur ELSE MaxOf(cur, Max(S))

(* network_transaction of a client that is not synchronising: the section  *)
(* difference check of prove_transaction, then save and set_current_section. *)
Acceptable(S) == {s \in S : s - current <= Ahead /\ current - s <= Ahead}

(* process_cached_transactions: everything cached is proved and saved. *)
DrainCached ==
    /\ local'   = Filled(local, Acceptable(cached))
    /\ current' = Topmost(current, Acceptable(cached))
    /\ cached'  = {}

(* process_cached_transactions() and set_status(Ready), run by the node    *)
(* thread itself: nothing of the node thread can come in between.          *)
EndSync(calls) ==
    /\ DrainCached
    /\ status' = "Ready"
    /\ sync_status' = "None"
    /\ posted' = posted \o calls \o <<"stop">>

-----------------------------------------------------------------------------
Init ==
    /\ setting \in Settings
    /\ mode \in InitModes
    /\ status = "Started"
    /\ sync_status = "None" /\ check_status = "None"
    /\ search = "off"
    /\ light_requested = FALSE
    /\ timer = FALSE /\ posted = <<>>
    /\ peer = setting.start
    /\ current \in (IF mode = "Full" THEN -1..setting.start ELSE {-1})
    /\ target = 0
    /\ \E agreed \in 1..(setting.start + 1) :
          local = [s \in Section |-> IF s > current THEN "none"
                                     ELSE IF s < agreed THEN "peer" ELSE "own"]
    /\ cached = {} /\ inserting = Idle
    /\ net = {} /\ tasks = {} /\ lights = <<>>
    /\ checks = 0 /\ switches = 0

(* The node thread takes one event at a time. *)
NodeFree == inserting = Idle

(* ... and a message only while few timer calls are queued. *)
MayReceive == NodeFree /\ Len(posted) <= PostedBound

-----------------------------------------------------------------------------
(* start_sync, entered with status st after calls were queued and extra    *)
(* requests were sent.                                                      *)
StartSync(st, calls, rest) ==
    IF st = "Sync"
    THEN /\ status' = st
         /\ posted' = posted \o calls
         /\ net' = rest
         /\ UNCHANGED sync_status
    ELSE /\ status' = "Sync"
         /\ posted' = posted \o calls \o <<"start">>
         /\ sync_status' = "LastInfo"
         /\ net' = rest \cup LastInfoRequests

(* start_check, when a connection to the first node comes up. *)
StartCheck ==
    /\ MayReceive
    /\ checks < setting.checks
    /\ checks' = checks + 1
    /\ \/ /\ status # "Ready"
          /\ StartSync(status, <<>>, net)
          /\ UNCHANGED check_status
       \/ /\ status = "Ready"
          /\ check_status' = "LastInfo"
          /\ net' = net \cup LastInfoRequests
          /\ UNCHANGED <<status, sync_status, posted>>
    /\ UNCHANGED <<mode, search, light_requested, timer, chainVars, poolVars,
                   inserting, peer, switches, setting>>

(* clear_dag: the folders of sections are renamed at once and deleted by    *)
(* another process; the range file and the cached balances go with them.   *)
Cleared ==
    /\ current' = -1
    /\ local' = [s \in Section |-> "none"]
    /\ cached' = {}

(* force_full_mode and force_light_mode (start_mining, stop_mining): the    *)
(* chain is cleared whatever is under way, and the sync starts over.        *)
ForceMode ==
    /\ MayReceive
    /\ switches < setting.switches
    /\ switches' = switches + 1
    /\ mode' = (IF mode = "Full" THEN "Light" ELSE "Full")
    /\ Cleared
    /\ StartSync("Started", <<>>, net)
    /\ UNCHANGED <<check_status, search, light_requested, timer, target,
                   poolVars, inserting, peer, checks, setting>>

-----------------------------------------------------------------------------
(* The timer. *)

(* QTimer::timeout queues a tick; the timer keeps running. *)
Expires ==
    /\ timer
    /\ \A i \in DOMAIN posted : posted[i] # "tick"
    /\ mode \in setting.late \/ (net = {} /\ tasks = {} /\ lights = <<>> /\ posted = <<>>)
    /\ posted' = Append(posted, "tick")
    /\ UNCHANGED <<timer, statusVars, chainVars, poolVars, inserting, net,
                   peer, checks, switches, setting>>

(* CONTROL_SEARCH_TIMEOUT_MS passes since the last sign of the search. *)
SearchAges ==
    /\ search = "live"
    /\ mode \in setting.late \/ (net = {} /\ tasks = {} /\ lights = <<>>)
    /\ search' = "expired"
    /\ UNCHANGED <<timerVars, mode, status, sync_status, check_status,
                   light_requested, chainVars, poolVars, inserting, net, peer,
                   checks, switches, setting>>

(* timer_tick. *)
SearchStillRuns == search = "live"

Tick(rest) ==
    \/ /\ SearchStillRuns
       /\ posted' = Append(rest, "start")
       /\ UNCHANGED <<timer, status, sync_status, search, net>>
    \/ /\ ~SearchStillRuns
       /\ search' = "off"
       /\ timer' = FALSE
       /\ status' = "Sync"
       /\ sync_status' = "LastInfo"
       /\ posted' = rest \o (IF search = "off" THEN <<"start">> ELSE <<"stop", "start">>)
       /\ net' = net \cup LastInfoRequests

(* dagTimerStarting, dagTimerStoping, dagTimerTick: the oldest queued call. *)
TimerCall ==
    /\ NodeFree
    /\ posted # <<>>
    /\ \/ /\ Head(posted) \in {"start", "stop"}
          /\ timer' = (Head(posted) = "start")
          /\ posted' = Tail(posted)
          /\ UNCHANGED <<status, sync_status, search, net>>
       \/ /\ Head(posted) = "tick"
          /\ Tick(Tail(posted))
    /\ UNCHANGED <<mode, check_status, light_requested, chainVars, poolVars,
                   inserting, peer, checks, switches, setting>>

-----------------------------------------------------------------------------
(* The answer to DagSyncLastInfo, and handle_sync_request. *)

(* handle_sync_request: the local chain is behind the peer or its newest   *)
(* control contradicts the peer's.                                         *)
NeedRecontrol(last) ==
    LET control == LastControl(local, current)
    IN  IF Present(local, current)
        THEN \/ last > current
             \/ control = -1
             \/ control < last
             \/ control = last /\ local[control] = "own"
        ELSE mode = "Full"

(* request_control_section, entered after calls were queued; rest is what  *)
(* is still in transit.                                                     *)
RequestControlSection(by, calls, rest) ==
    \/ /\ search = "live"
       /\ posted' = posted \o calls
       /\ net' = rest
       /\ UNCHANGED search
    \/ /\ search # "live"
       /\ search' = "live"
       /\ posted' = posted \o calls
                    \o (IF search = "off" THEN <<"start">> ELSE <<"stop", "start">>)
       /\ net' = rest \cup ControlRequest(LastControl(local, current), {by})

(* The peer's answer arrives while check_status and sync_status are None or *)
(* Sections: "not last info status".                                        *)
LastInfoIgnored(m) ==
    /\ sync_status # "LastInfo" /\ check_status # "LastInfo"
    /\ net' = net \ {m}
    /\ UNCHANGED <<timerVars, statusVars, chainVars>>

(* The answer ends a check that found nothing to do (full mode). *)
NothingToSync(m) ==
    /\ mode = "Full"
    /\ ~NeedRecontrol(peer)
    /\ EndSync(<<"stop">>)
    /\ check_status' = "None"
    /\ net' = net \ {m}
    /\ UNCHANGED <<mode, search, light_requested, timer, target>>

MoreToDo == mode = "Light" \/ NeedRecontrol(peer)

(* sync_status_ is Sections when handle_sync_request looks at it. *)
SectionsWanted == sync_status \in {"LastInfo", "Sections"}

(* The answer belongs to a check: a sync is started. *)
CheckBecomesSync(m) ==
    /\ MoreToDo
    /\ ~SectionsWanted
    /\ check_status' = "Sections"
    /\ StartSync(status, <<"stop">>, net \ {m})
    /\ UNCHANGED <<mode, search, light_requested, timer, chainVars>>

(* A full client with a chain searches the last control both agree on;     *)
(* without any control this is the "Sync fatal error".                     *)
SearchControls(m) ==
    /\ mode = "Full" /\ NeedRecontrol(peer)
    /\ SectionsWanted
    /\ current # -1
    /\ sync_status' = "Sections"
    /\ check_status' = (IF sync_status = "LastInfo" THEN "None" ELSE "Sections")
    /\ target' = peer
    /\ \/ /\ LastControl(local, current) = -1
          /\ posted' = Append(posted, "stop")
          /\ net' = net \ {m}
          /\ UNCHANGED search
       \/ /\ LastControl(local, current) # -1
          /\ RequestControlSection(m.by, <<"stop">>, net \ {m})
    /\ UNCHANGED <<mode, status, light_requested, timer, current, local, cached>>

(* A light client that is not behind is ready at once. *)
NotNeedSync(m) ==
    /\ mode = "Light"
    /\ SectionsWanted
    /\ Present(local, current) /\ current >= peer
    /\ target' = peer
    /\ status' = "Ready"
    /\ sync_status' = "None"
    /\ check_status' = "None"
    /\ posted' = posted \o <<"stop", "stop">>
    /\ net' = net \ {m}
    /\ UNCHANGED <<mode, search, light_requested, timer, current, local, cached>>

(* Otherwise the download starts: section files for an empty full client,  *)
(* light data for a light one, with the timer armed.                       *)
StartDownload(m) ==
    /\ SectionsWanted
    /\ \/ mode = "Full" /\ NeedRecontrol(peer) /\ current = -1
       \/ mode = "Light" /\ ~(Present(local, current) /\ current >= peer)
    /\ sync_status' = "Sections"
    /\ check_status' = "None"
    /\ target' = peer
    /\ posted' = posted \o <<"stop", "start">>
    /\ net' = (net \ {m}) \cup
                 (IF mode = "Full" THEN FileRequest(0, MinOf(peer, current + Batch), m.by)
                  ELSE LightRequest(m.by))
    /\ light_requested' = (light_requested \/ mode = "Light")
    /\ UNCHANGED <<mode, status, search, timer, current, local, cached>>

(* network_status_sync_response. *)
NetworkStatusSyncResponse(m) ==
    /\ m.kind = "LastInfo"
    /\ \/ LastInfoIgnored(m)
       \/ /\ sync_status = "LastInfo" \/ check_status = "LastInfo"
          /\ \/ NothingToSync(m)
             \/ CheckBecomesSync(m)
             \/ SearchControls(m)
             \/ NotNeedSync(m)
             \/ StartDownload(m)
    /\ UNCHANGED <<poolVars, inserting>>

-----------------------------------------------------------------------------
(* network_control_range_response: compare the peer's controls m.from..m.to *)
(* with the local ones, lowest first.                                       *)

(* The lowest control asked for already differs: search further down. *)
ForceNext(m) == local[m.from] # "peer"

(* Mutant: the comparison goes on after the first control that differs. *)
SyncFromLast(m) ==
    LET differing == {s \in (m.from + 1)..m.to : local[s] # "peer"}
    IN  IF differing = {} THEN -1 ELSE Max(differing)

(* Otherwise the first control that differs, or the last one missing. *)
SyncFrom(m) ==
    LET above     == (m.from + 1)..m.to
        differing == {s \in above : local[s] = "own"}
        missing   == {s \in above : local[s] = "none"}
    IN  IF differing # {} THEN Min(differing)
        ELSE IF missing # {} THEN Max(missing) ELSE -1

(* Mutant: the request for the next range down is not sent. *)
WalkDownSilent(m) ==
    /\ ForceNext(m)
    /\ net' = net \ {m}
    /\ posted' = Append(posted, "start")
    /\ UNCHANGED <<statusVars, timer, chainVars>>

WalkDown(m) ==
    /\ ForceNext(m)
    /\ IF m.from = 0
       THEN /\ net' = net \ {m}
            /\ UNCHANGED <<search, posted>>
       ELSE /\ net' = (net \ {m}) \cup ControlRequest(m.from - 1, Peers)
            /\ search' = (IF search = "off" THEN "off" ELSE "live")
            /\ posted' = Append(posted, "start")
    /\ UNCHANGED <<mode, status, sync_status, check_status, light_requested,
                   timer, chainVars>>

(* Everything compared agrees and the client is not behind. *)
SearchSucceeds(m) ==
    /\ ~ForceNext(m) /\ SyncFrom(m) = -1 /\ target <= current
    /\ search' = "off"
    /\ EndSync(<<"stop">>)
    /\ net' = net \ {m}
    /\ UNCHANGED <<mode, check_status, light_requested, timer, target>>

(* remove_sections, then the first file request. *)
RemovedFrom(from) == [s \in Section |-> IF s >= from /\ s <= current THEN "none" ELSE local[s]]

RemoveAndDownload(m) ==
    /\ ~ForceNext(m) /\ (SyncFrom(m) # -1 \/ target > current)
    /\ LET from    == IF SyncFrom(m) = -1 THEN current ELSE SyncFrom(m)
           correct == MaxOf(0, from - BackOff)
       IN  /\ search' = "off"
           /\ posted' = Append(posted, "stop")
           /\ local' = RemovedFrom(correct)
           /\ current' = correct
           /\ check_status' = "None"
           /\ net' = (net \ {m}) \cup
                      FileRequest(correct, MinOf(from + Batch, target), m.by)
    /\ UNCHANGED <<mode, status, sync_status, light_requested, timer, target, cached>>

NetworkControlRangeResponse(m) ==
    /\ m.kind = "Controls"
    /\ WalkDown(m) \/ SearchSucceeds(m) \/ RemoveAndDownload(m)
    /\ UNCHANGED <<poolVars, inserting>>

-----------------------------------------------------------------------------
(* network_file_sections_response: the timer is stopped and a task of the   *)
(* dag_sync pool stores the files.                                          *)
(* A task is [from, to, by] with its progress: "store" the files, "end" the *)
(* sync it completes, "light" ask for the light data (saved is the status   *)
(* process_cached_transactions(true) puts back).                            *)

Task == [from : Section, to : -1..Top, by : Peers, at : {"store", "end", "light"},
         saved : {"Started", "Ready", "Final", "Sync", "Timered"}]

NetworkFileSectionsResponse(m) ==
    /\ m.kind = "Files"
    /\ m.from <= peer /\ m.from <= m.to
    /\ posted' = Append(posted, "stop")
    /\ tasks' = tasks \cup {[from |-> m.from, to |-> m.to, by |-> m.by, at |-> "store",
                             saved |-> "Sync"]}
    /\ net' = net \ {m}
    /\ UNCHANGED <<timer, statusVars, chainVars, lights, inserting>>

(* network_request_file_sections refuses a range it does not hold. *)
FileRequestRefused(m) ==
    /\ m.kind = "Files"
    /\ m.from > peer \/ m.from > m.to
    /\ net' = net \ {m}
    /\ UNCHANGED <<timerVars, statusVars, chainVars, poolVars, inserting>>

(* The task in light mode drops the files ... *)
StoreSkipped(t) ==
    /\ t.at = "store" /\ mode = "Light"
    /\ tasks' = tasks \ {t}
    /\ UNCHANGED <<timerVars, statusVars, chainVars, lights, inserting, net>>

(* ... and in full mode writes them and raises the current section. *)
StoreFiles(t) ==
    /\ t.at = "store" /\ mode = "Full"
    /\ LET files == t.from..MinOf(t.to, peer)
       IN  /\ local' = [s \in Section |-> IF s \in files THEN "peer" ELSE local[s]]
           /\ current' = Topmost(current, files)
    /\ target' = MaxOf(target, peer)
    /\ tasks' = (tasks \ {t}) \cup {[t EXCEPT !.at = "end"]}
    /\ UNCHANGED <<timerVars, statusVars, cached, lights, inserting, net>>

LastBatch(t) == t.to >= target - 1

(* Mutant: the task returns before it asks for the next batch. *)
NextBatchSilent(t) ==
    /\ t.at = "end" /\ ~LastBatch(t)
    /\ tasks' = tasks \ {t}
    /\ UNCHANGED <<timerVars, statusVars, chainVars, lights, inserting, net>>

(* The next batch is requested, with the timer armed. *)
NextBatch(t) ==
    /\ t.at = "end" /\ ~LastBatch(t)
    /\ tasks' = tasks \ {t}
    /\ posted' = Append(posted, "start")
    /\ net' = net \cup (IF mode = "Light" THEN {}
                        ELSE FileRequest(t.to + 1, MinOf(target, t.to + Batch), t.by))
    /\ UNCHANGED <<timer, statusVars, chainVars, lights, inserting>>

(* The files of a sync that ended otherwise change nothing more. *)
AlreadyReady(t) ==
    /\ t.at = "end" /\ LastBatch(t) /\ status = "Ready"
    /\ tasks' = tasks \ {t}
    /\ UNCHANGED <<timerVars, statusVars, chainVars, lights, inserting, net>>

(* process_cached_transactions(true) ... *)
FilesComplete(t) ==
    /\ t.at = "end" /\ LastBatch(t) /\ status # "Ready"
    /\ DrainCached
    /\ status' = "Final"
    /\ tasks' = (tasks \ {t}) \cup {[t EXCEPT !.at = "light", !.saved = status]}
    /\ UNCHANGED <<timerVars, mode, sync_status, check_status, search,
                   light_requested, target, lights, inserting, net>>

(* ... puts the status back, and the balances are requested. *)
RequestLight(t) ==
    /\ t.at = "light"
    /\ status' = t.saved
    /\ light_requested' = TRUE
    /\ net' = net \cup LightRequest(t.by)
    /\ tasks' = tasks \ {t}
    /\ UNCHANGED <<timerVars, mode, sync_status, check_status, search, chainVars,
                   lights, inserting>>

(* The same two steps when no other thread gets in between. *)
FilesEnd(t) ==
    /\ t.at = "end" /\ LastBatch(t) /\ status # "Ready"
    /\ DrainCached
    /\ light_requested' = TRUE
    /\ net' = net \cup LightRequest(t.by)
    /\ tasks' = tasks \ {t}
    /\ UNCHANGED <<timerVars, mode, status, sync_status, check_status, search,
                   target, lights, inserting>>

FileTask ==
    /\ \E t \in tasks :
          \/ StoreSkipped(t) \/ StoreFiles(t) \/ NextBatch(t) \/ AlreadyReady(t)
          \/ mode \notin setting.racy /\ FilesEnd(t)
          \/ mode \in setting.racy /\ (FilesComplete(t) \/ RequestLight(t))
    /\ UNCHANGED <<peer, checks, switches, setting>>

-----------------------------------------------------------------------------
(* network_response_light: a task of the single-threaded pool. *)

NetworkResponseLight(m) ==
    /\ m.kind = "Light"
    /\ Len(lights) < LightBound
    /\ lights' = Append(lights, "store")
    /\ net' = net \ {m}
    /\ UNCHANGED <<timerVars, statusVars, chainVars, tasks, inserting>>

(* The recent sections of the package, and section 0. *)
LightSections == {0} \cup {s \in Section : s <= peer /\ s >= peer - LightLag}

LightAt(pc) == lights # <<>> /\ Head(lights) = pc
LightGoes(pc) == lights' = <<pc>> \o Tail(lights)

StoreLight ==
    /\ LightAt("store")
    /\ local' = Filled(local, LightSections)
    /\ current' = Topmost(current, LightSections)
    /\ light_requested' = FALSE
    /\ LightGoes("drain")
    /\ UNCHANGED <<timerVars, mode, status, sync_status, check_status, search,
                   target, cached, inserting, net>>

(* process_cached_transactions() at the end of the task.  set_status(Ready) *)
(* writes the status, queues the stop of the timer, and only then           *)
(* sync_status_ is reset: three steps the node thread can run between.      *)
LightDrains ==
    /\ LightAt("drain")
    /\ DrainCached
    /\ status' = "Final"
    /\ LightGoes("ready")
    /\ UNCHANGED <<timerVars, mode, sync_status, check_status, search,
                   light_requested, target, inserting, net>>

LightReady ==
    /\ LightAt("ready")
    /\ status' = "Ready"
    /\ LightGoes("stop")
    /\ UNCHANGED <<timerVars, mode, sync_status, check_status, search,
                   light_requested, chainVars, inserting, net>>

LightStops ==
    /\ LightAt("stop")
    /\ posted' = Append(posted, "stop")
    /\ LightGoes("reset")
    /\ UNCHANGED <<timer, statusVars, chainVars, inserting, net>>

LightResets ==
    /\ LightAt("reset")
    /\ sync_status' = "None"
    /\ lights' = Tail(lights)
    /\ UNCHANGED <<timerVars, mode, status, check_status, search, light_requested,
                   chainVars, inserting, net>>

(* The same steps when no other thread gets in between. *)
LightEnds ==
    /\ LightAt("drain")
    /\ EndSync(<<>>)
    /\ lights' = Tail(lights)
    /\ UNCHANGED <<timer, mode, check_status, search, light_requested, target,
                   inserting, net>>

LightTask ==
    /\ \/ StoreLight
       \/ mode \notin setting.racy /\ LightEnds
       \/ mode \in setting.racy /\ (LightDrains \/ LightReady \/ LightStops \/ LightResets)
    /\ UNCHANGED <<tasks, peer, checks, switches, setting>>

-----------------------------------------------------------------------------
(* network_transaction: a transaction of section s is broadcast. *)

(* A node that is ready (or finishing a sync) proves and saves it ... *)
TransactionSaved(s) ==
    /\ status \in {"Ready", "Final"}
    /\ local' = Filled(local, Acceptable({s}))
    /\ current' = Topmost(current, Acceptable({s}))
    /\ UNCHANGED <<target, cached, inserting>>

(* ... one that is synchronising raises its target and, if it could not     *)
(* download the transaction, caches it for later.                           *)
TransactionCached(s) ==
    /\ status \notin {"Ready", "Final"}
    /\ target' = (IF s > target /\ s <= target + Ahead THEN s ELSE target)
    /\ IF mode = "Light" \/ light_requested
       THEN IF mode \in setting.racy THEN inserting' = s /\ UNCHANGED cached
            ELSE cached' = cached \cup {s} /\ UNCHANGED inserting
       ELSE UNCHANGED <<cached, inserting>>
    /\ UNCHANGED <<current, local>>

(* add_to_cached_tx, after status_ was read: racy settings only. *)
AddToCachedTx ==
    /\ inserting # Idle
    /\ cached' = cached \cup {inserting}
    /\ inserting' = Idle
    /\ UNCHANGED <<timerVars, statusVars, current, target, local, poolVars, net,
                   peer, checks, switches, setting>>

(* The peers add a transaction to their last section or open the next one,  *)
(* and its broadcast reaches the client or not.                             *)
NetworkTransaction ==
    /\ MayReceive
    /\ \E s \in {peer, peer + 1} \cap (0..setting.top) :
          /\ peer' = s
          /\ \/ TransactionSaved(s)
             \/ TransactionCached(s)
             \/ mode \in setting.lossy /\ UNCHANGED <<chainVars, inserting>>
    /\ UNCHANGED <<timerVars, statusVars, poolVars, net, checks, switches, setting>>

-----------------------------------------------------------------------------
(* An answer arrives, or never will. *)
Receive ==
    /\ MayReceive
    /\ \E m \in net :
          \/ NetworkStatusSyncResponse(m)
          \/ NetworkControlRangeResponse(m)
          \/ NetworkFileSectionsResponse(m)
          \/ FileRequestRefused(m)
          \/ NetworkResponseLight(m)
    /\ UNCHANGED <<peer, checks, switches, setting>>

Lose ==
    /\ mode \in setting.lossy
    /\ \E m \in net : net' = net \ {m}
    /\ UNCHANGED <<timerVars, statusVars, chainVars, poolVars, inserting, peer, checks, switches, setting>>

Next ==
    \/ StartCheck \/ ForceMode
    \/ Expires \/ SearchAges \/ TimerCall
    \/ Receive \/ Lose
    \/ FileTask \/ LightTask
    \/ NetworkTransaction \/ AddToCachedTx

Spec == Init /\ [][Next]_vars

(* Fairness: the event loop keeps taking queued calls and messages, both    *)
(* pools keep running their tasks and a running timer expires.              *)
Fairness ==
    /\ WF_vars(TimerCall) /\ WF_vars(Receive) /\ WF_vars(AddToCachedTx)
    /\ WF_vars(FileTask) /\ WF_vars(LightTask) /\ WF_vars(Expires)

LiveSpec == Spec /\ Fairness

-----------------------------------------------------------------------------
Statuses == {"Started", "Ready", "Final", "Sync", "Timered"}

(* Types of the variables; requested ranges stay within the chain. *)
TypeOK ==
    /\ mode \in {"Full", "Light"}
    /\ status \in Statuses
    /\ {sync_status, check_status} \subseteq {"None", "LastInfo", "Sections"}
    /\ search \in {"off", "live", "expired"}
    /\ {light_requested, timer} \subseteq BOOLEAN
    /\ posted \in Seq(Calls)
    /\ current \in -1..Top /\ target \in Section /\ peer \in Section
    /\ local \in [Section -> {"none", "peer", "own"}]
    /\ cached \subseteq Section /\ inserting \in Section \cup {Idle}
    /\ net \subseteq Request /\ tasks \subseteq Task
    /\ lights \in Seq({"store", "drain", "ready", "stop", "reset"})
    /\ checks \in 0..setting.checks /\ switches \in 0..setting.switches

(* No answer, task or queued call is left that could move the sync on. *)
NothingUnderWay ==
    net = {} /\ tasks = {} /\ lights = <<>> /\ posted = <<>> /\ inserting = Idle

(* A sync always has a way on: while status_ is Sync, an answer, a task or   *)
(* a queued call is under way or timer_sync_ runs, whose tick starts the     *)
(* sync again (start_sync: "start timer, after end -> again request").       *)
SyncRetries == status = "Sync" /\ NothingUnderWay => timer

(* One search request covers the chain: a longer search forgets a difference *)
(* at the lower edge of its window.                                          *)
OneWindow == setting.count > setting.top

(* A full client that has become ready, with nothing left under way, holds   *)
(* the peers' sections up to its current one: the search found every         *)
(* difference, and what remove_sections dropped was downloaded again.        *)
ReadyAgrees ==
    OneWindow /\ mode = "Full" /\ status = "Ready" /\ NothingUnderWay
        => \A s \in 0..current : local[s] = "peer"

(* Answers come, before the timer expires, and no thread races.              *)
Prompt == setting.lossy = {} /\ setting.late = {} /\ setting.racy = {}

(* With prompt answers a sync that was started ends: the control search      *)
(* walks down a finite chain, every batch leads to the next and the light    *)
(* data to Ready, across mode switches and checks at any point.              *)
SyncEnds == (Prompt /\ status = "Sync") ~> (status = "Ready")

=============================================================================
