----------------------------- MODULE NodeProcess -----------------------------
(***************************************************************************)
(* The threads of a process that runs a node through the C bindings        *)
(* (Cbindings/src/exc_node.cpp, exc_internal.h, ExtraChainNodeWrapper,     *)
(* ThreadPoolBoost), around the databases they share:                      *)
(*   - application threads call functions of the bindings; a call is       *)
(*     posted to the event loop and waits until its body has run there;    *)
(*   - the thread of the event loop creates the node, runs bodies and      *)
(*     events, and deletes the node when the loop was told to quit;        *)
(*   - threads of a pool run the jobs that bodies and events post; a       *)
(*     signal that a job emits runs a callback of the application on the   *)
(*     thread of the pool, and the callback may call the bindings.         *)
(* What a body, an event or a job does to the databases is the matter of   *)
(* Databases; here they are users of objects that the node owns.           *)
(***************************************************************************)
EXTENDS Databases, Sequences

CONSTANTS
    Loop,       \* the thread of the event loop
    Apps,       \* threads of the application
    MaxJobs     \* bound: jobs that wait in the pool

Pool == Threads \ {Loop}
Callers == Apps \union Pool

ASSUME ProcessAssumption ==
    Loop \in Threads /\ Apps \intersect Threads = {} /\ None \notin Apps /\ MaxJobs \in Nat

VARIABLES
    mode,       \* "thread" or "main": exc_init or exc_init_main_thread
    loop,       \* where the thread of the event loop is
    quit,       \* the loop was told to quit
    object,     \* event_loop_thread: "none", "set", "deleted"
    posted,     \* calls in the event queue of the application object
    body,       \* what the loop runs: None, "event" or a caller
    api,        \* api[c]: [step, what] of the call of c
    jobs,       \* jobs that wait in the pool
    working     \* threads of the pool inside a job

lifecycle == <<mode, loop, quit, object>>
calling == <<posted, body, api>>
pools == <<jobs, working>>
tables == <<reputation, balances, call, crashed>>
processVars == <<vars, lifecycle, calling, pools>>

(* The flags of GlobalState, and the node with its managers, follow from where
   the loop is. *)
Initialized == loop \in {"exec", "left"}
AppAlive == loop \notin {"none", "finished"}
NodeAlive == loop \in {"exec", "left", "cleared", "stopping", "joined"}

NoCall == [step |-> "idle", what |-> "none"]
Does(c, step) == api[c].step = step
Proceeds(c, step) == api' = [api EXCEPT ![c].step = step]
Returns(c) == api' = [api EXCEPT ![c] = NoCall]

ProcessTypeOK ==
    /\ TypeOK
    /\ mode \in {"thread", "main"}
    /\ loop \in {"none", "setup", "exec", "left", "cleared", "stopping", "joined", "deleted", "finished"}
    /\ quit \in BOOLEAN /\ object \in {"none", "set", "deleted"}
    /\ posted \in Seq(Callers) /\ body \in Callers \union {None, "event"}
    /\ \A c \in Callers : api[c].what \in {"none", "start", "call", "shutdown"}
    /\ jobs \in 0 .. MaxJobs /\ working \subseteq Pool

ProcessInit ==
    /\ Init
    /\ mode \in {"thread", "main"} /\ loop = "none" /\ quit = FALSE /\ object = "none"
    /\ posted = <<>> /\ body = None /\ api = [c \in Callers |-> NoCall]
    /\ jobs = 0 /\ working = {}

------------------------------------------------------------------------------
(* The event loop. *)

Enters(c, step, what) ==
    /\ api[c] = NoCall /\ calls < MaxCalls /\ ~crashed
    /\ calls' = calls + 1
    /\ api' = [api EXCEPT ![c] = [step |-> step, what |-> what]]

(* exc_init, under the mutex of GlobalState; a second node in one process is
   fatal (process). *)
Start(c) ==
    /\ mode = "thread" /\ ~Initialized /\ ~(\E d \in Callers : Does(d, "starting"))
    /\ Enters(c, "starting", "start")
    /\ loop' = "setup" /\ object' = "set"
    /\ crashed' = (loop # "none")
    /\ UNCHANGED <<reputation, balances, call, mode, quit, posted, body, pools>>

(* exc_init returns when the node is ready, or after 30 s. *)
StartReturns(c) ==
    /\ Does(c, "starting") /\ ~crashed
    /\ Returns(c)
    /\ UNCHANGED <<tables, calls, lifecycle, posted, body, pools>>

(* exc_init_main_thread and exc_run. *)
StartMain ==
    /\ mode = "main" /\ loop = "none" /\ loop' = "setup"
    /\ UNCHANGED <<tables, calls, mode, quit, object, calling, pools>>

LoopGoes(from, to) == loop = from /\ ~crashed /\ loop' = to

(* The application object, the wrapper and the node, then the flags. *)
SetUp ==
    /\ LoopGoes("setup", "exec")
    /\ UNCHANGED <<tables, calls, mode, quit, object, calling, pools>>

(* The next posted call. *)
RunCall ==
    /\ loop = "exec" /\ ~crashed /\ body = None /\ posted # <<>>
    /\ body' = Head(posted) /\ posted' = Tail(posted)
    /\ UNCHANGED <<tables, calls, lifecycle, api, pools>>

(* A message, a timer or a queued signal of the node. *)
RunEvent ==
    /\ loop = "exec" /\ ~crashed /\ body = None /\ calls < MaxCalls
    /\ calls' = calls + 1 /\ body' = "event"
    /\ UNCHANGED <<tables, lifecycle, posted, api, pools>>

(* Mutant: exc_shutdown only waits. *)
QuitsNot(c) == FALSE

(* The body of exc_shutdown. *)
Quits(c) == c \in Callers /\ api[c].what = "shutdown"

EndBody ==
    /\ body # None /\ call[Loop] = Idle /\ ~crashed
    /\ body' = None
    /\ quit' = (quit \/ Quits(body))
    /\ IF body = "event" THEN UNCHANGED api
       ELSE api' = [api EXCEPT ![body] = IF @.what = "shutdown" THEN [@ EXCEPT !.step = "ended"] ELSE NoCall]
    /\ UNCHANGED <<tables, calls, mode, loop, object, posted, pools>>

(* A callback on this thread calls exc_shutdown: with a thread of its own the
   loop would wait for itself and delete its running thread. *)
ShutdownInCallback ==
    /\ body # None /\ ~quit /\ ~crashed
    /\ quit' = TRUE /\ crashed' = (mode = "thread")
    /\ UNCHANGED <<reputation, balances, call, calls, mode, loop, object, calling, pools>>

(* The loop ends, and posted calls are left in the queue. *)
LeaveLoop ==
    /\ quit /\ body = None /\ LoopGoes("exec", "left")
    /\ UNCHANGED <<tables, calls, mode, quit, object, calling, pools>>

ClearFlags ==
    /\ LoopGoes("left", "cleared")
    /\ UNCHANGED <<tables, calls, mode, quit, object, calling, pools>>

(* terminate: no pool starts another job. *)
StopPools ==
    /\ LoopGoes("cleared", "stopping")
    /\ UNCHANGED <<tables, calls, mode, quit, object, calling, pools>>

(* Mutant: the pools are stopped, but not joined. *)
PoolsJoinedNot == TRUE

PoolsJoined == working = {}

JoinPools ==
    /\ PoolsJoined /\ LoopGoes("stopping", "joined")
    /\ UNCHANGED <<tables, calls, mode, quit, object, calling, pools>>

DeleteNode ==
    /\ LoopGoes("joined", "deleted")
    /\ UNCHANGED <<tables, calls, mode, quit, object, calling, pools>>

(* The destructor of the application drops the posted calls and so releases
   their callers; the static application of exc_run is not destroyed. *)
Finish ==
    /\ LoopGoes("deleted", "finished")
    /\ posted' = IF mode = "thread" THEN <<>> ELSE posted
    /\ api' = [c \in Callers |->
                  IF mode = "thread" /\ Does(c, "waiting")
                  THEN IF api[c].what = "shutdown" THEN [api[c] EXCEPT !.step = "ended"] ELSE NoCall
                  ELSE api[c]]
    /\ UNCHANGED <<tables, calls, mode, quit, object, body, pools>>

------------------------------------------------------------------------------
(* Calls of the bindings, by the application or by a callback in a job. *)

MayCall(c) == c \in Apps \/ (c \in working /\ call[c] = Idle)

(* EXC_CHECK_NODE. *)
Call(c, what) ==
    /\ Initialized /\ MayCall(c)
    /\ Enters(c, "checked", what)
    /\ UNCHANGED <<tables, lifecycle, posted, body, pools>>

(* dispatch_sync returns false: exc_shutdown ignores it. *)
NotDispatched(c) == IF api[c].what = "shutdown" THEN Proceeds(c, "ended") ELSE Returns(c)

(* dispatch_sync tests the application object, ... *)
FindApp(c) ==
    /\ Does(c, "checked") /\ ~crashed
    /\ mode = "main" => api[c].what # "shutdown"
    /\ \/ AppAlive /\ Proceeds(c, "found")
       \/ ~AppAlive /\ NotDispatched(c)
    /\ UNCHANGED <<tables, calls, lifecycle, posted, body, pools>>

(* ... and uses it later: after a second look, or when it has been destroyed. *)
PostCall(c) ==
    /\ Does(c, "found") /\ ~crashed
    /\ \/ /\ AppAlive \/ mode = "main"
          /\ posted' = Append(posted, c) /\ Proceeds(c, "waiting")
          /\ UNCHANGED crashed
       \/ ~AppAlive /\ crashed' = TRUE /\ UNCHANGED <<posted, api>>
       \/ ~AppAlive /\ NotDispatched(c) /\ UNCHANGED <<posted, crashed>>
    /\ UNCHANGED <<reputation, balances, call, calls, lifecycle, body, pools>>

(* exc_shutdown with the loop on the main thread. *)
QuitMain(c) ==
    /\ Does(c, "checked") /\ ~crashed /\ mode = "main" /\ api[c].what = "shutdown"
    /\ quit' = TRUE /\ Returns(c)
    /\ UNCHANGED <<tables, calls, mode, loop, object, posted, body, pools>>

(* exc_shutdown waits for the thread of the loop, if it is not deleted, ... *)
WaitForLoop(c) ==
    /\ Does(c, "ended") /\ ~crashed
    /\ IF object = "set" THEN Proceeds(c, "joining") ELSE Returns(c)
    /\ UNCHANGED <<tables, calls, lifecycle, posted, body, pools>>

(* ... and deletes it; another thread may have done so meanwhile. *)
DeleteLoop(c) ==
    /\ Does(c, "joining") /\ ~crashed
    /\ \/ /\ object = "set" /\ loop = "finished"
          /\ object' = "deleted" /\ Returns(c) /\ UNCHANGED crashed
       \/ /\ object = "deleted" /\ Returns(c) /\ UNCHANGED <<object, crashed>>
       \/ /\ object = "deleted" /\ crashed' = TRUE /\ UNCHANGED <<object, api>>
    /\ UNCHANGED <<reputation, balances, call, calls, mode, loop, quit, posted, body, pools>>

------------------------------------------------------------------------------
(* Pools, and the databases. *)

Busy(t) == (t = Loop /\ body # None) \/ (t \in working /\ api[t] = NoCall)

PostJob(t) ==
    /\ Busy(t) /\ jobs < MaxJobs /\ ~crashed
    /\ jobs' = jobs + 1
    /\ UNCHANGED <<tables, calls, lifecycle, calling, working>>

(* A stopped pool keeps its jobs and runs none. *)
TakeJob(t) ==
    /\ t \in Pool \ working /\ jobs > 0 /\ ~crashed
    /\ loop \in {"exec", "left", "cleared"}
    /\ jobs' = jobs - 1 /\ working' = working \union {t}
    /\ UNCHANGED <<tables, calls, lifecycle, calling>>

EndJob(t) ==
    /\ t \in working /\ call[t] = Idle /\ api[t] = NoCall /\ ~crashed
    /\ working' = working \ {t}
    /\ UNCHANGED <<tables, calls, lifecycle, calling, jobs>>

UseDatabase(t) ==
    /\ (Busy(t) /\ Begin(t)) \/ Continue(t)
    /\ UNCHANGED <<lifecycle, calling, pools>>

LoopStep ==
    \/ SetUp \/ RunCall \/ EndBody \/ LeaveLoop \/ ClearFlags
    \/ StopPools \/ JoinPools \/ DeleteNode \/ Finish

CallerStep(c) ==
    StartReturns(c) \/ FindApp(c) \/ PostCall(c) \/ QuitMain(c) \/ WaitForLoop(c) \/ DeleteLoop(c)

ProcessNext ==
    \/ LoopStep \/ StartMain \/ RunEvent \/ ShutdownInCallback
    \/ \E c \in Callers : Call(c, "call") \/ Call(c, "shutdown") \/ CallerStep(c)
    \/ \E c \in Apps : Start(c)
    \/ \E t \in Threads : PostJob(t) \/ TakeJob(t) \/ EndJob(t) \/ UseDatabase(t)

(* The loop, the threads of the pool and callers that are inside a call run;
   a job, a body and a statement end. *)
ProcessSpec ==
    /\ ProcessInit /\ [][ProcessNext]_processVars
    /\ WF_processVars(LoopStep)
    /\ \A c \in Callers : WF_processVars(CallerStep(c))
    /\ \A t \in Pool : WF_processVars(EndJob(t))
    /\ \A t \in Threads : WF_processVars(Continue(t) /\ UNCHANGED <<lifecycle, calling, pools>>)

------------------------------------------------------------------------------

(* ~ExtraChainNodeWrapper: before the node exists and once it is deleted, with
   its managers and the connections they own, no job of a pool, no body and no
   statement of a call is running, whenever exc_shutdown is called and whatever
   was posted.
   (The jobs that start hands to the global thread pool are not joined.) *)
NodeOutlivesUsers ==
    ~crashed /\ ~NodeAlive =>
        working = {} /\ body = None /\ \A t \in Threads : call[t] = Idle

(* A callback that called the bindings waits for the loop, which waits for it;
   a call was posted to an application object that is never destroyed. *)
Blocked ==
    \/ loop = "stopping" /\ \E t \in working : api[t] # NoCall
    \/ mode = "main" /\ loop = "finished"

(* dispatch_sync, exc_shutdown: every call of the application returns, also
   when the loop quits with the call posted and when several threads shut the
   node down, unless the process has died or is blocked as above. *)
CallsReturn ==
    \A c \in Apps : api[c] # NoCall ~> (api[c] = NoCall \/ crashed \/ Blocked)
==============================================================================
