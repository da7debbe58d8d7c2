# Formal models of extrachain-core

TLA+ modules for the parts of extrachain-core whose correctness depends on
interleavings, lost answers and crashes: how nodes link up, how messages spread
over the links and are received, how actors, chain, DFS directories, files and
rows are synchronised, the ledger with its balance cache, the databases and the
threads of the process around a node, and what a user's device builds on them:
profiles, named files, chats, own transactions, rewards. TLC checks the modules on
small instances; TLAPS proves, for every value of the constants, the safety
properties of every module but `DagSync`, and the refinement of the receive queue.
`PROJECT.json` lists the components, the runs, the source lines behind every
definition, the hazards and the theorems.

Check a run with `tlc -config <cfg> <module>`, a proof module with
`tlapm <module>.tla`.

## 1. Inventory

### Threads and communication

A node is one `ExtraChainNode` with a Qt event loop (the *node thread*), the
socket services, an SQLite worker inside the receive queue, and several boost
thread pools (`dag_sync` with 8 threads, a single-threaded light pool, `dfs`).
Components talk by direct calls on the node thread, by queued Qt signals, by
jobs posted to a pool, and by network messages. An application uses a node
through the C bindings, which post its calls to the node thread. Persistent state
is a directory of files (sections, controls, actors, DFS files) and SQLite
databases, with no commit that spans two of them.

### Components

| Component | State | Operations | Talks to | What is hard | Correct when | Module |
|---|---|---|---|---|---|---|
| Receive queue (`network_receive_queue.*`) | waiting items, active item, counters per peer and hash, deferred stage, wake flag, posted calls | enqueue, enqueue_maintenance, drain, dispatch, defer, complete, finish, stop | sockets (producers), NetworkManager (handler), SQLite worker | three kinds of threads, nested event loops, throwing handlers, stop at any point | nothing accepted is lost or reordered, one stage at a time, wakeups are not lost | `NetworkReceiveQueue`, `SerialReceiver` |
| Chain synchronisation (`dag.cpp`, client build) | status, sync/check status, search latch, timer, section files, cached transactions | start_sync, start_check, timer_tick, status/control/file/light responses, mode switch | peers, node timer (queued signals), pools | late, lost and multiple answers, timer calls that are queued, pool tasks racing with handlers | a sync keeps a continuation, ends, and the chain then agrees with the peers' | `DagSync` |
| Ledger and balance cache (`dag.cpp`, `dag_cache.cpp`, full node) | sections, controls, `balance_cache`, range file, current and cached section | network_transaction, send_transaction, network_transaction_result, save_transaction, cache update with clearing pass, control generation, restart | peers, SQLite, files | out-of-order sections, double spends, four writes per save, crash in between | cached balances and controls equal the section files, no overdraft reaches the cache, a restart finds everything | `DagLedger` |
| Links (`websocket_service.*`, `isocket_service.*`, parts of `network_manager.cpp`) | sockets and their phase, peers kept away, `failed_ips_`, `reconn_`, network id | port check, connect, accept, handshake, drop, reconnect | sockets, NetworkManager | both sides dial, texts queued while a disconnect is handled at once | one link per peer, nothing half open | `SocketLink` |
| Send queues (`websocket_service.*`) | three queues by priority, wake and buffer flags, messages that wait for activation | send, dequeue, write, bytes written, receive, close | sockets, NetworkManager | calls that are queued, a buffer that fills, an end at any time | on an active connection nothing is lost, overtaken or left without a wake | `SendQueue` |
| Broadcast routing (`network_manager.cpp`) | `messages_`, `forwarded_messages_`, ignore lists in frames | send, ignore, handle, pass on, answer, expire | every manager | copies over several paths, links that change, expiry | every node handles a broadcast once, an answer reaches its asker | `BroadcastRouting` |
| Actor index (`actor_index.*`, `actor_filter.h`) | actor files, rows, counter, bucket hashes, `actors_todo_map_` | create, batch save, exchange by hash, first exchange | peers, SQLite, node start | files and rows without a common commit, one bad row of a batch | rows, files, counter and hashes agree; the first exchange ends; actors spread | `ActorSync` |
| Downloads (`load_manager.*`) | downloads, reads, requests in flight, forced files | add_to_queue, timer, fragment arrival and its pool job | peers, DFS pool | locks released between the steps of a job, counters only an arrival lowers, late duplicates | a Ready file is intact, a download ends | `FileDownload` |
| DFS directories (`dfs_controller.cpp`, `dirs_manager.cpp`) | rows with a predecessor chain, contents, download queue | store, folders, move, remove, announce, synchronise at a handshake | LoadManager, peers | rows and announcements cross, links break, nodes restart | no row is lost, rows and files spread | `DfsDirectory` |
| DFS rows (`dfs_vector.cpp`, `historical_collection.cpp`) | rows per key; numbered history and its table | add, update, remove, fetch | peers | several writers, content fetched during writes, ids taken twice | copies agree when nothing is on its way | `DfsContent` |
| Accounts (`account_controller.*`, `private_profile.*`) | profile files in two formats at one path, list, session | create, login, wallets, services, credentials, delete, export, import | ActorIndex, C bindings | a crash between two files, formats that overwrite each other | a profile opens, its keys are found | `Profiles` |
| Chat (`chat_manager.*`) | chats in memory, the encrypted list `MyChats`, chat vectors, invitations | create, invite, parse, subscribe, write, edit, remove, last message | DFS, node start | calls of several writes, two threads, crash in between | an invitation that was removed is in the list, the last message is the newest | `Chat` |
| Reputation (`luminance_manager.*`), `DbConnector`, `DagCache` | SQLite table, cache, generation; cached balances, their section, connector | cached read, update, remove_old; cache update, light data, reset, init | receive handlers, pools | the lock covers a statement, not what a caller does between two | a cached value is a committed value, balances are of one section | `Databases` |
| Process around a node (C bindings, `ExtraChainNodeWrapper`, `thread_pool_boost.*`) | flags, event loop, posted calls, jobs of pools | start, call, callback, shutdown, terminate, join | application threads | calls that cross the end of the loop, callbacks that call back | nobody uses a deleted node, every call returns | `NodeProcess` |
| Named files (`extrachain_node.cpp`, `thoth_manager.*`, `janus_manager.*`) | templates and vectors found by name, renames, `infos_` of Thoth | create, rename, add and read records | DFS | lookups and downloads on three threads, restarts, a second device | one file per name, Thoth knows its records | `NamedFiles` |
| Own transactions (`token_manager.*`, parts of `dag.cpp`, `extrachain_node.cpp`) | `sended_transactions_`, `cache_creation_`, `subscription_row_` | create token, subscribe, result, save | ledger, DFS | results before the note of what they are for, contradictory results | what is stored names a saved transaction | `OwnTransactions` |
| Data mining (`data_mining_manager.*`) | timer, `last_reward_` | request, serve | ledger, peers | places given away and refused requests | rewards are spaced | `Rewards` |
| Permissions, versions and names; transaction cache and contracts; file data manager; encryption; numbers and files; discovery and UPnP | see `PROJECT.json` | | | pure functions, display, or I/O | | not modelled |

The hazards, each at its line, are in `PROJECT.json`.

## 2. Modules and how they correspond to the code

### NetworkReceiveQueue

One action per critical section of `queue_mutex_` or `work_mutex_`, or per run
of code that only the owner thread observes: `Enqueue`, `EnqueueCopy` and
`EnqueueRefused` (the three returns of `enqueue`), `EnqueueMaintenance`,
`ProducerSchedule`, `DrainBegin`/`Dispatch`/`DrainEnd`/`DrainSchedule` (the loop
of `drain`, at most `Quantum` items), `CallReturn`/`CallThrow`/`FinishSchedule`
(`invoke`, `finish_turn`, `finish_active`), `Defer`, `Complete`,
`CompleteStopped`, `NestedEvent` (a handler that runs an event loop),
`WorkerTake`/`WorkerRun`/`WorkerPost`/`WorkerExit` (`worker_loop`) and
`StopBegin`/`StopEnd` (`stop` up to and after the join). The packet handler is a
parameter of the class, so the model lets it return, throw, defer, run a nested
loop or call `stop`, in any order. `owed`, `promised`, `executed` and `retired`
are history variables. Hashes may collide, as `std::hash` may.

`SerialReceiver` is the abstract specification: ids are accepted into a
sequence, served one at a time, each with its SQL stages, until the receiver
closes. `ImplementsSerialReceiver` is the refinement (waiting = the ids of the
queue, current = the id of the active item, sql = executed stages).

### DagSync

The client (`IS_APP_CLIENT`) side of synchronisation. Every response handler is
one action with one disjunct per early return, in the order of the code;
`EndSync`, `StartSync` and the timer are shared operators. `dagTimerStart`,
`dagTimerStop` and the reports are queued connections in `extrachain_node.cpp`,
so they go through `posted`, a FIFO handled by `TimerCall`. File responses
become `tasks` of an 8-thread pool and light responses `lights` of a
single-threaded pool, both split where they write shared state. A change of
mode clears the chain (`Cleared`). Peers are honest and share one chain that may
grow by transactions (`NetworkTransaction`).

What surrounds the client is a *setting*, one of the constant `Settings`, chosen
in the initial state: which peers answer, how long their chain is, how many
controls a window asks for (`COUNT`), how many checks and mode switches happen,
and the modes in which answers may be lost (`lossy`) or late (`late`) and pool
threads may run between any two statements of the node thread (`racy`).

Controls are scaled to one per section: the interval of 20 only decides which
ids have a control, and alignment is the identity in the model; the batch, the
back-off below the first difference and the search window keep their roles as
constants. A stored section is the peers' or the client's own; hashes decide
equality only.

### DagLedger

A full node that is `Ready`. `save_transaction` is a job of several steps
(`StartSave`, `UpdateCache` or `CacheNotDue`, `PublishCache`, `UpdateRange`,
`WriteSection`, `Answer`): the steps are the points between two writes to disk,
where `Crash` may happen, and nothing else runs in between because all of it is
on the node thread. `Proved` is `prove_transaction`, with its rules per type in
`Permitted` and the search for the same transaction in `Duplicate`;
`SenderBalance` is its balance computation, `Exorcised` the clearing pass of
`local_clear_less_balances` (`Cleared`, one transaction after the other in
`Processed`, which spares those that are `Exempt`; each removal is `Without`), `Safe` and `CacheDue` the
target of `check_and_update_cache`, `GenerateControls` with `FirstControls`,
`IntervalEnds`, `Chained` and `LastControl` the control generation. A restart
reads the range file. A control is the content it hashes, so two controls are
equal exactly when the contents are.

### SocketLink

Two or three nodes and a few sockets, each with two ends. A socket goes through
`ProbeFails`/`ProbeOk` (the port check before a dial, with the connection it may
close to make room), `Accept`, `Connected`/`ConnectTimeout`, then `ReceiveKey`
and `ReceiveHello` (public keys and `HandshakeMessage`, whose acceptance is
`Activate`, `Reject`, `Duplicates`, `Full` and `Foreign` in the order of the
code), `Disconnected` and `TooLate` (a text that is read after the socket was
closed). `SetAvoided` and `DropAvoided` are the two halves of keeping a peer
away: the set changes at once, the sockets are dropped by a queued call.
`Reconnection` is the timer of the clients, `Cut` a broken connection.

### SendQueue

The messages of one connection. `SendMessage` is `send_message`; `TryDequeue`
and `WriteMessage` are the two queued calls, which go through `posted` in order:
a dequeue takes the first message of the highest priority (`Highest`), posts its
write and then the next dequeue (`ScheduleDequeue`), unless the socket takes no
more (`CanSendMore`); `BytesWritten` is the signal that starts the draining again.
`HandleHello` and `HandleBinary` are the texts and messages received, `Break` a
socket that is no longer connected before it says so, `CloseSocket` the end.
`taken` and `written` are history variables.

### BroadcastRouting

A graph of links; `Send`, `Receive` (`Ignored`, then handling and passing on by
kind of message in `DispatchRequest`, or `PrepareResponse` for an answer),
`Answer`, `Expire` of a record, `Break` of a link. `AddServices` and `Receivers`
are the ignore lists: the peers a hop is connected to are ignored by the next.
One frame is handled at a time, which is what `SerialReceiver` promises.

### ActorSync

A save is one step whose outcome (`Saved`) depends on a fault: stored, rolled
back, rolled back with its files left behind; `Crash` stops it in the middle.
`Activate` sends the hashes of a node's buckets, `HandleHash` stores or keeps
what it answers, `HandlePage` and `SendPage` are the paged answers, `HandleNew`
and `Forward` a new actor, `EndFirst` what the node starts when its first
exchange ends. `left` and `failed` are history variables.

### FileDownload

One file of `N` fragments at one node. `TimerTick` and `RunTimer`/`Walk` are
`timer_runner` and its choice of peers; `RequestFile`, `StateResponse`,
`AddToQueue` and `ExistenceReply` lead to a download; a fragment is a job with
the steps `CheckFragment`, `WriteFragment` (or `WriteFails`) and
`FinishFragment`, which is where the code holds different locks. The tables
`dl`, `keys` and `reads` are the three maps of LoadManager. `TenSecondsPass` is
the clock.

### DfsDirectory

One owner's directory on several nodes. User operations are `StoreFile`,
`StoreFolder`, `MoveToFolder`, `RemoveStoredFile`, `RemoveLocalFile` and
`RequestFile`; `Receive` handles broadcasts on the node thread and turns the rest
into jobs of the pool (`RunJob`, with `AnswerState`, `ResponseState`,
`RequestAll`, `ResponseDirRows`). `Replaced` and `Inserted` are INSERT OR REPLACE
and INSERT OR IGNORE with the UNIQUE predecessor. A download is one step
(`FinishDownload`): a neighbour has the file. `LinkDown`, `LinkUp` with
`SyncMessages`, and `Restart` are the faults.

### DfsContent

A file that is a vector or a collection. `AddVectorRow`, `RemoveVectorRow` and
`HandleAdd` with `Newer` decide by time; `AddRow`, `UpdateRow`, `RemoveRow` and
`HandleChange` number a history and change its table; `Ask`, `HandleRequest`,
`HandlePackage` with `RunPackage`, `HandleHistory` and `HandleRows` fetch a copy.
The CHECK of the history table, which refuses removals, is `Logged`.

### Profiles

An operation is the sequence of disk states it leaves (`Creating`, `Replace`,
`Listed`, ...); `Finished` takes the last one, `Interrupted` any earlier one and
ends the process. A seed file and a keys file share the path of a profile.
`known` and `given` are the credentials and keys the user was told, `astray` the
keys of sessions whose seed file `create_service` replaced, `hidden` the profiles
that a crash between the truncation of the list and its rewriting left off it, until
a list names them again. `Held` is what a profile's file holds or lets a login derive;
a login tries the profiles of the list only, so `Opened` and `Recoverable` ask for
the list as well. The properties promise the file and its keys of every profile, and
that a login finds them of every profile that is not hidden.

### Chat

A call is a list of writes (`CreateSteps`, `InviteSteps`, `ParseSteps`,
`SubscribeSteps`), done one by one in `StoreChat`, `Invite`, `EnsureMyChats`,
`Insert`, `Message` and `Consume`; `Restart` may come between any two. Calls of
the API, `Ready` with `ReadChats`, `Assign` and `ParseNext` run on the node
thread, `InviteDownloaded` and `TemplateDownloaded` on the DFS thread that
finished a file. `AddMessage`, `EditMessage` and `RemoveMessage` write rows of a
person's copy and `RowArrives` brings them to others. `LastMessage` is
`read_last_message`: pages of the newest rows (`Window`), as many as `PagesRead`
says the loop reads.

### Databases

A statement of `DbConnector` is one step, since it holds the mutex of its
connector; a caller's work between two statements is not protected and is split.
Reputation: `ReadLuminance`, `Select` and `Remember` (with the generation that was
read before), `WriteLuminance`, `Query` and `InvalidateAgain`. Cached balances:
`UpdateCache` (`update_to_genesis_section`) and `LightData`
(`network_response_light`) lead to `BeginBalances`, `WriteBalance` and
`CommitBalances`, under `mutex_` of `DagCache` (`Guarded`); `ResetDb` and `InitDb`
replace the connector. Any statement may fail.

### NodeProcess

Extends `Databases`: its threads make the calls of that module. The thread of the
event loop goes through `Start` or `StartMain` (`exc_init`,
`exc_init_main_thread`), `SetUp`, `RunCall`/`RunEvent`/`EndBody`, and after
`exc_shutdown` through `LeaveLoop`, `ClearFlags`, `StopPools`, `JoinPools`,
`DeleteNode` and `Finish`, in the order of `~ExtraChainNodeWrapper` and of the
destructor of the application. `Call`, `FindApp` and `PostCall` are
`dispatch_sync`, which tests the application object and then uses it;
`QuitMain`, `WaitForLoop` and `DeleteLoop` the rest of `exc_shutdown`;
`ShutdownInCallback` is its use from a callback. `PostJob`, `TakeJob` and `EndJob`
are `ThreadPoolBoost`; a thread inside a job may also call the bindings, as a
callback does. `UseDatabase` runs a step of `Databases`.

### NamedFiles

`StoreTemplate` and `StoreFromTemplate` are the stores with their early returns
(a name that is taken, a template that is missing or incomplete); the `Create...`
actions are the calls of the network's founder and of the users that use them.
`Rename` and `ReadRenames` find the private vector of renames through
`read_file_status_self` and its memory (`found`). `Announce`, `Content` and
`Deliver` bring rows of directories, contents and rows of vectors; `Restart`
forgets the memory and `Reinstall` the files too. Thoth: `StartThoth` and
`StopThoth` on the thread of the application, `Check` and `Record` for a row of
the network, `Finish`, `Waited` and `Bind` for a file that was downloaded;
`Lookup`, `Select` and `Insert` are the three parts of `read_all`, on whichever
thread calls it.

### OwnTransactions

`Pay`, `CreateToken` and `AddSubscription` send a transaction; `NoteToken` and
`NoteSubscription` note afterwards what it is for, because a result may come in
between. `NetworkResult` is `network_transaction_result` (`Approved`, `Rejected`)
with `check_self` and its signals (`FinalToken`, `SubscriptionRows`),
`NetworkTransaction` a transaction of another device of the user.

### Rewards

`RequestReward` is the timer of a mining node; `NetworkRequestCoinReward` the
check at a node that hears of it: `Served` with the cooldown, `Places` with the
places that are given away when there is none left (`Remembered`). `accepted` is a
history variable.

### How the modules fit

`SocketLink` says which links exist; the other network modules take a graph of
links that break and come back. `SendQueue` shows the order they rely on: a link
that stays up keeps it for messages of one priority. `BroadcastRouting` spreads a message over it and
assumes what `SerialReceiver` promises of a node. `DfsDirectory`, `DfsContent`
and `ActorSync` use plain channels between neighbours; duplicates and detours
are `BroadcastRouting`'s subject. `DfsDirectory` replaces `FileDownload` by its
promise (`DownloadEnds`). `Chat` and `NamedFiles` take announcements, downloads
and rows as steps that happen at any time, in the way `DfsDirectory` and
`DfsContent` describe; `OwnTransactions` takes proving and saving from `DagLedger`
as an outcome. `Profiles` uses the index of `ActorSync` as a set. `NodeProcess`
composes with `Databases`. `MCDevice` instantiates `Profiles`, `NamedFiles`,
`OwnTransactions`, `Rewards` and `SendQueue`, which share no state: a behaviour
exercises one of them, chosen at its start (`part`), and the run is the union of
the five. `MCNetwork` (`ActorSync`, `BroadcastRouting`, `SocketLink`) and `MCDfs`
(`DfsDirectory`, `DfsContent`) put parts that share no state into one module in
the same way, so that one proof module can be about all of them; each run lets
one part move, and the constants of the others are the smallest.

## 3. Runs

| Run | What it checks | Bounds |
|---|---|---|
| `receive_queue` | no lost wakeup, the borrowed item, accepted messages still waiting, shutdown, refinement of `SerialReceiver`; under fairness every item is retired or the queue is stopped | 2 producers, 2 colliding messages, 2 peers, 2 messages or 6 bytes, quantum 2, 2 stages, 3 items |
| `dag_sync` | `SyncRetries`, `ReadyAgrees`, `SyncEnds` in two settings: *Adverse*, a light client whose answers are late or lost or a full one whose pool threads run between any two statements; *Calm*, a prompt peer, several search windows, two checks, a mode switch | Adverse: 2 peers, chain of 4 to 5, a window that covers it, 1 check; Calm: 1 peer, chain of 2 to 3, window of 2, 2 checks, 1 switch |
| `dag_ledger` | cached balances and controls exact, no overdraft cached, a restart finds every section | 12 transactions of every type, 12 sections, 1 crash |
| `socket_link` | one active link per peer, every connection settles | 3 nodes (one a UI client with room for one), 2 sockets, 1 cut |
| `broadcast_routing` | handled once; with stable links everything is reached and every answer returns | ring of four with an app, a fifth node with Light links, a message of any kind and an actor, 1 break, 1 expiry |
| `actor_sync` | rows, files, counter and hashes agree; the first exchange ends, actors spread | 2 nodes, 3 actors, one that cannot be stored, pages of 1, 2 faults |
| `file_download` | a Ready file stays intact; a download ends when peers hold all or nothing | 2 peers, 3 fragments, 2 requests; one disturbance with one source, none with two |
| `dfs_directory` | no row disappears, rows reach the neighbours of their author, files are copied hop by hop | 3 nodes in a line, 1 file, 2 folders, 1 operation after the first folder, 1 restarting node |
| `dfs_content` | copies of vectors and collections agree when quiet | 3 nodes, 2 writers, 1 key, 3 writes, 2 fetches, 2 points in time |
| `device` | the file of a profile opens with known credentials and the keys shown are in it, and a login finds both unless a crash truncated the list of profiles; Thoth knows the records and no name is taken twice; what is stored for an own transaction is true; rewards are spaced; messages of a connection flow | an old and a new profile, 2 credentials, index 3, 2 random keys, 1 crash; founder, server and a device, 3 files, 2 keys, 1 reinstall; 3 transactions; 3 identifiers, 2 places, 6 ticks; 4 messages, a buffer of one, 1 arrival |
| `chat` | a removed invitation is in the list, the last message is right | 2 persons, 1 chat of any kind, 2 operations on messages, pages of 1, 1 restart |
| `databases` | no stale cached value, balances of one section, the node outlives its users, every call returns | 2 application threads, 1 pool thread, cache of 1 entry, 2 keys, 2 balances, 3 calls |

All of them pass. A run checks the properties a test would hardly reach; each
module also has a `TypeOK` that documents its variables. That of the receive
queue is a theorem and that of `Profiles` a part of the invariant proved; the
other invariants proved carry the types that their proofs need.

### Why the bounds are enough

*Receive queue.* Three items reach every combination of active, waiting and
just-queued; two stages show a stage after a stage; quantum 2 with 3 items ends
a drain with work left; both capacity limits are reached; two producers race
with each other and with the owner.

*DagSync.* In Calm a chain of up to four sections with a window of 2 gives a
search two windows and a section below them; batch 2 gives two file requests.
Adverse uses a window that covers the whole chain, because a longer search can
miss a difference (see the observations); its second peer gives duplicate and
crossing answers.

*DagLedger.* The constants of the code (interval 20, lag 15, distance 15, look
back 37) are scaled to 4, 3, 3, 5. The order that matters is kept:
distance = lag < interval < look back < 2 x interval. Twelve sections hold
sections 0, 4 and 8 as checkpoints, so the cache moves twice and the second
interval is chained to the first.

*SocketLink.* Two sockets between three nodes give two connections that cross
between one pair, or one peer each for a node with room for one. The two
initial network ids of one node make it foreign or not.

*SendQueue.* A buffer of one is full while others wait; four messages are one in the
buffer, one whose write is posted, and two of other priorities in the queues.

*BroadcastRouting.* A ring of four is the smallest graph in which two copies
meet at a node that neither sender sees; a Light link hangs on each of two
opposite nodes.

*ActorSync.* Page 1 gives answers of several pages, an unstorable actor shares a
bucket with none and a batch with one; two faults can hit the first exchange and
its repair.

*FileDownload.* Three fragments with two requests in flight leave one to ask for
when the others are under way; copies that end early give the smaller peer.

*DfsDirectory.* A line of three is one hop more than a broadcast's author sees.
One operation after the initial folder is enough for the broadcast, the
announcement and the synchronisation to cross; more operations reach only the
states named under the observations.

*DfsContent.* Two writers and two points in time give every order of two rows
and a tie; three writes fill a history past a removal.

*Profiles.* Index 3 is one more key than a session derives at login; two random
keys are one for the old profile's upgrade and one for a service. Credentials
are interchangeable, so those of the old profile are fixed.

*NamedFiles.* The instance takes one feature at a time (`Uses`), since features
meet only in the templates they need. Two keys let a record arrive while another
is being read; three files leave room for a template, its vector and a second
vector of the name, which is the one that must not be made. One actor is renamed,
and Thoth's template, which only the founder reads, stays there.

*OwnTransactions.* Three transactions are a token, another one of the same owner
and one of another device, or the same with a subscription.

*Rewards.* Three identifiers for two places let one wait for a place; a clock
to 6 with a cooldown of 2 and a memory of 3 passes a whole window after a place was
given away. The order cooldown <= memory is the code's (50 s, 90 s).

*Chat.* One chat is enough, as calls on different chats share only the list. Two
pages of one row each leave a message below the pages once there are three: the
first one and two more. One restart falls between any two writes of any call.

*Databases, NodeProcess.* Three calls are a start and two concurrent shutdowns,
or a call whose body uses the database while a pool thread does; a reader, a
writer and a second reader of one key. Two balances are the fewest that can be of
two sections; a cache of one entry is full at once.

### Fairness

*Receive queue.* Weak fairness of the owner's steps, of the worker's steps and
of a producer that is between its two critical sections. The operating system
runs these threads, and a handler and an SQL stage end. No producer must ever
call `enqueue`, and `stop` need not be called.

*DagSync.* Weak fairness of the event loop (queued calls, message handling), of
both pools and of a running timer. Requests are answered only in the setting
Calm, where `SyncEnds` starts: this is the one case in which the code can
promise an end. Whether the timer may expire while an answer is coming is the
field `late` of a setting.

*SocketLink, BroadcastRouting, ActorSync, DfsDirectory.* Weak fairness of
handling what has arrived (the event loop of each node), of pool jobs, and of a
link that is down coming up again (`DfsDirectory`, `ActorSync`: the reconnection
timer). A user's operations, cuts, crashes and expiries get none. Where a
property needs links that stop breaking it says so as a premise (`breaks = 0`,
`Steady`, `up = Links`), never as fairness.

*FileDownload.* Weak fairness of the 5 s timer, of pool jobs, of a peer that
answers, and of the clock once nothing else can happen.

*NodeProcess.* Weak fairness of the event loop, of a caller that is inside a call,
of jobs that end and of statements that are under way. No thread must ever start
a call.

*SendQueue, DfsContent, Profiles, Chat, Databases by itself, NamedFiles,
OwnTransactions, Rewards.* None; their properties are safety.

### Observations

Behaviour of the code that a property has as its exception, or that a module
leaves out, met while modelling; those marked (TLC) were counterexamples of an
earlier run of the same modules.

*Chain synchronisation.*
- (TLC) `network_control_range_response` stops the timer and then sends the file
  request without starting it again, and the request for light data after the
  last batch has none either; a lost answer leaves `status_` at Sync, where
  `start_sync` returns at once. No setting therefore loses answers of a full
  client.
- (TLC) A late file response stops the timer that is also the watchdog of a
  control search started meanwhile; a light client that is both late and racy
  loses its timer in the same way.
- (TLC) When the first difference is the lowest control of a window, the next
  window starts below it and forgets it; if that one agrees, the client becomes
  Ready on a forked chain. Late answers for a full client, or a second
  `start_check` while pool threads run, also end in Ready on a fork.
- A server above its cached section answers a control request by calling itself
  again; a client's `remove_sections` keeps the cached balances.

*Ledger.* All excluded from the properties by `Undisturbed`, but for the third and the
fourth, whose transaction is not in the instance. Of a node that died once, only
`SectionsRecorded` says something:
- (TLC) Acceptance distance and lag are both 15, so a transaction can enter the
  section that has just been cached and is never counted; so can an own
  transaction whose result arrives late, as the result handler checks no distance.
- (TLC) The clearing pass starts at the cached section although the balances it
  starts from already contain it; spends of that section count twice.
- (TLC) `prove_transaction` applies the section of the transaction to a balance
  that includes it already. An overdraft approved so is dropped before caching.
- (TLC) A transaction of section 1 is never cleared, and a Burn needs no balance; one
  that a peer submits for section 1 of a young chain leaves its sender below zero.
- (TLC) Balances are committed before the range file names their section; a
  restart in between adds the same sections twice.
- (TLC) A crash after the first clearing pass has written the range file, with
  nothing cached although the last section is past the lag, makes the first cache cover
  several intervals at once. Only control 0 is written then, and the next control
  is chained to it: the sections in between are in no control. This is why
  `ControlsExact`, too, needs that the node has not died.

*Links.*
- Two nodes that dial each other may each close the connection the other keeps;
  only clients run the timer that would dial again.
- A node at its limit still dials, is refused as unavailable, and its peer keeps
  it in `failed_ips_` until restart; a connection may be closed to make room for
  one that is then refused.
- The limit is tested when a connection starts; handshakes that end together can
  leave a node above it.
- A handshake read on a closed socket still closes the other link to the peer.
- Two nodes with empty network ids stay linked after they adopt different ones.

*Routing.*
- A `DagTransactionResult` is a broadcast that nobody passes on.
- A peer whose socket has just broken is still listed, so the next hop leaves it
  out; `ReachesAll` has stable links as its premise.
- A peer over a Light link is put in the ignore list without being sent the
  message.
- A collection change that is sent again carries the resender as its sender, and
  its author may handle it again.
- An answer after 120 s is handled at the hop whose record expired.

*Actors.*
- (TLC) Actors learned by an exchange are not passed on: in a line of three the
  last node gets them only when it reconnects, and a later `NewActor` of an actor
  the middle node knows stops there. `actor_sync` has two nodes for this reason.
- A node whose first peer counts fewer than its own records plus two ends its
  first exchange with nothing; `synch_count_` never falls, so after a large peer
  has left midway a smaller one cannot end the exchange.
- docs/actor-persistence.md says orphaned files are not repaired; the branch for
  a file without a row indexes them.

*Downloads.*
- Three slow or lost requests leave a peer's counter at its limit for good, as
  only an arriving fragment lowers it.
- Fragments that are complete but do not match leave the record such that the
  download never asks again; peers with parts of a file can keep each other's
  download alive for ever. `DownloadEnds` has whole copies as its premise.
- A late duplicate after the end leaves reads behind that block a later download
  of the file; so does a forced request during one.
- A download that ends after the row was removed brings the row back.

*Directories.*
- `move_to_folder` broadcasts a folder it does not store itself, and nodes that
  hold the file ignore the moved row.
- A removal is verified against the row before its modification and never
  verifies at a receiver; a synchronisation brings the row back at the remover.
- Two writers that append at once take the same predecessor, and REPLACE deletes
  the row of one: `dfs_directory` has one writer.
- Rows learned by a synchronisation are not passed on: `KnownNearby` is about the
  neighbours of the author.

*Rows.*
- A removed vector row is overwritten by an older add, and two writers in the same
  millisecond diverge; a package replaces newer rows unchecked.
- Rows that arrive before the template, and rows written while content is being
  fetched, are lost.
- Two writers of a collection take the same number and their copies differ for
  good.
- A removal of a collection row violates the CHECK on the history's operation and
  is dropped there silently, so the next row takes its number; `remove_row`
  deletes the row of the first removal of the process again.
- `store_vector` with a link hands the template to `store_vector_impl`, so only
  older vectors are stored as links, and a missing template of theirs is not asked
  for.

*Accounts.*
- (TLC) `create_service` (the key of a token) saves all keys of the session over
  the seed file, since a random key cannot be derived; `change_credentials` looks
  at the profile's type alone and writes the seed again, so the service's key is
  gone after the next login. The comment in account_controller.h says "Neither
  the seed nor any profile data changes".
- A second `create_wallet` of a session returns the same key, because the index
  is the length of a list that does not grow.
- `create_wallet` names a wallet before its actor is indexed, so the name is
  refused; the keys derived in a session whose seed file was replaced are not in
  the new file.
- (TLC) The list of profiles is truncated and rewritten: a crash in between, during a
  creation, a login, an import or a removal of any profile, hides every profile from
  the login, though their files are intact. An import or a seed phrase lists one
  again. `ProfileOpens` and `KeysKept` state it as their exception (`hidden`).
- The session goes on after `delete_current_profile` and can write the file again.

*Chat.*
- `create_dialogue` ignores a failed insert into `MyChats`; the message that
  someone joined is lost when the chat's vector is not here yet.
- Any member can edit a message of another; the editor becomes the actor of the
  row, and the author cannot remove it any more.
- `chats_` is used by DFS threads without a lock; the model takes each access as
  atomic. `ready` and `downloaded` at the same time, or a crash between the insert
  and the removal of an invitation, list a chat twice.
- Invitations that are complete before `chat_actor_` is set wait for the next
  `ready`.
- When the 100 newest rows were all edited, an older unedited one that is newer
  than them in the order of writing is not found: the exception of
  `LastMessageRight`.
- Two devices, or a new installation, may create a second `MyChats`.

*Databases.*
- A light package is served from a pool without `mutex_`, though the comments at
  dag_cache.cpp:183 and :496 say the mutex protects the transaction block: it may
  see uncommitted rows, or rows of a section other than the one it names.
- Light data of an older section replaces newer rows, while `set_section` never
  lowers the number; `BalancesOfSection` excludes it by `behind`.
- `reset_db` clears `db_initialized_` before it tests it, so it neither closes nor
  removes the file; `clear_dag` does not reset `cached_section_`; `init_db` tests
  before it takes the mutex, and a reset in between leaves a null connector.
- `static std::recursive_mutex dbmutex` in a header is one mutex per translation
  unit; a failed `implementation_prepare` finalizes a statement its callers
  finalize again; `DbIterator` steps without the lock.

*C bindings.*
- A call posted while the loop ends is released by the destructor of the
  application and reports EXC_OK without having run, though exc_internal.h says
  that `dispatch_sync` returns false if dispatch failed. In main-thread mode the
  application object is static, so such a caller waits for ever.
- `exc_shutdown` from a callback waits for its own thread and deletes it; a
  callback on a pool thread that calls the bindings waits for the loop, which
  waits for it in `terminate`. Two concurrent shutdowns may delete the thread
  twice. `dispatch_sync` reads `gs.app` again after its test. extrachain_c.h:11 says
  "All functions are thread-safe".
- `exc_init` after `exc_shutdown`, or after the 30 s it waits, ends the process:
  a second node is fatal.
- Jobs that `start` hands to `QThreadPool::globalInstance` (migrations, the
  backfill of token allocations) use the node and are not joined by `terminate`.
- A handle's `get` returns a pointer after it released the lock; callback slots
  are written in two assignments without one.
- `exc_transaction_send` and `exc_transaction_send_from` create and sign a
  transaction and return a handle; no function of the bindings sends it.

*Named files.*
- Thoth's `read_all` gives every record of a file the token of the first row; what
  it waits for is the file bound so far, which may be none. A record is lost when
  the vector is not complete on the phone. `infos_` is shared by threads without
  a lock.
- `renames_todo_` is never filled: a rename before the vector is complete is lost,
  and waits under the wrong owner. Two devices, or a new installation, create two
  `Renames` vectors; a removed one blocks a new one, since `find_file_self` does
  not skip removed rows. `files_ready_status_` is keyed by the name alone.

*Own transactions.*
- The first rejection erases the transaction from `sended_transactions_`, so later
  approvals are ignored.
- `subscription_row_` is never cleared: a later Repeatable transaction, also of
  another device, adds the row again for the old vector.
- The second token of an owner gets no description, because its name in the folder
  is taken; `create_token` leaves a service actor behind when the owner has no
  keys; a result that comes before the note stores nothing.

*Rewards.*
- The cooldown starts even when the serving node is not Ready or lags behind and
  saves nothing; the same reward sent as an ordinary transaction is not limited; a
  restart of the serving node forgets `last_reward_`.

## 4. Proofs

The theorems hold for every value of the constants that satisfies the named
assumption of the module that declares them. These assumptions are types, values
that differ (`None`, `Nobody`), and what the code fixes:

| Assumption | Why the code justifies it |
|---|---|
| `DagLedger`: 0 < `Lag` < `Interval`, `Diff` <= `Lag`, finite `Txs` | 15, 20 and 15 in the code; a chain has finitely many transactions |
| `BroadcastRouting`: no node is linked with itself | `check_first_message` refuses its own identifier |
| `ActorSync`: finite `Actors` | an index is a file of rows |
| `Rewards`: `Cooldown` <= `Forget` | 50 s and 90 s |
| `SendQueue`: `Room` > 0 | a buffer of 0 bytes would never be written |
| `Profiles`: the id `Nobody` is no credential, seed or profile; `MaxIndex` > 1 | the empty id; index 0 is the profile, 1 the first wallet |
| `DfsDirectory`: finite `Files`, `First` a folder, files and folders differ | a directory is a table of rows; a folder is a row of its own kind |
| `SocketLink`, `Databases`, `NodeProcess`, `NetworkReceiveQueue`, `DfsDirectory`: `None` is no node, thread, key, file or number | it stands for `std::nullopt` and null pointers |
| `DfsContent`, `Chat`: `None` is no row, entry, vector or list | it stands for a row or a file that is not there |

Every proof has the same form: an invariant that is inductive, one lemma per action
that can disturb it, one step per conjunct. A property is seldom inductive alone;
below is what had to be added and why.

**`NetworkReceiveQueueProofs`.** `WakeupsNotLost` (`NoLostWakeup`), `BorrowSafe`
(`BorrowedItemStays`), `StopCompletesWork` (`StopJoinsAcceptedWork`),
`AcceptedWaits` (`AcceptedIsWaiting`), and, established by proof alone,
`TypeCorrect`, `StagesSerialised`, `ServedInOrder` and `QuietAfterStop`.
They follow from `Invariance`, the inductive invariant `IInv` with seven parts.
`OwnerInv` says where the owner thread is and what it holds there; without it
`finish_active` could run with nothing active. `WorkerInv` relates the worker's
position to `running` and to `stopped`. `StageInv` says that the deferred stage
is in exactly one of the slot, the worker, the event loop and `completion_`;
`OneStageInFlight` is the reading of it a user needs, but is not inductive
because it forgets which of the places is next. `PromiseInv` accounts for each
accepted stage. `WakeInv` couples `wake_pending` with the single posted drain
call; `OrderInv` numbers the held items consecutively. `AcceptedIsWaiting` is
inductive with types.

`Implements` proves the refinement: `Spec => ImplementsSerialReceiver`. Every step
is mapped to a step of `SerialReceiver` or a stutter under the mapping stated in
`NetworkReceiveQueue`. A stage that runs must be new to the abstract module, which
needs `FreshInv`: an executed stage belongs to an item retired before, or is one of
the first stages of the active one.

**`NetworkProofs`.** One theorem for each part of `MCNetwork`.

* `IndexAlwaysAgrees` (`IndexAgrees`). The counter grows by the
  number of ids a save adds, which is right because the batch is finite and new; so
  all places ids come from are typed (`Typed`), and lemmas on cardinalities of
  unions do the rest.
* `EachHandledOnce` (`HandledOnce`), for every topology.
  `RoutingInv` says of every frame in a channel that its message was sent, that no
  entry of it has expired, and that the ignore lists name its origin, from which it
  is therefore kept away; and of every node that it has not dispatched what its
  tables do not know. A duplicate is dropped because of `seen`, and what `seen`
  forgets is in no channel any more.
* `LinksUnique` (`OneLinkPerPeer`), for every set of nodes and
  dials. Added: a connection nobody opened has no service, and the property stated
  over the ends of connections, since a handshake activates one end at a time.

**`DfsProofs`.** One part is about directories, the other about what is in a file.

* `NoRowLost` (the action property `RowsKept`). A row that arrives replaces the rows
  with its file or with its predecessor, the UNIQUE column of the table, and so could
  delete the row of another file. `DirInv` (`OrderInvariance`) excludes it: the rows
  of the author are a chain without gaps (`Linear`), one row for a file, and every
  row in another table, in a message or in a job is a link of that chain
  (`Traffic`). The hypothesis `OneAuthor` says that one node holds the key of the
  directory, as in the run and as for a user with one device. With two such nodes
  that add at once the property is false (see the observations).
* `CopiesSame` (`CopiesAgree`), for every number of nodes, keys, writes and fetches.
  Of a vector: writes are told apart by their numbers and time follows them
  (`VecWrites`); a node hears of the writes of one actor in their order (`VecOrder`);
  a copy has, key by key, the last write it has heard of (`VecHeard`); and a
  package on its way has the last of all (`VecSent`). When nothing is on its way,
  every holder has heard of everything. Of a collection: a history is followed by its
  rows (`ColAsked`), an entry of one copy is in the others or on its way to them
  (`ColHeard`), and rows follow from the history. These clauses
  hold until one of the exceptions that the property names has happened
  (`VecGuard`, `ColGuard`).

**`ChatProofs`.**

* `InvitationSafe` (`InvitationKept`). The removal of the invitation is the last step
  but one of a call that other threads and a restart may interrupt anywhere, so the
  invariant (`ListInv`) is about what each call has yet to do (`Plan`, `JobOK`): the
  list is there before a chat is inserted, a call about to remove an invitation has
  its chat listed, and invitations name the person the chat was made for. Lists
  only grow and vectors stay (`Grows`), so a step of one call keeps what the others
  rely on.
* `LastMessageFound` (`LastMessageRight`). The invariant is small (copies are finite
  sets of rows that were written, an edited row is later than its original); the work
  is in the lemmas on pages, which are defined by counting: what is beyond the pages
  read is not later than what is on them (`WindowFirst`), and the pages end at a
  message that was never edited, at the last message, or at the limit (`LastPage`).

**`FileDownloadProofs`.** `ReadyStaysWhole` (`ReadyIntact`). `CopiesInv` says that
only fragments of the file are asked for, that what is on its way, in a job or in
an answer has the right content and amount, and that a Ready row has all fragments.
It holds when each peer's copy is a beginning of the file (`HoldBeginnings`, which
no step changes), as a sender that has the fragments in order has.

**`NodeProcessProofs`.** `CacheNeverStale` (`NoStaleValue`): an entry is committed, or the
generation has moved, or its writer is between the statement and the second
invalidation; `Current` says so of a reader that has not stored its value yet.
`OneSection` (`BalancesOfSection`): `Explained` says which rows a running rewrite has
already replaced and with what, `OneWriter` that there is one. `NodeIsThere`
(`NodeOutlivesUsers`): `Users` says where the loop must be while a body, a pool job or
a call is running. The first two rest on `TableInv`, which the other steps of the
process leave alone.

**`DagLedgerProofs`.** `RestartFindsSections` (`SectionsRecorded`): the range file is at
`current_section_` when a section is written, and the section of the running
save is at most `current_section_` (`Job`). `ControlsHash` (`ControlsExact`): where the
cache may be for a current section (`CachePlace`), that a section holds its own
transactions and a checkpoint none (`Placed`), and that the running save goes
above the section that will be cached next, or adds nothing (`SaveAbove`); these use the
arithmetic of interval and lag (`MultiplesApart`, `SafeFacts`, `SafeGrows`). Its
hypothesis `OpeningOnly` says that section 1 gets no Balance transaction but the
network's opening ones. `prove_transaction` would accept another one at any time; the
network's key signs them once, when it creates the chain.

`CacheAddsUp` (`CacheExact`) and `NobodyOverdrawn` (`NotOverdrawn`) are about sums over
sets of transactions; like `ControlsHash` they hold as long as the node is
`Undisturbed`, so they say nothing after a crash. `Total` is a fold, of which the provers
know only the recursive equation of `MapThenFoldSet`; that there is a function that satisfies it,
that it is the only one, and that the sum of two disjoint sets is the sum of their sums,
is proved by contradiction from a smallest set or number (`SmallestSet`, `LeastNumber`).
For `CacheAddsUp` the inductive invariant is that of the controls and `Sums`: the cached
balances are those of the section files up to the cached section, and, while a
save publishes them, up to the section it moves the cache to; it holds under
`OpeningOnly`. For `NobodyOverdrawn`, `PassedTo` says what the clearing
pass guarantees after each id: nobody it has passed is below zero, and its
balances are those of the cache and of the transactions it has kept. Transactions are
ordered by section, so the balances of the section the cache moves to are those after
some id (`SectionById`), and they are in credit; `CreditInv` adds that every stored
transaction was approved or opens the chain, so that without conversions out only
its sender loses by a transaction. The hypothesis `FirstSection` says that section 1
holds opening balances only. It is needed: section 1 is never cleared, and
with a Burn there, which a peer may submit while the chain is young and for which
no balance is asked, TLC finds an account below zero.

**`DeviceProofs`.** A theorem or two for each part of `MCDevice`; the other parts
leave its variables alone.

* `StoredForSaved` (`ResultsTrue`): a transaction that is to be decided has
  neither failed nor a description nor a row.
* `RewardsApart` (`RewardsSpaced`): a served identifier keeps its place for longer
  than `Forget`, so within that time the places bound the number served (a
  cardinality lemma), and those without a place were served long ago.
* `NoNameTwice` (`NamesUnique`): an installation has all files it made itself in its
  directory, and only `Renames` are private, so the search before a store sees the
  files of the same name. A file of an earlier installation has another `by`.
* `RecordsKnown` (`ThothKnows`), for every interleaving of the threads that enter
  Thoth. `ThothInv` says of every record in the complete vector that Thoth knows it
  or that it is on its way (`Sure`): the vector will be read again (`Again`: a lookup
  is due, or the slots of `downloaded` are not done), a thread is about to read the
  record or holds it (`Got`), or the handler of rows has it (`Seen`); and that Thoth
  has the vector's identifier or the vector will be read again, since a row is
  dropped while there is none. `Called` lists what each thread may have left to do.
  `NoNameTwice` is needed: were there two vectors of the name, a lookup might bind
  one and the rows arrive in the other. What other nodes do changes nothing the
  server has (`AsBefore`), which covers half of the actions.
* `NoMessageLost` (`MessagesFlow`): at most one write and one dequeue are posted, the write
  first (`CallsInOrder`); what was taken is what was written, the posted write, and
  the queue (`Kept`); a queue that is not empty has a wakeup posted or waits for
  buffer space (`WillWake`); the messages received are handled, cached or posted in
  their order (`InOrder`). Lemmas on sequences say what taking the first call and
  posting another does to the positions of the rest.
* `ProfilesOpen` (`ProfileOpens`) and `KeysFound` (`KeysKept`), the login's part of both for
  profiles that are not `hidden`: a profile the user has is on the list or hidden
  (`FilesOpen`), since an operation that ends keeps the names of the list and one that
  is cut off with an empty list hides what was on it (`Listing`); no file that a login needs
  is half written (`Written`); a seed not yet generated has left no trace
  (`Unborn`); the session holds the keys it has shown, and those derived from its
  seed below the next index are in the index of actors (`Session`), without which a
  login would stop at a gap. That the loop of a login finds all of them is
  a cardinality argument (`SeedFinds...`): as many keys as its length says are derived
  from indices with no gap.

### What is only model-checked

* Liveness (`...Ends`, `...Settles`, and the like) and ENABLED are outside the prover.
* `SyncRetries` and `ReadyAgrees` of `DagSync`, the only invariants of a run that no
  theorem states. They are true of the two settings of the run and false of others
  that its assumption allows: a lost answer to a full client, a late or lossy light
  client whose pool threads race, a second check while they do (see the
  observations). A theorem would need these excluded one by one, in hypotheses that
  the code does not enforce; a proof for one sync in one setting would say no more
  than the run, which explores that setting exhaustively.

## 5. Not modelled, and why

* Receive queue: metrics and logging; nothing else of the class.
* DagSync: malformed answers, peers without luminance and peers that are not
  ready behave as lost answers. The server side of the protocol is an honest
  peer. Pool threads that run between any two statements and several search
  windows are not combined.
* DagLedger: Genesis sections, the freeze of the minted amount, light mode,
  `save_transactions` (batches from a pool), the transaction index, torn file
  writes, and the exchange of controls between nodes (`network_hash_interval`).
  `create_transaction` and `create_transaction_from` only fill a record.
* SocketLink: versions, Light sockets, and pings (a lost pong is a broken
  connection). SendQueue: encryption, messages that cannot be prepared, `flush`. A
  peer's handshake precedes its messages, so the messages that wait for activation
  are those of a closed socket.
* BroadcastRouting: `check_message_count`, which never sees the same bytes twice;
  the cases of the dispatch are in the modules of the components they call.
* ActorSync: keys and JSON of an actor, and request messages nobody answers.
* DfsDirectory: searches, size statistics, import and export of files, the
  converter of old directories, versions and the validation of names.
  `PermissionManager` is commented out and nothing uses it.
* DfsContent: encryption of rows, signatures, retries of the download.
* Profiles: names of wallets, imported single actors, the hexadecimal seed, several
  loaded profiles at once.
* Chat: names of channels, user names (`read_username`), files sent in messages as
  content, two devices of one person.
* Databases: the text of SQL and of schemas. NodeProcess: handles, callback slots
  and conversions of arguments; the older `ThreadPool` of QThreads.
* NamedFiles: messages to the push service, bids and auctions as texts.
  OwnTransactions: names and tickers. Rewards: amounts
  (`calculate_reward_amount`), which are cut and never refused for the sender's own
  timer, and restarts of the serving node.
* Signatures and hashes are ideal; `BigNumber` is an integer; SQLite commits are
  atomic; thread pools run each job once.
* The parts in the last row of the inventory: pure functions, records for display,
  and I/O without shared protocol state.

## 6. Plan

Done, with proofs of the safety properties: `NetworkReceiveQueue` with the
refinement of `SerialReceiver`; `DagLedger`; `SocketLink`; `SendQueue`;
`BroadcastRouting`; `ActorSync`; `FileDownload`; `DfsDirectory`; `DfsContent`;
`Profiles`; `Chat`; `Databases` and `NodeProcess`; `NamedFiles`; `OwnTransactions`;
`Rewards`. Done, model-checked only: `DagSync`.

Left to model:

1. The exchange of controls between two nodes (`network_hash_interval`).
2. `remove_sections` together with the balance cache.

Left to prove: `SyncRetries` and `ReadyAgrees` of `DagSync`, for the settings in which
they hold.
