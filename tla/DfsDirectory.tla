---------------------------- MODULE DfsDirectory ----------------------------
(***************************************************************************)
(* The directory of one owner, replicated over connected nodes: rows of    *)
(* the table ActorsFiles, the files on disk, the broadcasts of             *)
(* DfsController and the synchronisation of DirsManager that runs when a   *)
(* link comes up.  Broadcasts are handled on the node thread; file states, *)
(* directory requests and their answers become jobs of the DFS pool, in    *)
(* any order.  LoadManager is what FileDownload promises: a queued         *)
(* download ends when a neighbour has the file.                            *)
(*                                                                         *)
(* The content and the name of a file never change under its id, so the    *)
(* hash of a row is right, or empty after a removal.  The links form a     *)
(* tree: duplicates of a broadcast are BroadcastRouting's subject.         *)
(***************************************************************************)
EXTENDS Naturals, Sequences, FiniteSets, SequencesExt

CONSTANTS
    Nodes,
    Links,          \* the links, as sets of two nodes
    Files, Folders, \* ids that may be stored
    First,          \* the folder that every node knows at the start
    Writers,        \* nodes that hold a key for writing into this directory
    Clients,        \* apps: DfsMode::Light, they answer a sync with their own rows
    Targets,        \* bound: folders that files and folders are stored in or moved to
    Restarting,     \* bound: nodes that may restart
    None,           \* no folder, no previous file
    MaxOps          \* bound: moves, removals, requests, broken links, restarts

ASSUME DirectoryAssumption ==
    /\ Links \subseteq {{a, b} : a \in Nodes, b \in Nodes}
    /\ First \in Folders
    /\ Writers \subseteq Nodes /\ Writers # {} /\ Clients \subseteq Nodes
    /\ Files \intersect Folders = {} /\ None \notin Files \union Folders
    /\ IsFiniteSet(Files) /\ MaxOps \in Nat

Ids == Files \union Folders

VARIABLES
    table,          \* table[n]: the set of rows in ActorsFiles
    content,        \* content[n]: the files on disk
    queue,          \* queue[n]: downloads in LoadManager, [file, notify]
    forced,         \* forced[n]: forces_files_
    chan,           \* chan[<<a, b>>]: messages from a to b, in order
    pool,           \* pool[n]: jobs posted to the DFS pool
    up,             \* links that are up
    checked,        \* nodes whose check_all_files has run (call_once)
    clock,          \* Utils::current_date_ms, distinct for every stored row
    removed,        \* history: ids removed by the owner
    dropped,        \* history: <<node, file>> removed locally
    ops

vars == <<table, content, queue, forced, chan, pool, up, checked, clock, removed, dropped, ops>>

Row == [file : Ids, prev : Ids \union {None}, folder : Folders \union {None}, by : Nodes,
        created : Nat, modified : Nat, state : {"Known", "Ready", "Removed"},
        emptied : BOOLEAN]

RowOf(n, f) == CHOOSE r \in table[n] : r.file = f
HasRow(n, f) == \E r \in table[n] : r.file = f

Pairs == {p \in Nodes \X Nodes : {p[1], p[2]} \in Links}

(* Types, the primary key and the UNIQUE column of the table. *)
TypeOK ==
    /\ \A n \in Nodes : /\ table[n] \subseteq Row
                        /\ \A r, s \in table[n] : r.file = s.file => r = s
                        /\ \A r, s \in table[n] : r.prev = s.prev /\ r.prev # None => r = s
    /\ content \in [Nodes -> SUBSET Files]
    /\ \A n \in Nodes : queue[n] \subseteq [file : Files, notify : BOOLEAN]
    /\ forced \in [Nodes -> SUBSET Files]
    /\ DOMAIN chan = Pairs
    /\ up \subseteq Links
    /\ checked \subseteq Nodes /\ removed \subseteq Ids
    /\ ops \in 0 .. MaxOps

Init ==
    /\ \E w \in Writers :
          table = [n \in Nodes |->
            {[file |-> First, prev |-> None, folder |-> None, by |-> w, created |-> 0,
              modified |-> 0, state |-> "Ready", emptied |-> FALSE]}]
    /\ content = [n \in Nodes |-> {}]
    /\ queue = [n \in Nodes |-> {}]
    /\ forced = [n \in Nodes |-> {}]
    /\ chan = [p \in Pairs |-> <<>>]
    /\ pool = [n \in Nodes |-> {}]
    /\ up = Links
    /\ checked = Nodes
    /\ clock = 0
    /\ removed = {} /\ dropped = {}
    /\ ops = 0

Neighbours(n) == {m \in Nodes : {n, m} \in up}

Operate ==
    /\ ops < MaxOps
    /\ ops' = ops + 1

(* The channels after n sends msg to every node of to. *)
Sent(n, to, msg) ==
    [p \in Pairs |-> IF p[1] = n /\ p[2] \in to \intersect Neighbours(n)
                     THEN Append(chan[p], msg) ELSE chan[p]]

RowMsg(r) == [kind |-> "row", row |-> r]
ExistMsg(f, notify) == [kind |-> "state", file |-> f, ready |-> TRUE, notify |-> notify]

------------------------------------------------------------------------------
(* The table ActorsFiles.                                                   *)

(* last_file_id_query: the rows that are nobody's predecessor. *)
ChainEnds(t) == {r \in t : \A s \in t : s.prev # r.file}

(* Mutant: the first end of a chain, not the last. *)
LastFileIdFirst(t) ==
    IF t = {} THEN None
    ELSE (CHOOSE r \in t : \A s \in t : r.created <= s.created).file

(* read_last_file_id: the only row that is nobody's predecessor, or else the
   row created last. *)
LastFileId(t) ==
    LET ends   == ChainEnds(t)
        latest == {r \in t : \A s \in t : s.created <= r.created}
    IN  IF t = {} THEN None
        ELSE IF Cardinality(ends) = 1 THEN (CHOOSE r \in ends : TRUE).file
        ELSE (CHOOSE r \in latest : TRUE).file

(* Two rows that the PRIMARY KEY or the UNIQUE column keeps apart. *)
Clash(r, s) == r.file = s.file \/ (r.prev = s.prev /\ r.prev # None)

(* REPLACE: every row that shares the key or the predecessor goes. *)
Replaced(t, r) == {s \in t : ~Clash(r, s)} \union {r}

(* INSERT of the rows of a synchronisation: add_dir_rows leaves out rows of
   removed files and every row that would break a constraint. *)
Inserted(t, rows) == {r \in rows : ~r.emptied /\ \A s \in t : ~Clash(r, s)}

Arriving(r) ==
    IF r.state = "Removed" \/ r.file \in Folders THEN r ELSE [r EXCEPT !.state = "Known"]

(* UPDATE of the state of a row, if it is there. *)
WithState(t, f, st) == {IF r.file = f THEN [r EXCEPT !.state = st] ELSE r : r \in t}

(* DirRow::calculate_hash covers every column but the state, and of that
   whether the file is removed; a signature is of that hash. *)
Hashed(r) == <<r.file, r.prev, r.folder, r.by, r.created, r.modified, r.emptied,
               r.state = "Removed">>

(* The row of a removed file. *)
Emptied(r, time) ==
    [r EXCEPT !.folder = None, !.emptied = TRUE, !.state = "Removed", !.modified = time]

(* is_file_already_downloaded. *)
AlreadyDownloaded(n, r) ==
    /\ HasRow(n, r.file)
    /\ IF r.file \in Folders
       THEN LET s == RowOf(n, r.file) IN s.emptied = r.emptied /\ s.state = "Ready"
       ELSE r.file \in content[n] /\ ~r.emptied

------------------------------------------------------------------------------
(* Operations of the user.                                                  *)

NewRow(n, f, folder) ==
    [file |-> f, prev |-> LastFileId(table[n]), folder |-> folder, by |-> n,
     created |-> clock + 1, modified |-> clock + 1, state |-> "Ready", emptied |-> FALSE]

(* A fresh id, and so a fresh name: nobody has a row of it. *)
Unused(f) == \A n \in Nodes : ~HasRow(n, f)

IsFolder(n, d) == d = None \/ (d \in Folders /\ HasRow(n, d))

(* store_file: copy, row, broadcast of the row, then of the existence. *)
StoreFile(n, f, d) ==
    /\ n \in Writers /\ f \in Files /\ Unused(f) /\ IsFolder(n, d)
    /\ LET r == NewRow(n, f, d)
       IN  /\ table' = [table EXCEPT ![n] = Replaced(@, r)]
           /\ chan' = [p \in Pairs |->
                IF p[1] = n /\ p[2] \in Neighbours(n)
                THEN chan[p] \o <<RowMsg(r), ExistMsg(f, TRUE)>> ELSE chan[p]]
    /\ content' = [content EXCEPT ![n] = @ \union {f}]
    /\ clock' = clock + 1
    /\ UNCHANGED <<queue, forced, pool, up, checked, removed, dropped, ops>>

(* store_folder. *)
StoreFolder(n, f, d) ==
    /\ n \in Writers /\ f \in Folders /\ Unused(f) /\ IsFolder(n, d)
    /\ LET r == NewRow(n, f, d)
       IN  /\ table' = [table EXCEPT ![n] = Replaced(@, r)]
           /\ chan' = Sent(n, Nodes, RowMsg(r))
    /\ clock' = clock + 1
    /\ UNCHANGED <<content, queue, forced, pool, up, checked, removed, dropped, ops>>

(* The folders above d, as this node sees them. *)
Above(n, d) ==
    LET up1 == [x \in Folders \union {None} |->
                  IF HasRow(n, x) THEN RowOf(n, x).folder ELSE None]
        step[k \in 0 .. Cardinality(Folders)] ==
            IF k = 0 THEN {d} ELSE step[k - 1] \union {up1[x] : x \in step[k - 1]}
    IN  step[Cardinality(Folders)]

(* update_file_metadata: of the changed row r only the hash, the size, the
   signature and the time are written. *)
Touched(old, r) == [old EXCEPT !.modified = r.modified]

(* move_to_folder: the new row is signed and broadcast, but
   update_file_metadata writes neither folder nor name: the own row keeps its
   folder. *)
MoveToFolder(n, f, d) ==
    /\ Operate
    /\ n \in Writers /\ HasRow(n, f) /\ IsFolder(n, d)
    /\ f \in Folders => d = None \/ f \notin Above(n, d)
    /\ LET r == [RowOf(n, f) EXCEPT !.folder = d, !.modified = clock + 1]
       IN  /\ table' = [table EXCEPT ![n] =
                (@ \ {RowOf(n, f)}) \union {Touched(RowOf(n, f), r)}]
           /\ chan' = Sent(n, Nodes, RowMsg(r))
    /\ clock' = clock + 1
    /\ UNCHANGED <<content, queue, forced, pool, up, checked, removed, dropped>>

(* remove_stored_file: the file goes, the row stays as removed, and the
   signature of that row is broadcast. *)
RemoveStoredFile(n, f) ==
    /\ Operate
    /\ n \in Writers /\ HasRow(n, f)
    /\ LET r == Emptied(RowOf(n, f), clock + 1)
       IN  /\ table' = [table EXCEPT ![n] = (@ \ {RowOf(n, f)}) \union {r}]
           /\ chan' = Sent(n, Nodes, [kind |-> "remove", file |-> f, time |-> clock + 1,
                                      sign |-> Hashed(r)])
    /\ content' = [content EXCEPT ![n] = @ \ {f}]
    /\ removed' = removed \union {f}
    /\ clock' = clock + 1
    /\ UNCHANGED <<queue, forced, pool, up, checked, dropped>>

(* remove_local_file. *)
RemoveLocalFile(n, f) ==
    /\ Operate
    /\ f \in content[n]
    /\ table' = [table EXCEPT ![n] = WithState(@, f, "Known")]
    /\ content' = [content EXCEPT ![n] = @ \ {f}]
    /\ dropped' = dropped \union {<<n, f>>}
    /\ UNCHANGED <<queue, forced, chan, pool, up, checked, clock, removed>>

(* request_file. *)
RequestFile(n, f) ==
    /\ Operate
    /\ f \in Files
    /\ forced' = [forced EXCEPT ![n] = @ \union {f}]
    /\ chan' = Sent(n, Nodes, [kind |-> "ask", file |-> f])
    /\ UNCHANGED <<table, content, queue, pool, up, checked, clock, removed, dropped>>

------------------------------------------------------------------------------
(* Messages.                                                                *)

(* network_store_file: a row of a file that is there is ignored, any other
   replaces what the table has, whatever its age. *)
StoredFromNetwork(n, r) ==
    IF AlreadyDownloaded(n, r) THEN table[n]
    ELSE Replaced(table[n],
                  [r EXCEPT !.state = IF r.file \in Folders THEN "Ready" ELSE "Known"])

(* network_remove_stored_file verifies the signature against the row as it is,
   not against the row it builds. *)
RemovalVerifies(n, m) == HasRow(n, m.file) /\ Hashed(RowOf(n, m.file)) = m.sign

(* The node thread takes the next message: broadcasts are applied and passed
   on, everything else is posted to the pool. *)
Receive(m, n) ==
    /\ <<m, n>> \in Pairs /\ chan[<<m, n>>] # <<>>
    /\ LET msg  == Head(chan[<<m, n>>])
           rest == [chan EXCEPT ![<<m, n>>] = Tail(@)]
           Forwarded == [p \in Pairs |->
                           IF p[1] = n /\ p[2] \in Neighbours(n) \ {m}
                           THEN Append(rest[p], msg) ELSE rest[p]]
       IN  \/ /\ msg.kind = "row"
              /\ table' = [table EXCEPT ![n] = StoredFromNetwork(n, msg.row)]
              /\ chan' = Forwarded
              /\ UNCHANGED <<content, pool>>
           \/ /\ msg.kind = "remove"
              /\ IF RemovalVerifies(n, msg)
                 THEN /\ table' = [table EXCEPT ![n] =
                           (@ \ {RowOf(n, msg.file)})
                             \union {Emptied(RowOf(n, msg.file), msg.time)}]
                      /\ content' = [content EXCEPT ![n] = @ \ {msg.file}]
                 ELSE UNCHANGED <<table, content>>
              /\ chan' = Forwarded
              /\ UNCHANGED pool
           \/ /\ msg.kind \notin {"row", "remove"}
              /\ pool' = [pool EXCEPT ![n] = @ \union {[from |-> m, msg |-> msg]}]
              /\ chan' = rest
              /\ UNCHANGED <<table, content>>
    /\ UNCHANGED <<queue, forced, up, checked, clock, removed, dropped, ops>>

(* LoadManager::add_to_queue for a row its sender has Ready. *)
Queued(n, fs, notify) ==
    {[file |-> f, notify |-> notify] :
        f \in {g \in fs : /\ n \notin Clients \/ g \in forced[n]
                          /\ g \notin content[n]
                          /\ \A q \in queue[n] : q.file = g => g \in forced[n]}}

Requeued(n, fs, notify) ==
    {q \in queue[n] : q.file \notin (fs \intersect forced[n])} \union Queued(n, fs, notify)

(* network_request_file_state. *)
AnswerState(n, job) ==
    /\ job.msg.kind = "ask"
    /\ chan' = Sent(n, {job.from},
                    [kind |-> "state", file |-> job.msg.file, notify |-> FALSE,
                     ready |-> HasRow(n, job.msg.file)
                               /\ RowOf(n, job.msg.file).state = "Ready"])
    /\ UNCHANGED <<table, content, queue, forced>>

(* Mutant: the answer to an announcement is queued without its notify flag. *)
ResponseStateQuiet(n, job) ==
    /\ job.msg.kind = "state"
    /\ IF job.msg.ready /\ HasRow(n, job.msg.file)
       THEN /\ queue' = [queue EXCEPT ![n] = Requeued(n, {job.msg.file}, FALSE)]
            /\ forced' = [forced EXCEPT ![n] = @ \ {job.msg.file}]
       ELSE UNCHANGED <<queue, forced>>
    /\ UNCHANGED <<table, content, chan>>

(* network_response_file_state. *)
ResponseState(n, job) ==
    /\ job.msg.kind = "state"
    /\ IF job.msg.ready /\ HasRow(n, job.msg.file)
       THEN /\ queue' = [queue EXCEPT ![n] = Requeued(n, {job.msg.file}, job.msg.notify)]
            /\ forced' = [forced EXCEPT ![n] = @ \ {job.msg.file}]
       ELSE UNCHANGED <<queue, forced>>
    /\ UNCHANGED <<table, content, chan>>

(* network_request_all: a node sends its whole table, an app what it wrote. *)
RequestAll(n, job) ==
    /\ job.msg.kind = "sync"
    /\ LET rows == IF n \in Clients THEN {r \in table[n] : r.by = n} ELSE table[n]
       IN  chan' = Sent(n, {job.from}, [kind |-> "rows", rows |-> rows])
    /\ UNCHANGED <<table, content, queue, forced>>

(* network_response_dir_rows: removed rows remove, new rows are inserted, and
   what the sender has Ready and this node lacks is queued. *)
ResponseDirRows(n, job) ==
    /\ job.msg.kind = "rows"
    /\ LET rows == job.msg.rows
           gone == {r.file : r \in {s \in rows : s.state = "Removed"}}
           kept == {IF r.file \in gone THEN [r EXCEPT !.state = "Removed"] ELSE r :
                      r \in table[n]}
           new  == Inserted(kept, rows)
           wanted == {r.file : r \in {s \in rows : /\ s.file \in Files
                                                  /\ s.state = "Ready"
                                                  /\ s.file \notin content[n] \ gone}}
       IN  /\ table' = [table EXCEPT ![n] = kept \union {Arriving(r) : r \in new}]
           /\ content' = [content EXCEPT ![n] = @ \ gone]
           /\ queue' = [queue EXCEPT ![n] = Requeued(n, wanted, FALSE)]
           /\ forced' = [forced EXCEPT ![n] = @ \ wanted]
    /\ UNCHANGED chan

RunJob(n, job) ==
    /\ job \in pool[n]
    /\ pool' = [pool EXCEPT ![n] = @ \ {job}]
    /\ \/ AnswerState(n, job) \/ ResponseState(n, job)
       \/ RequestAll(n, job)  \/ ResponseDirRows(n, job)
    /\ UNCHANGED <<up, checked, clock, removed, dropped, ops>>

------------------------------------------------------------------------------
(* Downloads and links.                                                     *)

(* The last fragment of a queued file: finish_him makes the row Ready, and a
   download that came from a notification is announced to the neighbours. *)
FinishDownload(n, q) ==
    /\ q \in queue[n]
    /\ \E m \in Neighbours(n) : q.file \in content[m]
    /\ queue' = [queue EXCEPT ![n] = @ \ {q}]
    /\ content' = [content EXCEPT ![n] = @ \union {q.file}]
    /\ table' = [table EXCEPT ![n] = WithState(@, q.file, "Ready")]
    /\ chan' = IF q.notify /\ HasRow(n, q.file)
               THEN Sent(n, Nodes, ExistMsg(q.file, TRUE)) ELSE chan
    /\ UNCHANGED <<forced, pool, up, checked, clock, removed, dropped, ops>>

(* A node without connections gives a download up. *)
DropDownload(n, q) ==
    /\ q \in queue[n] /\ Neighbours(n) = {}
    /\ queue' = [queue EXCEPT ![n] = @ \ {q}]
    /\ UNCHANGED <<table, content, forced, chan, pool, up, checked, clock, removed, dropped, ops>>

LinkDown(l) ==
    /\ Operate
    /\ l \in up
    /\ up' = up \ {l}
    /\ chan' = [p \in Pairs |-> IF {p[1], p[2]} = l THEN <<>> ELSE chan[p]]
    /\ UNCHANGED <<table, content, queue, forced, pool, checked, clock, removed, dropped>>

(* The process ends and starts again: tables and files stay, the rest goes. *)
Restart(n) ==
    /\ Operate
    /\ n \in Restarting
    /\ queue' = [queue EXCEPT ![n] = {}]
    /\ forced' = [forced EXCEPT ![n] = {}]
    /\ pool' = [pool EXCEPT ![n] = {}]
    /\ up' = {l \in up : n \notin l}
    /\ chan' = [p \in Pairs |-> IF n \in {p[1], p[2]} THEN <<>> ELSE chan[p]]
    /\ checked' = checked \ {n}
    /\ UNCHANGED <<table, content, clock, removed, dropped>>

(* A handshake ends and both sides run DfsController::sync: the first link of
   a process also asks for every file that is not there. *)
AskedFiles(n) ==
    {r.file : r \in {s \in table[n] :
        /\ s.file \in Files /\ s.state # "Removed"
        /\ n \notin Clients
        /\ ~(s.state = "Ready" /\ s.file \in content[n])}}

(* Mutant: only the first handshake of a process asks for the directories. *)
SyncMessagesOnce(n) ==
    IF n \in checked THEN <<>>
    ELSE LET fs == SetToSeq(AskedFiles(n))
         IN  [i \in DOMAIN fs |-> [kind |-> "ask", file |-> fs[i]]]
             \o <<[kind |-> "sync"]>>

SyncMessages(n) ==
    (IF n \in checked THEN <<>>
     ELSE LET fs == SetToSeq(AskedFiles(n))
          IN  [i \in DOMAIN fs |-> [kind |-> "ask", file |-> fs[i]]])
    \o <<[kind |-> "sync"]>>

LinkUp(l) ==
    /\ l \in Links \ up
    /\ up' = up \union {l}
    /\ chan' = [p \in Pairs |-> IF {p[1], p[2]} = l THEN SyncMessages(p[1]) ELSE chan[p]]
    /\ checked' = checked \union l
    /\ UNCHANGED <<table, content, queue, forced, pool, clock, removed, dropped, ops>>

------------------------------------------------------------------------------

UserStep ==
    \E n \in Nodes, f \in Ids :
        \/ \E d \in Targets :
             StoreFile(n, f, d) \/ StoreFolder(n, f, d) \/ MoveToFolder(n, f, d)
        \/ RemoveStoredFile(n, f) \/ RemoveLocalFile(n, f) \/ RequestFile(n, f)

Next ==
    \/ UserStep
    \/ \E m, n \in Nodes : Receive(m, n)
    \/ \E n \in Nodes : \E job \in pool[n] : RunJob(n, job)
    \/ \E n \in Nodes : \E q \in queue[n] : FinishDownload(n, q) \/ DropDownload(n, q)
    \/ \E l \in Links : LinkDown(l) \/ LinkUp(l)
    \/ \E n \in Nodes : Restart(n)

(* The node thread, the pool and the downloads make progress, and a broken
   link is dialled again until it is up. *)
Fairness ==
    /\ \A m, n \in Nodes : WF_vars(Receive(m, n))
    /\ \A n \in Nodes : WF_vars(\E job \in pool[n] : RunJob(n, job))
    /\ \A n \in Nodes : WF_vars(\E q \in queue[n] : FinishDownload(n, q))
    /\ \A l \in Links : WF_vars(LinkUp(l))

Spec == Init /\ [][Next]_vars /\ Fairness

------------------------------------------------------------------------------

(* No step of any node makes a row disappear from a table: a REPLACE that
   meets the UNIQUE predecessor of another file would delete that file's row. *)
RowsKept ==
    [][\A n \in Nodes, f \in Ids : HasRow(n, f) => HasRow(n, f)']_vars

(* Whatever links break and come back, a row that is stored and not removed
   becomes known to every node that has a link to its author: the broadcast is
   lost with a link, the synchronisation of the next handshake makes up for it. *)
KnownNearby ==
    \A f \in Ids : \A l \in Links : \A m \in l \intersect Writers : \A n \in l \ {m} :
        HasRow(m, f) ~> (HasRow(n, f) \/ f \in removed)

(* With stable links, nothing removed and nothing requested by hand, a stored
   file is copied hop by hop to every full node, moved meanwhile or not: each
   one announces what it fetched because of an announcement.  (A download that
   a user's request started first is not announced.) *)
CopiedEverywhere ==
    [](up = Links /\ removed = {} /\ dropped = {} /\ \A n \in Nodes : forced[n] = {}) =>
        \A f \in Files : \A n \in Nodes \ Clients :
            (\E m \in Nodes : f \in content[m]) ~> f \in content[n]
=============================================================================
