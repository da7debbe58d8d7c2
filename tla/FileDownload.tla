---------------------------- MODULE FileDownload ----------------------------
(***************************************************************************)
(* LoadManager of a node in DfsMode::Full: one file of N fragments is      *)
(* fetched from peers that answer at their own pace, over connections that *)
(* may lose a message or break.  Requests are issued by a 5 s timer on the *)
(* node thread and after every fragment; fragments are checked, written    *)
(* and counted by jobs of the DFS pool, which share the tables below under *)
(* locks that are released between the steps of a job.                     *)
(*                                                                         *)
(* A fragment is its number, its content is right or wrong; the hash of    *)
(* the file matches when every fragment is right.  The clock is the action *)
(* TenSecondsPass: a request or an attempt is older than ten seconds, or   *)
(* not.  Entries of m_amount_file_fragments_requests that are that old are *)
(* removed by the next timer_runner before it reads the table, so here     *)
(* they go when the time passes.                                           *)
(***************************************************************************)
EXTENDS Integers, Sequences, FiniteSets, FiniteSetsExt, SequencesExt, Bags, BagsExt

CONSTANTS
    Order,          \* the peers, in the order in which the connections are walked
    N,              \* number of fragments of the file
    Holdings,       \* possible copies of the peers: functions from peers to fragments
    MaxRequests,    \* MAX_CONCURRENT_DOWNLOADS
    MaxTrouble      \* bound, for each choice of copies: failed writes and disturbances
                    \* (lost messages, broken links, late answers, repeated requests)

ASSUME DownloadAssumption ==
    /\ N \in Nat \ {0}
    /\ MaxRequests \in Nat \ {0}
    /\ MaxTrouble \in [Holdings -> Nat]

Peers == Range(Order)
Fragments == 1 .. N

VARIABLES
    holding,        \* the right fragments of each peer's copy
    connected,      \* peers with an active connection
    row,            \* state of the directory row: "Known" or "Ready"
    good,           \* fragments of the own file that hold the right content
    dl,             \* m_active_downloads: the LoadInfo of the file, or NoDownload
    forced,         \* the file is in forces_files_
    sought,         \* peers that have yet to answer a DfsFileState request
    adds,           \* peers whose add_to_queue is between contains and emplace
    keys,           \* m_amount_file_fragments_requests: the sets of numbers asked for
    reads,          \* m_active_reads: the ReadStorage of the file, or NoReads
    jobs,           \* bag of fragment jobs on the DFS pool
    reqs,           \* bag of DfsFileRequest messages on their way
    resp,           \* bag of DfsFileFragment messages on their way
    asked,          \* peers that have yet to answer DfsFileRequestContinueUpload
    faults, disturbed

vars == <<holding, connected, row, good, dl, forced, sought, adds, keys, reads, jobs, reqs,
          resp, asked, faults, disturbed>>

NoDownload == [none |-> "download"]
NoReads == [none |-> "reads"]

Active == dl # NoDownload

(* LoadInfo::Attempts of a peer that was never asked: its last attempt lies
   at the epoch. *)
Fresh(p) == [id |-> p, counter |-> 0, old |-> TRUE]

LoadInfo == [list : Seq([id : Peers, counter : Int, old : BOOLEAN]),
             checker : SUBSET Peers, amount : 0 .. N, left : SUBSET Fragments]

Request == [peer : Peers, frags : SUBSET Fragments]
Fragment == [peer : Peers, frag : Fragments, right : BOOLEAN, amount : Fragments]
Job == [pc : {"check", "write", "finish"}, msg : Fragment]

(* Types of the tables; an identifier of a download is listed once, and only
   with its entry in identifier_storage_checker. *)
TypeOK ==
    /\ holding \in Holdings
    /\ connected \subseteq Peers
    /\ row \in {"Known", "Ready"}
    /\ good \subseteq Fragments
    /\ Active => /\ dl \in LoadInfo
                 /\ \A i, j \in DOMAIN dl.list : dl.list[i].id = dl.list[j].id => i = j
                 /\ \A i \in DOMAIN dl.list : dl.list[i].id \in dl.checker
    /\ forced \in BOOLEAN
    /\ sought \subseteq Peers /\ adds \subseteq Peers /\ asked \subseteq Peers
    /\ keys \subseteq SUBSET Fragments
    /\ reads = NoReads \/ reads \in [amount : Fragments, achieved : SUBSET Fragments]
    /\ IsABag(jobs) /\ BagToSet(jobs) \subseteq Job
    /\ IsABag(reqs) /\ BagToSet(reqs) \subseteq Request
    /\ IsABag(resp) /\ BagToSet(resp) \subseteq Fragment
    /\ faults \in Nat /\ disturbed \in Nat /\ faults + disturbed <= MaxTrouble[holding]

Init ==
    /\ holding \in Holdings
    /\ connected = Peers
    /\ row = "Known"
    /\ good = {}
    /\ dl = NoDownload
    /\ forced = FALSE
    /\ sought = {} /\ adds = {} /\ asked = {}
    /\ keys = {}
    /\ reads = NoReads
    /\ jobs = EmptyBag /\ reqs = EmptyBag /\ resp = EmptyBag
    /\ faults = 0 /\ disturbed = 0

Disturb ==
    /\ faults + disturbed < MaxTrouble[holding]
    /\ disturbed' = disturbed + 1

Quiet == reqs = EmptyBag /\ resp = EmptyBag /\ jobs = EmptyBag

------------------------------------------------------------------------------
(* timer_runner.                                                            *)

Upto(F, x) == {y \in F : y <= x}

(* One entry is stored per fragment number asked for, under the set of the
   numbers so far. *)
Entries(ks, F) == ks \union {Upto(F, y) : y \in F}

(* What a request asks for: the numbers left, in order, until the table of
   requests is full. *)
Wanted(d, ks) ==
    IF d.amount = 0 THEN {1}
    ELSE {y \in d.left :
            Cardinality(Entries(ks, {z \in d.left : z < y})) < MaxRequests}

(* Identifiers whose connection is gone are dropped; when none is left, every
   active connection becomes one. *)
Renewed(d) ==
    LET kept == SelectSeq(d.list, LAMBDA e : e.id \in connected)
        all  == SelectSeq(Order, LAMBDA p : p \in connected)
    IN  IF kept # <<>> THEN [d EXCEPT !.list = kept]
        ELSE [d EXCEPT !.list = [i \in DOMAIN all |-> Fresh(all[i])], !.checker = connected]

(* The walk over the identifiers.  It skips a peer with three unanswered
   attempts, stops at a peer that was asked less than ten seconds ago, and
   otherwise counts an attempt and asks; with nothing left to ask for the
   attempt is counted and the walk goes on. *)
(* Mutant: a peer is asked once. *)
TriesOnce(e) == e.counter < 1

Tries(e) == e.counter < 3
Due(e, urgent) == e.counter = 0 \/ e.old \/ urgent

Walk(d, ks, urgent) ==
    LET wanted == Wanted(d, ks)
        stops  == {i \in DOMAIN d.list :
                     Tries(d.list[i]) /\ (wanted # {} \/ ~Due(d.list[i], urgent))}
        end    == IF stops = {} THEN Len(d.list) ELSE Min(stops)
        counted == {i \in 1 .. end : Tries(d.list[i]) /\ Due(d.list[i], urgent)}
        asks   == wanted # {} /\ end \in counted
    IN  [dl     |-> [d EXCEPT !.list = [i \in DOMAIN d.list |->
                       IF i \in counted
                       THEN [d.list[i] EXCEPT !.counter = @ + 1, !.old = FALSE]
                       ELSE d.list[i]]],
         keys   |-> IF asks THEN Entries(ks, wanted) ELSE ks,
         sent   |-> IF asks THEN SetToBag({[peer |-> d.list[end].id, frags |-> wanted]})
                            ELSE EmptyBag,
         survey |-> \E i \in counted : Len(d.list) = 1 /\ d.list[i].counter = 1]

(* The download after timer_runner.  A full table of requests makes it return
   at once; a download without any connection is dropped.  urgent: it was
   called for this very file. *)
Runner(d, ks, urgent) ==
    IF d = NoDownload \/ Cardinality(ks) >= MaxRequests
    THEN [dl |-> d, keys |-> ks, sent |-> EmptyBag, survey |-> FALSE]
    ELSE IF Renewed(d).list = <<>>
    THEN [dl |-> NoDownload, keys |-> ks, sent |-> EmptyBag, survey |-> FALSE]
    ELSE Walk(Renewed(d), ks, urgent)

RunTimer(d, urgent) ==
    LET r == Runner(d, keys, urgent)
    IN  /\ dl' = r.dl
        /\ keys' = r.keys
        /\ reqs' = reqs (+) r.sent
        /\ asked' = IF r.survey THEN connected ELSE asked

TimerTick ==
    /\ Active
    /\ RunTimer(dl, FALSE)
    /\ UNCHANGED <<holding, connected, row, good, forced, sought, adds, reads, jobs, resp,
                   faults, disturbed>>

(* Time only passes quickly enough to matter while something is on its way
   when the network or the disk is slow: that is a disturbance. *)
TenSecondsPass ==
    /\ Active
    /\ keys # {} \/ \E i \in DOMAIN dl.list : ~dl.list[i].old
    /\ keys' = {}
    /\ dl' = [dl EXCEPT !.list = [i \in DOMAIN dl.list |-> [dl.list[i] EXCEPT !.old = TRUE]]]
    /\ IF Quiet THEN UNCHANGED disturbed ELSE Disturb
    /\ UNCHANGED <<holding, connected, row, good, forced, sought, adds, reads, jobs, reqs,
                   resp, asked, faults>>

------------------------------------------------------------------------------
(* How a download starts.                                                   *)

(* request_file: the user wants the file; every neighbour is asked for its
   state of it.  A repeated request is a disturbance. *)
RequestFile ==
    /\ sought' = connected
    /\ forced' = TRUE
    /\ IF Active \/ forced \/ row = "Ready" \/ adds # {} THEN Disturb ELSE UNCHANGED disturbed
    /\ UNCHANGED <<holding, connected, row, good, dl, adds, keys, reads, jobs, reqs, resp,
                   asked, faults>>

(* is_file_already_downloaded: the hash of the file is compared with the row's. *)
Downloaded == good = Fragments

(* A peer's row is in state Ready when its copy is complete; other answers are
   dropped, and the rest is done on the DFS pool. *)
AnswersReady(p) == holding[p] = Fragments

(* The first half of add_to_queue: a forced request replaces a running
   download, any other leaves it alone, and a file that is there is not
   fetched again. *)
StateResponse(p) ==
    /\ p \in sought
    /\ sought' = sought \ {p}
    /\ IF AnswersReady(p)
       THEN /\ forced' = FALSE
            /\ dl' = IF forced THEN NoDownload ELSE dl
            /\ adds' = IF (forced \/ ~Active) /\ ~Downloaded THEN adds \union {p} ELSE adds
       ELSE UNCHANGED <<forced, dl, adds>>
    /\ UNCHANGED <<holding, connected, row, good, keys, reads, jobs, reqs, resp, asked,
                   faults, disturbed>>

(* add_node_identifier. *)
WithIdentifier(d, p) ==
    IF d = NoDownload \/ p \in d.checker THEN d
    ELSE [d EXCEPT !.list = Append(@, Fresh(p)), !.checker = @ \union {p}]

(* The second half of add_to_queue: emplace, or, when another thread was
   first, one more identifier for its download. *)
AddToQueue(p) ==
    /\ p \in adds
    /\ adds' = adds \ {p}
    /\ dl' = IF Active THEN WithIdentifier(dl, p)
             ELSE [list |-> <<Fresh(p)>>, checker |-> {p}, amount |-> 0, left |-> {}]
    /\ UNCHANGED <<holding, connected, row, good, forced, sought, keys, reads, jobs, reqs,
                   resp, asked, faults, disturbed>>

(* A neighbour with a directory row answers DfsFileRequestContinueUpload,
   whether or not it has anything of the file itself. *)
ExistenceReply(p) ==
    /\ p \in asked
    /\ asked' = asked \ {p}
    /\ dl' = WithIdentifier(dl, p)
    /\ UNCHANGED <<holding, connected, row, good, forced, sought, adds, keys, reads, jobs,
                   reqs, resp, faults, disturbed>>

------------------------------------------------------------------------------
(* The peer's side and the network.                                         *)

(* share_stored_file, whatever the state of the row: the fragments asked for,
   up to the end of the copy.  The claimed amount is the length of the copy,
   and a hole in it is sent like everything else. *)
Served(m) ==
    IF holding[m.peer] = {} THEN {}
    ELSE {[peer |-> m.peer, frag |-> f, right |-> f \in holding[m.peer],
           amount |-> Max(holding[m.peer])] : f \in Upto(m.frags, Max(holding[m.peer]))}

ShareStoredFile(m) ==
    /\ BagIn(m, reqs) /\ m.peer \in connected
    /\ reqs' = BagRemove(reqs, m)
    /\ resp' = resp (+) SetToBag(Served(m))
    /\ UNCHANGED <<holding, connected, row, good, dl, forced, sought, adds, keys, reads, jobs,
                   asked, faults, disturbed>>

LoseMessage ==
    /\ Disturb
    /\ \/ \E m \in BagToSet(reqs) : reqs' = BagRemove(reqs, m) /\ UNCHANGED resp
       \/ \E m \in BagToSet(resp) : resp' = BagRemove(resp, m) /\ UNCHANGED reqs
    /\ UNCHANGED <<holding, connected, row, good, dl, forced, sought, adds, keys, reads, jobs,
                   asked, faults>>

Without(bag, p) == LET kept == {m \in BagToSet(bag) : m.peer # p}
                   IN  [m \in kept |-> bag[m]]

Disconnect(p) ==
    /\ p \in connected
    /\ Disturb
    /\ connected' = connected \ {p}
    /\ sought' = sought \ {p}
    /\ asked' = asked \ {p}
    /\ reqs' = Without(reqs, p)
    /\ resp' = Without(resp, p)
    /\ UNCHANGED <<holding, row, good, dl, forced, adds, keys, reads, jobs, faults>>

Reconnect(p) ==
    /\ p \in Peers \ connected
    /\ connected' = connected \union {p}
    /\ UNCHANGED <<holding, row, good, dl, forced, sought, adds, keys, reads, jobs, reqs, resp,
                   asked, faults, disturbed>>

------------------------------------------------------------------------------
(* A fragment arrives: file_fragment_achieved.                              *)

(* On the node thread: the entry of exactly this number goes and a job is
   posted. *)
FragmentAchieved(m) ==
    /\ BagIn(m, resp)
    /\ resp' = BagRemove(resp, m)
    /\ keys' = keys \ {{m.frag}}
    /\ jobs' = BagAdd(jobs, [pc |-> "check", msg |-> m])
    /\ UNCHANGED <<holding, connected, row, good, dl, forced, sought, adds, reads, reqs, asked,
                   faults, disturbed>>

Step(j, pc) == BagAdd(BagRemove(jobs, j), [j EXCEPT !.pc = pc])
End(j) == BagRemove(jobs, j)

(* Under the lock of m_active_reads: a recorded fragment is dropped, the first
   fragment creates the record with the amount its sender claims. *)
CheckFragment(j) ==
    /\ BagIn(j, jobs) /\ j.pc = "check"
    /\ IF reads # NoReads /\ j.msg.frag \in reads.achieved
       THEN jobs' = End(j) /\ UNCHANGED reads
       ELSE /\ jobs' = Step(j, "write")
            /\ reads' = IF reads = NoReads THEN [amount |-> j.msg.amount, achieved |-> {}]
                                           ELSE reads
    /\ UNCHANGED <<holding, connected, row, good, dl, forced, sought, adds, keys, reqs, resp,
                   asked, faults, disturbed>>

(* Under m_write_file_mutex: the chunk is written and recorded. *)
WriteFragment(j) ==
    /\ BagIn(j, jobs) /\ j.pc = "write"
    /\ good' = IF j.msg.right THEN good \union {j.msg.frag} ELSE good \ {j.msg.frag}
    /\ reads' = IF reads = NoReads THEN reads
                ELSE [reads EXCEPT !.achieved = @ \union {j.msg.frag}]
    /\ jobs' = Step(j, "finish")
    /\ UNCHANGED <<holding, connected, row, dl, forced, sought, adds, keys, reqs, resp, asked,
                   faults, disturbed>>

(* The write fails: the file is asked for again at once. *)
WriteFails(j) ==
    /\ BagIn(j, jobs) /\ j.pc = "write"
    /\ faults + disturbed < MaxTrouble[holding]
    /\ faults' = faults + 1
    /\ jobs' = End(j)
    /\ RunTimer(dl, TRUE)
    /\ UNCHANGED <<holding, connected, row, good, forced, sought, adds, reads, resp, disturbed>>

(* The sender's counter goes down for every fragment that is written. *)
Credited(d, p) ==
    [d EXCEPT !.list = [i \in DOMAIN d.list |->
        IF d.list[i].id = p THEN [d.list[i] EXCEPT !.counter = @ - 1] ELSE d.list[i]]]

(* What is left to ask for: everything but the first fragment once the amount
   is known, and then what was left without this fragment. *)
Progress(d, m) ==
    IF d.amount = 0 THEN [d EXCEPT !.amount = m.amount, !.left = (1 .. m.amount) \ {m.frag}]
    ELSE [d EXCEPT !.left = @ \ {m.frag}]

(* Mutant: the number of fragments is taken for the content. *)
HashMatchesUnread == TRUE

(* The test that follows a complete count. *)
HashMatches == Downloaded

(* Under the locks of m_active_reads and m_active_downloads.  The count is
   compared with the amount of the record; a complete record is erased, and
   the file is Ready when its hash matches. *)
FinishFragment(j) ==
    /\ BagIn(j, jobs) /\ j.pc = "finish"
    /\ jobs' = End(j)
    /\ \/ /\ reads = NoReads \/ ~Active
          /\ UNCHANGED <<row, dl, keys, reads, reqs, asked>>
       \/ /\ reads # NoReads /\ Active
          /\ Cardinality(reads.achieved) # reads.amount
          /\ RunTimer(Progress(Credited(dl, j.msg.peer), j.msg), TRUE)
          /\ UNCHANGED <<row, reads>>
       \/ /\ reads # NoReads /\ Active
          /\ Cardinality(reads.achieved) = reads.amount
          /\ reads' = NoReads
          /\ IF HashMatches
             THEN row' = "Ready" /\ dl' = NoDownload /\ UNCHANGED <<keys, reqs, asked>>
             ELSE RunTimer(Credited(dl, j.msg.peer), TRUE) /\ UNCHANGED row
    /\ UNCHANGED <<holding, connected, good, forced, sought, adds, resp, faults, disturbed>>

------------------------------------------------------------------------------

FragmentStep ==
    \/ \E m \in BagToSet(resp) : FragmentAchieved(m)
    \/ \E j \in BagToSet(jobs) : CheckFragment(j) \/ WriteFragment(j) \/ FinishFragment(j)

StartStep == \E p \in Peers : StateResponse(p) \/ AddToQueue(p) \/ ExistenceReply(p)

PeerStep == \E m \in BagToSet(reqs) : ShareStoredFile(m)

Next ==
    \/ RequestFile
    \/ StartStep
    \/ TimerTick
    \/ TenSecondsPass
    \/ PeerStep
    \/ FragmentStep
    \/ \E j \in BagToSet(jobs) : WriteFails(j)
    \/ LoseMessage
    \/ \E p \in Peers : Disconnect(p) \/ Reconnect(p)

(* The event loop handles what arrives and its timer fires, the pool runs its
   jobs, an asked peer that is connected answers, and time passes. *)
Fairness ==
    /\ WF_vars(StartStep)
    /\ WF_vars(TimerTick)
    /\ WF_vars(Quiet /\ TenSecondsPass)
    /\ WF_vars(PeerStep)
    /\ WF_vars(FragmentStep)

Spec == Init /\ [][Next]_vars /\ Fairness

------------------------------------------------------------------------------

(* A file that was reported as downloaded keeps its content, whatever copies,
   late duplicates and retries arrive afterwards: finish_him is only reached
   with a matching hash and later chunks rewrite what is there. *)
ReadyIntact ==
    (\A p \in Peers : holding[p] \in {1 .. k : k \in 0 .. N}) /\ row = "Ready" => good = Fragments

WholeCopies == \A p \in Peers : holding[p] \in {{}, Fragments}

(* A download that was started ends when every peer holds the whole file or
   nothing of it and no message or link is lost, although writes may fail: the
   counters of the peers, the table of requests and the record of the reads
   never lock each other up. *)
DownloadEnds ==
    WholeCopies => ([](disturbed = 0) => (Active ~> row = "Ready"))

=============================================================================
