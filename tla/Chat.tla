-------------------------------- MODULE Chat --------------------------------
(***************************************************************************)
(* ChatManager on the devices of several persons: dialogues with           *)
(* invitations, channels, the encrypted list MyChats, and messages with    *)
(* their edits and removals.                                               *)
(*                                                                         *)
(* Calls of the API and the handler of ready run one after the other on    *)
(* the node thread; the handler of downloaded runs on the thread of the    *)
(* DFS that finished a file.  A device may crash between two writes to its *)
(* disk.  Files and rows reach other devices at any time: how they do is   *)
(* in DfsDirectory, FileDownload and DfsContent.  Accesses to chats_ are   *)
(* atomic here; the code has no lock for them.                             *)
(***************************************************************************)
EXTENDS Naturals, Sequences, SequencesExt, FiniteSets, FiniteSetsExt

CONSTANTS
    Persons,
    Creators,   \* bound: persons that create dialogues and channels
    Batch,      \* batch_size of read_last_message
    Pages,      \* batches that it reads at most
    MaxChats,   \* bound: chats created
    MaxOps,     \* bound: messages written, edited, removed, subscriptions
    MaxRestarts,\* bound: restarts, of all devices
    MaxTime,    \* bound: the clock
    None

ChatIds == 1 .. MaxChats

ASSUME ChatAssumption ==
    /\ Creators \subseteq Persons /\ None \notin Persons
    /\ None \notin Seq(ChatIds)
    /\ None \notin [owner : Persons, channel : BOOLEAN, peer : Persons \union {None}]
    /\ Batch \in Nat \ {0} /\ Pages \in Nat \ {0}
    /\ MaxChats \in Nat /\ MaxOps \in Nat /\ MaxRestarts \in Nat /\ MaxTime \in Nat

Threads == {"Node", "Dfs"}

VARIABLES
    vector,   \* vector[c]: [owner, channel, peer] of the chat stored as c, or None
    has,      \* has[p]: chats whose vector is complete on the device of p
    rows,     \* rows[p][c]: the rows of p's copy
    written,  \* written[c]: every row ever written
    invites,  \* chats whose invitation is in the directory of their peer
    here,     \* invitations that are complete on the device of the peer
    gone,     \* invitations removed by the peer
    templates,\* devices that have the template of MyChats
    list,     \* list[p]: the rows of MyChats, None before it is created
    phase,    \* phase[p]: "starting" before ready, then "ready"
    actor,    \* devices where chat_actor_ is set
    chats,    \* chats[p]: chats_, in memory
    todo,     \* todo[p]: invitations that the handler of ready has yet to parse
    job,      \* job[p][th]: what a call has yet to do
    clock, ops, restarts

vars == <<vector, has, rows, written, invites, here, gone, templates, list, phase, actor, chats,
          todo, job, clock, ops, restarts>>
dfs == <<vector, has, rows, written, invites, here, gone, templates>>
device == <<list, phase, actor, chats, todo>>

Idle == [steps |-> <<>>, chat |-> 0, seen |-> <<>>]
IdOf(c) == Cardinality({r.id : r \in written[c]}) + 1

TypeOK ==
    /\ \A p \in Persons : /\ has[p] \subseteq ChatIds
                          /\ list[p] = None \/ \A i \in DOMAIN list[p] : list[p][i] \in ChatIds
                          /\ \A c \in ChatIds : rows[p][c] \subseteq written[c]
                          /\ phase[p] \in {"starting", "ready"}
                          /\ todo[p] \subseteq ChatIds
    /\ gone \subseteq invites /\ here \subseteq invites /\ invites \subseteq ChatIds
    /\ templates \subseteq Persons /\ actor \subseteq Persons
    /\ clock \in 0 .. MaxTime /\ ops \in 0 .. MaxOps /\ restarts \in 0 .. MaxRestarts

Init ==
    /\ vector = [c \in ChatIds |-> None]
    /\ has = [p \in Persons |-> {}]
    /\ rows = [p \in Persons |-> [c \in ChatIds |-> {}]]
    /\ written = [c \in ChatIds |-> {}]
    /\ invites = {} /\ here = {} /\ gone = {}
    /\ templates = Creators
    /\ list = [p \in Persons |-> None]
    /\ phase = [p \in Persons |-> "starting"]
    /\ actor = {}
    /\ chats = [p \in Persons |-> {}]
    /\ todo = [p \in Persons |-> {}]
    /\ job = [p \in Persons |-> [th \in Threads |-> Idle]]
    /\ clock = 0 /\ ops = 0 /\ restarts = 0

------------------------------------------------------------------------------
(* Jobs: the writes of a call, in order.                                    *)

CreateSteps == <<"store", "mychats", "insert", "message">>
InviteSteps == <<"invite", "message">>

(* Mutant: the invitation is removed before the chat is listed. *)
ParseStepsRemoveFirst == <<"consume", "mychats", "insert", "message">>

(* parse_invite. *)
ParseSteps == <<"mychats", "insert", "consume", "message">>

(* subscribe_channel. *)
SubscribeSteps == <<"mychats", "insert">>

Free(p) == job[p]["Node"] = Idle /\ todo[p] = {} /\ phase[p] = "ready"

Started(p, th, steps, c) ==
    job' = [job EXCEPT ![p][th] = [steps |-> steps, chat |-> c, seen |-> <<>>]]

At(p, th, step) == job[p][th].steps # <<>> /\ Head(job[p][th].steps) = step
Done(p, th) ==
    IF Len(job[p][th].steps) = 1 THEN [job EXCEPT ![p][th] = Idle]
    ELSE [job EXCEPT ![p][th].steps = Tail(@)]

(* The job goes on without its next n steps. *)
Skip(p, th, n) ==
    LET rest == SubSeq(job[p][th].steps, n + 1, Len(job[p][th].steps))
    IN  IF rest = <<>> THEN [job EXCEPT ![p][th] = Idle] ELSE [job EXCEPT ![p][th].steps = rest]

Operate == ops < MaxOps /\ ops' = ops + 1

------------------------------------------------------------------------------
(* Messages.                                                                *)

Live(p, c) == {r \in rows[p][c] : r.live}

Replaced(copy, row) == {r \in copy : r.id # row.id} \union {row}

(* add_vector_row, of p, on its own copy; others hear of the row later. *)
Write(p, c, row) ==
    /\ rows' = [rows EXCEPT ![p][c] = Replaced(@, row)]
    /\ written' = [written EXCEPT ![c] = @ \union {row}]
    /\ clock' = row.t

Times == {t \in {clock, clock + 1} : 0 < t /\ t <= MaxTime}

(* get_chat, then the channel's owner, then the vector: add_new_message fails
   without one of them. *)
MayWrite(p, c) ==
    /\ c \in chats[p]
    /\ vector[c].channel => vector[c].owner = p
    /\ c \in has[p]

NewMessage(p, c) ==
    \E t \in Times : Write(p, c, [id |-> IdOf(c), by |-> p, t |-> t, orig |-> 0, live |-> TRUE])

(* add_new_message_text and the calls for images, files and the like. *)
AddMessage(p, c) ==
    /\ Free(p) /\ Operate /\ MayWrite(p, c)
    /\ NewMessage(p, c)
    /\ UNCHANGED <<vector, has, invites, here, gone, templates, device, job, restarts>>

(* The time that an edit keeps. *)
Original(r) == IF r.orig # 0 THEN r.orig ELSE r.t

(* edit_message: of any message in the copy. *)
EditMessage(p, c) ==
    /\ Free(p) /\ Operate /\ MayWrite(p, c)
    /\ \E r \in Live(p, c), t \in Times :
          Write(p, c, [id |-> r.id, by |-> p, t |-> t, orig |-> Original(r), live |-> TRUE])
    /\ UNCHANGED <<vector, has, invites, here, gone, templates, device, job, restarts>>

(* remove_message: the actor of the row alone, with or without the chat in
   memory; the columns of the row are blanked. *)
RemoveMessage(p, c) ==
    /\ Free(p) /\ Operate /\ c \in has[p] /\ p \in actor
    /\ \E r \in Live(p, c), t \in Times :
          /\ r.by = p
          /\ Write(p, c, [id |-> r.id, by |-> p, t |-> t, orig |-> 0, live |-> FALSE])
    /\ UNCHANGED <<vector, has, invites, here, gone, templates, device, job, restarts>>

(* The place of r among the messages S: "ORDER by timestamp DESC". *)
Place(S, r) == Cardinality({q \in S : q.t > r.t \/ (q.t = r.t /\ q.id >= r.id)})

(* Mutant: no page after the first one. *)
PagesReadOne(S) == 1

(* read_last_message stops after the page with a message never edited, after
   the page that is not full, or after the last page. *)
PagesRead(S) ==
    LET page(k) == {r \in S : (k - 1) * Batch < Place(S, r) /\ Place(S, r) <= k * Batch}
    IN  Min({k \in 1 .. Pages : \/ \E r \in page(k) : r.orig = 0
                                \/ k * Batch >= Cardinality(S)
                                \/ k = Pages})

Effective(r) == IF r.orig # 0 THEN r.orig ELSE r.t

(* The messages that read_last_message looks at. *)
Window(S) == {r \in S : Place(S, r) <= PagesRead(S) * Batch}

(* The time of its answer. *)
LastMessage(p, c) == Max({Effective(r) : r \in Window(Live(p, c))})

------------------------------------------------------------------------------
(* The list of chats.                                                       *)

(* read_my_chats_row and create_mychats: without the template there is no list,
   and the chat is not inserted. *)
EnsureMyChats(p, th) ==
    /\ At(p, th, "mychats")
    /\ actor' = actor \union {p}
    /\ IF list[p] # None \/ p \in templates
       THEN /\ list' = [list EXCEPT ![p] = IF @ = None THEN <<>> ELSE @]
            /\ job' = Done(p, th)
       ELSE /\ job' = IF job[p][th].steps = ParseSteps
                      THEN [job EXCEPT ![p][th] = Idle] ELSE Skip(p, th, 2)
            /\ list' = list
    /\ UNCHANGED <<dfs, phase, chats, todo, clock, ops, restarts>>

(* insert_chat_to_mychats: the row, then the memory. *)
Insert(p, th) ==
    /\ At(p, th, "insert")
    /\ list' = [list EXCEPT ![p] = Append(@, job[p][th].chat)]
    /\ chats' = [chats EXCEPT ![p] = @ \union {job[p][th].chat}]
    /\ job' = Done(p, th)
    /\ UNCHANGED <<dfs, phase, actor, todo, clock, ops, restarts>>

(* add_new_message_created, _invite and _joined; a failure is not noticed. *)
Message(p, th) ==
    /\ At(p, th, "message")
    /\ job' = Done(p, th)
    /\ IF MayWrite(p, job[p][th].chat) THEN NewMessage(p, job[p][th].chat)
       ELSE UNCHANGED <<rows, written, clock>>
    /\ UNCHANGED <<vector, has, invites, here, gone, templates, device, ops, restarts>>

(* read_chats: the rows of the list, then the assignment to chats_. *)
ReadChats(p) ==
    /\ Free(p) /\ Operate
    /\ actor' = actor \union {p}
    /\ IF list[p] = None \/ list[p] = <<>> THEN job' = job
       ELSE job' = [job EXCEPT ![p]["Node"] = [steps |-> <<"assign">>, chat |-> 0, seen |-> list[p]]]
    /\ UNCHANGED <<dfs, list, phase, chats, todo, clock, restarts>>

Assign(p) ==
    /\ At(p, "Node", "assign")
    /\ chats' = [chats EXCEPT ![p] = ToSet(job[p]["Node"].seen)]
    /\ job' = Done(p, "Node")
    /\ UNCHANGED <<dfs, list, phase, actor, todo, clock, ops, restarts>>

------------------------------------------------------------------------------
(* Dialogues and channels.                                                  *)

Unstored == {c \in ChatIds : vector[c] = None}

(* create_dialogue; create_myself, when there is no peer; create_channel. *)
Create(p, peer, channel) ==
    /\ Free(p) /\ p \in Creators /\ peer # p /\ (channel => peer = None)
    /\ Unstored # {}
    /\ LET c == Min(Unstored)
       IN  /\ vector' = [vector EXCEPT ![c] = [owner |-> p, channel |-> channel, peer |-> peer]]
           /\ Started(p, "Node", CreateSteps \o IF peer = None THEN <<>> ELSE InviteSteps, c)
    /\ actor' = actor \union {p}
    /\ UNCHANGED <<has, rows, written, invites, here, gone, templates, list, phase, chats,
                   todo, clock, ops, restarts>>

(* create_chat: store_vector. *)
StoreChat(p, th) ==
    /\ At(p, th, "store")
    /\ has' = [has EXCEPT ![p] = @ \union {job[p][th].chat}]
    /\ job' = Done(p, th)
    /\ UNCHANGED <<vector, rows, written, invites, here, gone, templates, device, clock, ops, restarts>>

(* invite: a file in the directory of the peer. *)
Invite(p, th) ==
    /\ At(p, th, "invite")
    /\ invites' = invites \union {job[p][th].chat}
    /\ job' = Done(p, th)
    /\ UNCHANGED <<vector, has, rows, written, here, gone, templates, device, clock, ops, restarts>>

SubscribeChannel(p, c) ==
    /\ Free(p) /\ Operate
    /\ vector[c] # None /\ vector[c].channel /\ c \in has[vector[c].owner]
    /\ Started(p, "Node", SubscribeSteps, c)
    /\ UNCHANGED <<dfs, device, clock, restarts>>

------------------------------------------------------------------------------
(* Invitations.                                                             *)

(* get_file_content of an invitation. *)
Readable(p, c) == c \in here /\ c \notin gone

(* parse_invite, up to its first write. *)
Parse(p, th, c) ==
    IF Readable(p, c) THEN Started(p, th, ParseSteps, c) ELSE job' = job

(* remove_stored_file. *)
Removed(c) == gone \union {c}

Consume(p, th) ==
    /\ At(p, th, "consume")
    /\ gone' = Removed(job[p][th].chat)
    /\ job' = Done(p, th)
    /\ UNCHANGED <<vector, has, rows, written, invites, here, templates, device, clock, ops, restarts>>

(* ready: the rows of the directory of the main actor. *)
Ready(p) ==
    /\ phase[p] = "starting"
    /\ phase' = [phase EXCEPT ![p] = "ready"]
    /\ todo' = [todo EXCEPT ![p] = {c \in invites \ gone : vector[c].peer = p}]
    /\ UNCHANGED <<dfs, list, actor, chats, job, clock, ops, restarts>>

ParseNext(p) ==
    /\ job[p]["Node"] = Idle
    /\ \E c \in todo[p] :
          /\ todo' = [todo EXCEPT ![p] = @ \ {c}]
          /\ Parse(p, "Node", c)
    /\ UNCHANGED <<dfs, list, phase, actor, chats, clock, ops, restarts>>

(* downloaded: before chat_actor_ is set the invitation waits for ready. *)
InviteDownloaded(c) ==
    LET p == vector[c].peer
    IN  /\ c \in invites \ here /\ job[p]["Dfs"] = Idle
        /\ here' = here \union {c}
        /\ IF p \in actor THEN Parse(p, "Dfs", c) ELSE UNCHANGED job
        /\ UNCHANGED <<vector, has, rows, written, invites, gone, templates, device, clock,
                       ops, restarts>>

------------------------------------------------------------------------------
(* The DFS and the process.                                                 *)

(* The vector of a chat is downloaded from q. *)
VectorDownloaded(p, q, c) ==
    /\ c \in has[q] \ has[p]
    /\ has' = [has EXCEPT ![p] = @ \union {c}]
    /\ rows' = [rows EXCEPT ![p][c] = rows[q][c]]
    /\ UNCHANGED <<vector, written, invites, here, gone, templates, device, job, clock, ops, restarts>>

(* network_vector_add: of two rows of a message the later one stays. *)
RowArrives(p, c) ==
    /\ c \in has[p]
    /\ \E r \in written[c] \ rows[p][c] :
          /\ \A s \in rows[p][c] : s.id = r.id /\ s.live => s.t <= r.t
          /\ rows' = [rows EXCEPT ![p][c] = Replaced(@, r)]
    /\ UNCHANGED <<vector, has, written, invites, here, gone, templates, device, job, clock,
                   ops, restarts>>

TemplateDownloaded(p) ==
    /\ p \notin templates
    /\ templates' = templates \union {p}
    /\ UNCHANGED <<vector, has, rows, written, invites, here, gone, device, job, clock, ops, restarts>>

(* The process ends, wherever its calls are, and starts again. *)
Restart(p) ==
    /\ restarts < MaxRestarts /\ restarts' = restarts + 1
    /\ phase' = [phase EXCEPT ![p] = "starting"]
    /\ actor' = actor \ {p}
    /\ chats' = [chats EXCEPT ![p] = {}]
    /\ todo' = [todo EXCEPT ![p] = {}]
    /\ job' = [job EXCEPT ![p] = [th \in Threads |-> Idle]]
    /\ UNCHANGED <<dfs, list, clock, ops>>

Next ==
    \/ \E p \in Persons, th \in Threads :
          \/ EnsureMyChats(p, th) \/ Insert(p, th) \/ Message(p, th) \/ Consume(p, th)
    \/ \E p \in Persons : \/ StoreChat(p, "Node") \/ Invite(p, "Node")
                          \/ ReadChats(p) \/ Assign(p) \/ Ready(p) \/ ParseNext(p)
                          \/ TemplateDownloaded(p) \/ Restart(p)
                          \/ \E peer \in Persons \union {None}, ch \in BOOLEAN : Create(p, peer, ch)
    \/ \E p \in Persons, c \in ChatIds :
          \/ AddMessage(p, c) \/ EditMessage(p, c) \/ RemoveMessage(p, c)
          \/ SubscribeChannel(p, c) \/ RowArrives(p, c)
          \/ \E q \in Persons : VectorDownloaded(p, q, c)
    \/ \E c \in ChatIds : InviteDownloaded(c)

Spec == Init /\ [][Next]_vars

------------------------------------------------------------------------------

(* An invitation that its receiver has removed from the directory is in the
   receiver's list of chats, where the key of the chat is kept: whatever thread
   handles it, and wherever the process ends. *)
InvitationKept ==
    \A c \in gone : list[vector[c].peer] # None /\ c \in ToSet(list[vector[c].peer])

(* read_last_message answers with the message that was first written last, in
   every copy: the pages end where older messages cannot be newer, unless all
   of the messages on the pages were edited. *)
LastMessageRight ==
    \A p \in Persons, c \in ChatIds :
        LET S == Live(p, c)
        IN  /\ S # {}
            /\ \/ Cardinality(S) <= Batch * Pages
               \/ \E r \in Window(S) : r.orig = 0
            => LastMessage(p, c) = Max({Effective(r) : r \in S})
=============================================================================
