----------------------------- MODULE NamedFiles -----------------------------
(***************************************************************************)
(* The files a node finds by their names: templates, the vectors and       *)
(* dictionaries made from them (ExtraChainNode's create_* calls, Janus,    *)
(* the renames of a user) and ThothManager, which keeps in memory whom to  *)
(* notify of the records in one of them.                                   *)
(*                                                                         *)
(* Every node is the actor of its files; the founder is the network's      *)
(* actor.  Directory rows and contents travel between nodes as             *)
(* DfsDirectory and DfsContent describe; here a step brings them.  On the  *)
(* server, Thoth is entered from three threads, call by call.              *)
(***************************************************************************)
EXTENDS Integers, Sequences, FiniteSets

CONSTANTS
  Founder,    \* the node that creates the network
  Server,     \* the node that runs Thoth
  Devices,    \* the nodes of users
  Uses,       \* the sets of features that instances exercise
  Keys,       \* keys of rows: actors, tokens, links to files
  MaxFiles,   \* bound: files
  MaxVersion, \* bound: writes of one row, before its removal
  MaxInstalls \* bound: installations of a device after its first

(* What the constants must satisfy.                                       *)
NamedFilesAssumption ==
  /\ Founder # Server /\ {Founder, Server} \cap Devices = {}
  /\ MaxFiles \in Nat /\ MaxVersion \in Nat /\ MaxInstalls \in Nat

Nodes   == {Founder, Server} \cup Devices
Threads == {"App", "Net", "Dfs"} \* of the server that enter Thoth

VARIABLES
  use,     \* the features of this behaviour
  dfs,     \* the files, copies of them and rows of vectors
  found,   \* found[n]: files_ready_status_ for "Renames"; 0 is none
  waiting, \* waiting[n]: files_waiting_
  sent,    \* rows on their way
  thoth,   \* enabled_, file_id_ (0 is none) and infos_ of the server
  thread,  \* thread[t]: the steps left of the call that t makes
  installs \* installs[n]: installations of n after its first

vars == <<use, dfs, found, waiting, sent, thoth, thread, installs>>

Names == {"Subscription", "TokensCache", "Renames", "FilesList", "Bids", "Thoth", "MyChats", "Chat",
          "Usernames", "Subscriptions", "Item", "Channels", "token_allocations"}

File == [owner : Nodes, folder : {"templates", "vectors", "dictionaries"}, name : Names,
         private : BOOLEAN, by : 0..MaxInstalls]
Row  == [by : Nodes, key : Keys, version : 1..(MaxVersion + 1), live : BOOLEAN]

TypeOK ==
  /\ use \in Uses
  /\ Len(dfs.files) <= MaxFiles /\ \A i \in DOMAIN dfs.files : dfs.files[i] \in File
  /\ dfs.copy \in [Nodes -> [1..MaxFiles -> {"none", "known", "has", "ready"}]]
  /\ dfs.rows \in [Nodes -> [1..MaxFiles -> SUBSET Row]]
  /\ found \in [Nodes -> 0..MaxFiles] /\ waiting \in [Nodes -> SUBSET (0..MaxFiles)]
  /\ thoth.enabled \in BOOLEAN /\ thoth.bound \in 0..MaxFiles
  /\ thoth.infos \subseteq Keys \X Nodes /\ installs \in [Nodes -> 0..MaxInstalls]

-----------------------------------------------------------------------------
(* Names and templates.                                                    *)

(* The files that search_file_by_folder_and_name can return: names of      *)
(* private files are stored sealed.                                        *)
Search(d, n, owner, folder, name) ==
  {i \in DOMAIN d.files :
     /\ d.copy[n][i] # "none" /\ ~d.files[i].private
     /\ <<d.files[i].owner, d.files[i].folder, d.files[i].name>> = <<owner, folder, name>>}

(* Mutant of FindSelf: names are compared as they are stored.              *)
FindSelfStored(d, n, name) ==
  {i \in DOMAIN d.files : d.copy[n][i] # "none" /\ d.files[i].owner = n
                          /\ d.files[i].name = name /\ ~d.files[i].private}

(* The own files of that name, unsealed with the own key.                  *)
FindSelf(d, n, name) ==
  {i \in DOMAIN d.files : d.copy[n][i] # "none" /\ d.files[i].owner = n /\ d.files[i].name = name}

(* A new file, complete at its maker.                                      *)
Made(d, n, folder, name, private) ==
  LET i == Len(d.files) + 1
  IN [d EXCEPT !.files = Append(@, [owner |-> n, folder |-> folder, name |-> name,
                                    private |-> private, by |-> installs[n]]),
               !.copy[n][i] = "ready"]

(* What the store calls leave on the disk; nothing when they refuse.       *)
StoreTemplate(d, n, name) ==
  IF Search(d, n, n, "templates", name) = {} /\ Len(d.files) < MaxFiles
  THEN {Made(d, n, "templates", name, FALSE)} ELSE {}

StoreVector(d, n, folder, name, private) ==
  IF /\ Len(d.files) < MaxFiles
     /\ IF private THEN \A i \in FindSelf(d, n, name) : d.files[i].folder # folder
        ELSE Search(d, n, n, folder, name) = {}
  THEN {Made(d, n, folder, name, private)} ELSE {}

(* A template must be complete here before a vector is made from it.       *)
StoreFromTemplate(d, n, t, name, private) ==
  IF d.copy[n][t] = "ready" THEN StoreVector(d, n, "vectors", name, private) ELSE {}

NetworkTemplates(n, name) == Search(dfs, n, Founder, "templates", name)

-----------------------------------------------------------------------------
(* Rows.                                                                   *)

SameRow(r, q) == r.by = q.by /\ r.key = q.key

(* Of two versions of a row the newer one stays.                           *)
Newest(rows) == {r \in rows : \A q \in rows : SameRow(r, q) => q.version <= r.version}

(* A vector is loaded with its template.                                   *)
Loads(d, n, i) == i # 0 /\ d.copy[n][i] \in {"has", "ready"}

LiveRows(d, n, i) == IF Loads(d, n, i) THEN {r \in d.rows[n][i] : r.live} ELSE {}

NextVersion(d, n, i, k) ==
  1 + Cardinality({v \in 1..(MaxVersion + 1) :
        \E r \in d.rows[n][i] : r.by = n /\ r.key = k /\ v <= r.version})

(* A row of n is stored and sent to everyone; where the file is not known  *)
(* it would be lost.                                                       *)
Write(d, n, i, k, live) ==
  LET r == [by |-> n, key |-> k, version |-> NextVersion(d, n, i, k), live |-> live]
  IN /\ Loads(d, n, i) /\ r.version <= MaxVersion + (IF live THEN 0 ELSE 1)
     /\ dfs' = [d EXCEPT !.rows[n][i] = Newest(@ \cup {r})]
     /\ sent' = sent \cup {[to |-> m, file |-> i, row |-> r] :
                            m \in {x \in Nodes \ {n} : d.copy[x][i] # "none"}}

AddVectorRow(d, n, i, k) == Write(d, n, i, k, TRUE)

RemoveVectorRow(n, i, k) ==
  /\ \E r \in LiveRows(dfs, n, i) : r.by = n /\ r.key = k
  /\ Write(dfs, n, i, k, FALSE)

(* A file that is not complete is waited for and asked for.                *)
Waits(n, i) == [waiting EXCEPT ![n] = @ \cup {i}]

Memory == <<found, waiting, thoth, thread, installs, use>>

-----------------------------------------------------------------------------
(* Templates, vectors and dictionaries of the network.                     *)

Template(name) ==
  \E d \in StoreTemplate(dfs, Founder, name) : dfs' = d /\ UNCHANGED <<sent, Memory>>

CreateSubscriptionTemplate == "Subscription" \in use /\ Template("Subscription")
CreateTokenTemplate        == "Tokens" \in use /\ Template("TokensCache")
CreateRenamesTemplate      == "Renames" \in use /\ Template("Renames")
CreateFileIdTemplate       == "FileIds" \in use /\ Template("FilesList")
CreateBidTemplate          == "Items" \in use /\ Template("Bids")
CreateThothTemplate        == "Thoth" \in use /\ Template("Thoth")

(* The chat's template is not made when that of the user's chats is        *)
(* refused.                                                                *)
CreateChatTemplates ==
  /\ "Chats" \in use
  /\ \E a \in StoreTemplate(dfs, Founder, "MyChats") :
       LET b == StoreTemplate(a, Founder, "Chat")
       IN dfs' = IF b = {} THEN a ELSE CHOOSE d \in b : TRUE
  /\ UNCHANGED <<sent, Memory>>

CreateUsernames ==
  /\ "Usernames" \in use
  /\ \E a \in StoreTemplate(dfs, Founder, "Usernames") :
       LET b == StoreFromTemplate(a, Founder, Len(a.files), "Usernames", FALSE)
       IN dfs' = IF b = {} THEN a ELSE CHOOSE d \in b : TRUE
  /\ UNCHANGED <<sent, Memory>>

FromTemplate(n, template, name) ==
  \E t \in NetworkTemplates(n, template) :
    \E d \in StoreFromTemplate(dfs, n, t, name, FALSE) :
      dfs' = d /\ UNCHANGED <<sent, Memory>>

CreateThothVector == "Thoth" \in use /\ FromTemplate(Founder, "Thoth", "Thoth")

(* With the row of the network's own token.                                *)
CreateTokenVector ==
  /\ "Tokens" \in use
  /\ \E t \in NetworkTemplates(Founder, "TokensCache"), k \in Keys :
       \E d \in StoreFromTemplate(dfs, Founder, t, "TokensCache", FALSE) :
         AddVectorRow(d, Founder, Len(d.files), k)
  /\ UNCHANGED Memory

CreateSubscriptionVector(n) ==
  "Subscription" \in use /\ FromTemplate(n, "Subscription", "Subscriptions")

CreateItemVector(n) == "Items" \in use /\ FromTemplate(n, "Bids", "Item")

(* An own vector that exists already is left as it is.                     *)
CreateFileIdVector(n, name) ==
  Search(dfs, n, n, "vectors", name) = {} /\ FromTemplate(n, "FilesList", name)

CreateChannels(n) ==
  /\ "FileIds" \in use /\ Search(dfs, n, n, "vectors", "Channels") = {}
  /\ CreateFileIdVector(n, "Channels")

(* A dictionary needs no template.                                         *)
CreateAllocations ==
  /\ "Allocations" \in use
  /\ Search(dfs, Founder, Founder, "dictionaries", "token_allocations") = {}
  /\ \E d \in StoreVector(dfs, Founder, "dictionaries", "token_allocations", FALSE) : dfs' = d
  /\ UNCHANGED <<sent, Memory>>

Allocations(n) == Search(dfs, n, Founder, "dictionaries", "token_allocations")

SetAllocation(k) ==
  \E i \in Allocations(Founder) : AddVectorRow(dfs, Founder, i, k) /\ UNCHANGED Memory

RemoveAllocation(k) ==
  \E i \in Allocations(Founder) : RemoveVectorRow(Founder, i, k) /\ UNCHANGED Memory

(* The totals of all minted tokens, which some thread adds up, are written *)
(* one by one; the keys that follow are other calls of this action.        *)
Backfill == \E k \in Keys : SetAllocation(k)

(* A file is listed in an own vector when the network's template of such   *)
(* lists is complete; otherwise it is asked for and the file not listed.   *)
AddFileId(n, k) ==
  /\ "FileIds" \in use
  /\ \E t \in NetworkTemplates(n, "FilesList") :
       \/ /\ dfs.copy[n][t] # "ready"
          /\ waiting' = Waits(n, t)
          /\ UNCHANGED <<dfs, sent>>
       \/ /\ dfs.copy[n][t] = "ready"
          /\ \E i \in Search(dfs, n, n, "vectors", "Channels") : AddVectorRow(dfs, n, i, k)
          /\ UNCHANGED waiting
  /\ UNCHANGED <<found, thoth, thread, installs, use>>

-----------------------------------------------------------------------------
(* The renames of a user: a private vector with a sealed name.             *)

(* The file that read_file_status_self returns, remembered once complete.  *)
StatusSelf(n) == IF found[n] # 0 THEN {found[n]} ELSE FindSelf(dfs, n, "Renames")

(* create_renames_vector, called when StatusSelf finds none.               *)
CreateRenames(n) ==
  UNION {StoreFromTemplate(dfs, n, t, "Renames", TRUE) : t \in NetworkTemplates(n, "Renames")}

Renamed == CHOOSE k \in Keys : TRUE \* bound: one actor is renamed

(* write_actor_rename: a missing vector is made and the call repeated with *)
(* it; a vector that is not complete takes no row and the rename is lost.  *)
Rename(n, k) ==
  /\ "Renames" \in use
  /\ \/ /\ StatusSelf(n) = {}
        /\ \E d \in CreateRenames(n) :
             AddVectorRow(d, n, Len(d.files), k) /\ found' = [found EXCEPT ![n] = Len(d.files)]
     \/ \E i \in StatusSelf(n) :
          /\ dfs.copy[n][i] = "ready"
          /\ AddVectorRow(dfs, n, i, k) /\ found' = [found EXCEPT ![n] = i]
  /\ UNCHANGED <<waiting, thoth, thread, installs, use>>

(* read_actor_renames: waits for a vector that is not complete.            *)
ReadRenames(n) ==
  /\ "Renames" \in use
  /\ \E i \in StatusSelf(n) :
       IF dfs.copy[n][i] = "ready"
       THEN found' = [found EXCEPT ![n] = i] /\ UNCHANGED waiting
       ELSE waiting' = Waits(n, i) /\ UNCHANGED found
  /\ UNCHANGED <<dfs, sent, thoth, thread, installs, use>>

-----------------------------------------------------------------------------
(* What comes from other nodes.                                            *)

Step(do, mine, got) == [do |-> do, mine |-> mine, got |-> got]

(* The row of a file in the directory.  (Bound: Thoth's template, which    *)
(* only the founder reads, stays there.)                                   *)
Announce(n, i) ==
  /\ dfs.files[i].name # "Thoth" \/ dfs.files[i].folder # "templates"
  /\ dfs.copy[n][i] = "none" /\ \E m \in Nodes : dfs.copy[m][i] # "none"
  /\ dfs' = [dfs EXCEPT !.copy[n][i] = "known"]
  /\ UNCHANGED <<sent, Memory>>

IsThoth(i) == dfs.files[i].folder = "vectors" /\ dfs.files[i].name = "Thoth"

(* Content arrives: template and rows.  The state of the file follows, in  *)
(* Finish when Thoth listens.                                              *)
Content(n, m, i) ==
  LET d == [dfs EXCEPT !.rows[n][i] = Newest(@ \cup dfs.rows[m][i])]
  IN /\ dfs.copy[n][i] # "none" /\ dfs.copy[m][i] = "ready" /\ n # m
     /\ dfs.copy[n][i] # "ready" \/ d # dfs
     /\ IF n = Server /\ IsThoth(i)
        THEN /\ thread["Dfs"] = <<>> /\ UNCHANGED waiting
             /\ dfs' = IF dfs.copy[n][i] = "ready" THEN d ELSE [d EXCEPT !.copy[n][i] = "has"]
             /\ thread' = [thread EXCEPT !["Dfs"] = <<Step("finish", FALSE, {})>>]
        ELSE /\ dfs' = [d EXCEPT !.copy[n][i] = "ready"]
             /\ waiting' = [waiting EXCEPT ![n] = @ \ {i}] /\ UNCHANGED thread
     /\ UNCHANGED <<sent, found, thoth, installs, use>>

(* network_vector_add: the row is stored before Thoth looks at it.  A row  *)
(* for a vector that is not here is lost; one that stays on its way is,    *)
(* too.                                                                    *)
Deliver(p) ==
  /\ sent' = sent \ {p}
  /\ LET d == [dfs EXCEPT !.rows[p.to][p.file] = Newest(@ \cup {p.row})]
     IN IF ~Loads(dfs, p.to, p.file) THEN UNCHANGED <<dfs, thread>>
        ELSE /\ dfs' = d
             /\ IF p.to = Server /\ IsThoth(p.file)
                THEN /\ thread["Net"] = <<>>
                     /\ thread' = [thread EXCEPT !["Net"] = <<Step("check", FALSE, {p.row})>>]
                ELSE UNCHANGED thread
  /\ UNCHANGED <<found, waiting, thoth, installs, use>>

(* The process of n ends and starts again.                                 *)
NoThoth == [enabled |-> FALSE, bound |-> 0, infos |-> {}]

Restart(n) ==
  /\ found' = [found EXCEPT ![n] = 0] /\ waiting' = [waiting EXCEPT ![n] = {}]
  /\ IF n = Server THEN thoth' = NoThoth /\ thread' = [t \in Threads |-> <<>>]
     ELSE UNCHANGED <<thoth, thread>>
  /\ UNCHANGED <<dfs, sent, installs, use>>

(* The user of n moves to a new device with the same keys.                 *)
Reinstall(n) ==
  /\ "Renames" \in use /\ installs[n] < MaxInstalls
  /\ installs' = [installs EXCEPT ![n] = @ + 1]
  /\ found' = [found EXCEPT ![n] = 0] /\ waiting' = [waiting EXCEPT ![n] = {}]
  /\ dfs' = [dfs EXCEPT !.copy[n] = [i \in 1..MaxFiles |-> "none"],
                         !.rows[n] = [i \in 1..MaxFiles |-> {}]]
  /\ sent' = {p \in sent : p.to # n}
  /\ UNCHANGED <<thoth, thread, use>>

-----------------------------------------------------------------------------
(* Thoth.                                                                  *)

ThothFiles(n) == Search(dfs, n, Founder, "vectors", "Thoth")

(* add_thoth_record on a phone: whom to notify of k.  A vector that is not *)
(* complete is asked for, and the record is not written.                   *)
AddThothRecord(n, k) ==
  /\ "Thoth" \in use
  /\ \E i \in ThothFiles(n) :
       \/ /\ dfs.copy[n][i] = "ready" /\ AddVectorRow(dfs, n, i, k) /\ UNCHANGED waiting
       \/ /\ dfs.copy[n][i] # "ready" /\ waiting' = Waits(n, i)
          /\ UNCHANGED <<dfs, sent>>
  /\ UNCHANGED <<found, thoth, thread, installs, use>>

ReadAll(mine) == <<Step("lookup", mine, {})>>

StartThoth ==
  /\ thread["App"] = <<>> /\ ~thoth.enabled
  /\ thoth' = [thoth EXCEPT !.enabled = TRUE]
  /\ thread' = [thread EXCEPT !["App"] = ReadAll(FALSE)]
  /\ UNCHANGED <<dfs, found, waiting, sent, installs, use>>

(* The records in memory stay.                                             *)
StopThoth ==
  /\ thread["App"] = <<>> /\ thoth.enabled
  /\ thoth' = [thoth EXCEPT !.enabled = FALSE, !.bound = 0]
  /\ UNCHANGED <<dfs, found, waiting, sent, thread, installs, use>>

At(t, do) == thread[t] # <<>> /\ Head(thread[t]).do = do
Go(t, steps) == thread' = [thread EXCEPT ![t] = steps \o Tail(@)]

(* read_all looks up the vector.  When it is not complete, the file it     *)
(* waits for is the one bound so far, which may be none.                   *)
Lookup(t) ==
  LET s == Head(thread[t])
  IN /\ At(t, "lookup")
     /\ \/ ThothFiles(Server) = {} /\ Go(t, <<>>) /\ UNCHANGED <<thoth, waiting>>
        \/ \E i \in ThothFiles(Server) :
             \/ /\ dfs.copy[Server][i] # "ready" /\ Go(t, <<>>)
                /\ waiting' = Waits(Server, thoth.bound)
                /\ UNCHANGED thoth
             \/ /\ dfs.copy[Server][i] = "ready" /\ thoth' = [thoth EXCEPT !.bound = i]
                /\ Go(t, <<Step("select", s.mine, {})>>) /\ UNCHANGED waiting
     /\ UNCHANGED <<dfs, found, sent, installs, use>>

Select(t) ==
  LET s   == Head(thread[t])
      got == {r \in LiveRows(dfs, Server, thoth.bound) : s.mine => r.by = Server}
  IN /\ At(t, "select")
     /\ Go(t, IF got = {} THEN <<>> ELSE <<Step("insert", s.mine, got)>>)
     /\ UNCHANGED <<dfs, found, waiting, sent, thoth, installs, use>>

(* Every record is inserted with the token of the first one.               *)
Insert(t) ==
  /\ At(t, "insert")
  /\ \E first \in Head(thread[t]).got :
       thoth' = [thoth EXCEPT !.infos = @ \cup
                   {<<r.key, first.by>> : r \in Head(thread[t]).got}]
  /\ Go(t, <<>>)
  /\ UNCHANGED <<dfs, found, waiting, sent, installs, use>>

(* The state of the file, and the two slots of downloaded.                 *)
Finish ==
  /\ At("Dfs", "finish")
  /\ \E i \in ThothFiles(Server) : dfs' = [dfs EXCEPT !.copy[Server][i] = "ready"]
  /\ Go("Dfs", <<Step("waited", FALSE, {}), Step("bind", FALSE, {})>>)
  /\ UNCHANGED <<found, waiting, sent, thoth, installs, use>>

Waited ==
  /\ At("Dfs", "waited")
  /\ \E i \in ThothFiles(Server) :
       /\ waiting' = [waiting EXCEPT ![Server] = @ \ {i}]
       /\ Go("Dfs", IF i \in waiting[Server] THEN ReadAll(~thoth.enabled) ELSE <<>>)
  /\ UNCHANGED <<dfs, found, sent, thoth, installs, use>>

(* Mutant of Bind: the rows are left to those who wait for the file.       *)
BindOnly ==
  /\ At("Dfs", "bind")
  /\ \E i \in ThothFiles(Server) : thoth' = [thoth EXCEPT !.bound = i]
  /\ Go("Dfs", <<>>)
  /\ UNCHANGED <<dfs, found, waiting, sent, installs, use>>

Bind ==
  /\ At("Dfs", "bind")
  /\ \E i \in ThothFiles(Server) : thoth' = [thoth EXCEPT !.bound = i]
  /\ Go("Dfs", IF thoth.enabled THEN ReadAll(FALSE) ELSE <<>>)
  /\ UNCHANGED <<dfs, found, waiting, sent, installs, use>>

(* A row of the network: it counts when Thoth runs and knows the vector.   *)
Check ==
  /\ At("Net", "check")
  /\ LET row == CHOOSE r \in Head(thread["Net"]).got : TRUE
     IN Go("Net", IF thoth.enabled /\ thoth.bound # 0 /\ row.live
                  THEN <<Step("record", FALSE, {row})>> ELSE <<>>)
  /\ UNCHANGED <<dfs, found, waiting, sent, thoth, installs, use>>

(* The row is read again from the vector.                                  *)
Record ==
  /\ At("Net", "record")
  /\ LET rows == {r \in LiveRows(dfs, Server, thoth.bound) :
                    \E q \in Head(thread["Net"]).got : SameRow(r, q)}
     IN thoth' = [thoth EXCEPT !.infos = @ \cup {<<r.key, r.by>> : r \in rows}]
  /\ Go("Net", <<>>)
  /\ UNCHANGED <<dfs, found, waiting, sent, installs, use>>

-----------------------------------------------------------------------------
Init ==
  /\ use \in Uses
  /\ dfs = [files |-> <<>>, copy |-> [n \in Nodes |-> [i \in 1..MaxFiles |-> "none"]],
             rows |-> [n \in Nodes |-> [i \in 1..MaxFiles |-> {}]]]
  /\ found = [n \in Nodes |-> 0] /\ waiting = [n \in Nodes |-> {}] /\ sent = {}
  /\ thoth = NoThoth /\ thread = [t \in Threads |-> <<>>] /\ installs = [n \in Nodes |-> 0]

Create ==
  \/ CreateSubscriptionTemplate \/ CreateTokenTemplate \/ CreateRenamesTemplate
  \/ CreateFileIdTemplate \/ CreateBidTemplate \/ CreateThothTemplate
  \/ CreateChatTemplates \/ CreateUsernames \/ CreateThothVector \/ CreateTokenVector
  \/ CreateAllocations
  \/ \E n \in Devices :
       \/ CreateSubscriptionVector(n) \/ CreateItemVector(n) \/ CreateChannels(n)

Next ==
  \/ Create \/ Backfill
  \/ \E k \in Keys : RemoveAllocation(k)
  \/ \E n \in Devices, k \in Keys :
       AddFileId(n, k) \/ AddThothRecord(n, k)
  \/ \E n \in Devices : Rename(n, Renamed) \/ ReadRenames(n) \/ Reinstall(n)
  \/ \E n \in Nodes, i \in DOMAIN dfs.files :
       Announce(n, i) \/ (\E m \in Nodes : Content(n, m, i))
  \/ \E p \in sent : Deliver(p)
  \/ \E n \in Nodes \ {Founder} : Restart(n)
  \/ StartThoth \/ StopThoth
  \/ \E t \in Threads : Lookup(t) \/ Select(t) \/ Insert(t)
  \/ Finish \/ Waited \/ Bind \/ Check \/ Record

Spec == Init /\ [][Next]_vars

-----------------------------------------------------------------------------
(* While Thoth runs and no call is under way, it knows whom to notify of   *)
(* every record in a complete vector, in whatever order it was started,    *)
(* the vector downloaded and the records received.                         *)
ThothKnows ==
  (thoth.enabled /\ \A t \in Threads : thread[t] = <<>>) =>
    \A i \in ThothFiles(Server) :
      dfs.copy[Server][i] = "ready" =>
        \A r \in LiveRows(dfs, Server, i) : r.by # Server =>
          \E x \in thoth.infos : x[1] = r.key

(* No installation makes two files of one name in one folder, private ones *)
(* included, whatever it has forgotten in a restart.  (A new one may, when *)
(* the directory of the old one has not reached it.)                       *)
NamesUnique ==
  \A i, j \in DOMAIN dfs.files :
    LET a == dfs.files[i]
        b == dfs.files[j]
    IN i # j => <<a.owner, a.folder, a.name, a.by>> # <<b.owner, b.folder, b.name, b.by>>
=============================================================================
