----------------------------- MODULE DfsContent -----------------------------
(***************************************************************************)
(* The rows inside a DFS file that is a vector (or a dictionary) or a      *)
(* collection, on the nodes that keep a copy of it.                        *)
(*                                                                         *)
(* A vector has one row for a key; a writer signs a row with its time and  *)
(* broadcasts it, and of two rows the later one is to win (DfsVector).  A  *)
(* collection is a numbered history and the table the history leads to; a  *)
(* writer appends to both and sends the history row                        *)
(* (HistoricalCollection).  A node that has heard of the file asks another *)
(* for all of its rows.                                                    *)
(*                                                                         *)
(* Every node hears every other directly and in order: how messages spread *)
(* is in BroadcastRouting, how downloads are retried in FileDownload.  A   *)
(* write carries a number of its own (v) in place of its columns.          *)
(***************************************************************************)
EXTENDS Naturals, Sequences, FiniteSets

CONSTANTS
    Nodes,
    Owner,   \* who creates the file
    Writers, \* nodes that write rows
    Types,   \* bound: the types of file, a subset of "Vector", "Collection"
    Keys,    \* keys of the rows of a vector
    MaxTime, \* bound: milliseconds that pass between writes
    MaxOps,  \* bound: writes
    MaxAsks, \* bound: requests for the content
    None

Ids == 0 .. MaxOps + 2     \* of the rows of a history; 0 creates the table
Row == [by : Nodes, t : 1 .. MaxTime, live : BOOLEAN, v : 1 .. MaxOps]
Entry == [op : {"Structural", "Add", "Update"}, by : Nodes, id : Ids \union {None},
          v : 0 .. MaxOps]

ContentAssumption ==
    /\ Owner \in Nodes /\ Writers \subseteq Nodes
    /\ Types \subseteq {"Vector", "Collection"}
    /\ MaxTime \in Nat /\ MaxOps \in Nat /\ MaxAsks \in Nat
    /\ None \notin Nodes /\ None \notin Row /\ None \notin Entry /\ None \notin Nat

Pairs == {p \in Nodes \X Nodes : p[1] # p[2]}

VARIABLES
    type,     \* the type of the file
    has,      \* nodes that have the template or the history
    ready,    \* nodes where the download is finished
    vec,      \* vec[n][k]: the row of a vector
    hist,     \* hist[n][i]: the history of a collection
    table,    \* table[n][i]: the rows of a collection, by their v
    removed,  \* removed[n]: db_row_id of remove_row, a static variable
    chan,     \* chan[<<m, n>>]: messages on their way
    pool,     \* pool[n]: packages posted to the DFS pool
    clock, ops, asks,
    writes,   \* the rows that were ever written to the vector
    crossed,  \* a writer had yet to hear of another write
    overlap,  \* content was fetched while a write was on its way
    answers   \* answers[n]: histories that n has received

vars == <<type, has, ready, vec, hist, table, removed, chan, pool, clock, ops, asks, writes,
          crossed, overlap, answers>>

TypeOK ==
    /\ type \in Types
    /\ ready \subseteq has /\ has \subseteq Nodes
    /\ vec \in [Nodes -> [Keys -> Row \union {None}]]
    /\ hist \in [Nodes -> [Ids -> Entry \union {None}]]
    /\ table \in [Nodes -> [Ids -> 0 .. MaxOps \union {None}]]
    /\ removed \in [Nodes -> Ids \union {None}]
    /\ clock \in 1 .. MaxTime /\ ops \in 0 .. MaxOps /\ asks \in 0 .. MaxAsks

Told(c, n, msgs) == [p \in Pairs |-> IF p[1] = n THEN c[p] \o msgs ELSE c[p]]

InFlight(kinds) == \E p \in Pairs : \E i \in DOMAIN chan[p] : chan[p][i].kind \in kinds
Writing == InFlight({"Add", "Change"})
Fetching == InFlight({"Request", "Package", "History", "Rows"}) \/ \E n \in Nodes : pool[n] # <<>>
Quiet == ~Writing /\ ~Fetching
Noted == overlap' = (overlap \/ (Fetching' /\ Writing'))

(* insert: INSERT OR IGNORE. *)
Inserted(f, i, x) == IF f[i] = None THEN [f EXCEPT ![i] = x] ELSE f

(* insert_row_to_database: the table takes operations 0 to 3 alone, so a Remove
   is not kept and the next row takes its number. *)
Logged(h, i, entry) == IF entry.op = "Remove" THEN h ELSE Inserted(h, i, entry)

(* get_last_row: the number of the next history row. *)
LastId(h) == CHOOSE i \in Ids : h[i] # None /\ \A j \in Ids : j > i => h[j] = None
NextId(h) == IF \A i \in Ids : h[i] = None THEN 0 ELSE LastId(h) + 1

Structural(n) == [op |-> "Structural", by |-> n, id |-> None, v |-> 0]

(* The file has just been created.  store_vector_impl broadcasts the package
   after the directory row, store_collection the row alone. *)
Init ==
    /\ type \in Types
    /\ has = {Owner} /\ ready = {Owner}
    /\ vec = [n \in Nodes |-> [k \in Keys |-> None]]
    /\ hist = [n \in Nodes |-> [i \in Ids |->
                  IF type = "Collection" /\ n = Owner /\ i = 0 THEN Structural(n) ELSE None]]
    /\ table = [n \in Nodes |-> [i \in Ids |-> None]]
    /\ removed = [n \in Nodes |-> None]
    /\ chan = IF type = "Collection" THEN [p \in Pairs |-> <<>>]
              ELSE Told([p \in Pairs |-> <<>>], Owner, <<[kind |-> "Package", rows |-> vec[Owner]]>>)
    /\ pool = [n \in Nodes |-> <<>>]
    /\ clock = 1 /\ ops = 0 /\ asks = 0
    /\ writes = {} /\ crossed = FALSE /\ overlap = FALSE
    /\ answers = [n \in Nodes |-> 0]

------------------------------------------------------------------------------
(* Download.                                                                *)

(* LoadManager asks a holder for the content, again when the answer is late. *)
Ask(n, m) ==
    /\ n # Owner /\ m \in ready /\ m # n /\ asks < MaxAsks
    /\ asks' = asks + 1
    /\ chan' = [chan EXCEPT ![<<n, m>>] = Append(@, [kind |-> "Request"])]
    /\ UNCHANGED <<type, ready, has, vec, hist, table, removed, pool, clock, ops, writes, crossed,
                   answers>>
    /\ Noted

(* network_request_vector and generate_content_package: rows that are removed
   are part of it. *)
VectorContent(n) == <<[kind |-> "Package", rows |-> vec[n]]>>

(* network_request_collection. *)
CollectionContent(n) ==
    <<[kind |-> "History", rows |-> hist[n]], [kind |-> "Rows", rows |-> table[n]]>>

HandleRequest(m, n) ==
    /\ chan[<<m, n>>] # <<>> /\ Head(chan[<<m, n>>]).kind = "Request"
    /\ LET c == [chan EXCEPT ![<<m, n>>] = Tail(@)]
       IN  chan' = [c EXCEPT ![<<n, m>>] =
                        @ \o IF type = "Vector" THEN VectorContent(n) ELSE CollectionContent(n)]
    /\ UNCHANGED <<type, ready, has, vec, hist, table, removed, pool, clock, ops, asks, writes,
                   crossed, answers>>
    /\ Noted

(* network_response_content_vector posts to the DFS pool. *)
HandlePackage(m, n) ==
    /\ chan[<<m, n>>] # <<>> /\ Head(chan[<<m, n>>]).kind = "Package"
    /\ chan' = [chan EXCEPT ![<<m, n>>] = Tail(@)]
    /\ pool' = [pool EXCEPT ![n] = Append(@, Head(chan[<<m, n>>]).rows)]
    /\ UNCHANGED <<type, ready, has, vec, hist, table, removed, clock, ops, asks, writes, crossed,
                   answers>>
    /\ Noted

(* Its job: handle_package replaces the rows whatever they are. *)
RunPackage(n) ==
    /\ pool[n] # <<>>
    /\ pool' = [pool EXCEPT ![n] = Tail(@)]
    /\ has' = has \union {n} /\ ready' = ready \union {n}
    /\ vec' = [vec EXCEPT ![n] = [k \in Keys |-> IF Head(pool[n])[k] = None THEN vec[n][k]
                                                ELSE Head(pool[n])[k]]]
    /\ UNCHANGED <<type, hist, table, removed, chan, clock, ops, asks, writes, crossed, answers>>
    /\ Noted

(* network_response_historical_collection: HistoricalCollection::create adds
   the row that creates the table, then the received rows replace others. *)
HandleHistory(m, n) ==
    /\ chan[<<m, n>>] # <<>> /\ Head(chan[<<m, n>>]).kind = "History"
    /\ LET rows    == Head(chan[<<m, n>>]).rows
           created == Inserted(hist[n], NextId(hist[n]), Structural(n))
       IN  /\ NextId(hist[n]) \in Ids
           /\ hist' = [hist EXCEPT ![n] = [i \in Ids |-> IF rows[i] = None THEN created[i]
                                                        ELSE rows[i]]]
    /\ chan' = [chan EXCEPT ![<<m, n>>] = Tail(@)]
    /\ has' = has \union {n}
    /\ answers' = [answers EXCEPT ![n] = @ + 1]
    /\ UNCHANGED <<type, ready, vec, table, removed, pool, clock, ops, asks, writes, crossed>>
    /\ Noted

(* network_response_content_collection. *)
HandleRows(m, n) ==
    /\ chan[<<m, n>>] # <<>> /\ Head(chan[<<m, n>>]).kind = "Rows"
    /\ LET rows == Head(chan[<<m, n>>]).rows
       IN  IF n \in has
           THEN /\ table' = [table EXCEPT ![n] = [i \in Ids |-> IF @[i] = None THEN rows[i] ELSE @[i]]]
                /\ ready' = ready \union {n}
           ELSE UNCHANGED <<table, ready>>
    /\ chan' = [chan EXCEPT ![<<m, n>>] = Tail(@)]
    /\ UNCHANGED <<type, has, vec, hist, removed, pool, clock, ops, asks, writes, crossed, answers>>
    /\ Noted

------------------------------------------------------------------------------
(* Vectors.                                                                 *)

(* A write of a row by n: store_add, then the broadcast. *)
Stored(n, k, row) ==
    /\ ops < MaxOps /\ ops' = ops + 1
    /\ clock' \in clock .. MaxTime /\ row.t = clock'
    /\ vec' = [vec EXCEPT ![n][k] = row]
    /\ chan' = Told(chan, n, <<[kind |-> "Add", key |-> k, row |-> row]>>)
    /\ writes' = writes \union {[key |-> k, row |-> row]}
    /\ UNCHANGED <<type, ready, has, hist, table, removed, pool, asks, crossed, answers>>
    /\ Noted

(* add_vector_row, dictionary_set_value. *)
AddVectorRow(n, k) ==
    /\ type = "Vector" /\ n \in has \intersect Writers
    /\ \E t \in 1 .. MaxTime : Stored(n, k, [by |-> n, t |-> t, live |-> TRUE, v |-> ops + 1])

(* remove_vector_row: only the writer of a row, which stays with status 0. *)
RemoveVectorRow(n, k) ==
    /\ type = "Vector" /\ n \in has \intersect Writers
    /\ vec[n][k] # None /\ vec[n][k].live /\ vec[n][k].by = n
    /\ \E t \in 1 .. MaxTime : Stored(n, k, [by |-> n, t |-> t, live |-> FALSE, v |-> ops + 1])

(* Mutant: the row that comes last stays. *)
NewerAny(old, row) == TRUE

(* local_add with its check: read_row finds live rows only. *)
Newer(old, row) == old = None \/ ~old.live \/ old.t <= row.t

(* network_vector_add; without the template the row is dropped. *)
HandleAdd(m, n) ==
    /\ chan[<<m, n>>] # <<>> /\ Head(chan[<<m, n>>]).kind = "Add"
    /\ LET k   == Head(chan[<<m, n>>]).key
           row == Head(chan[<<m, n>>]).row
       IN  vec' = IF n \in has /\ Newer(vec[n][k], row) THEN [vec EXCEPT ![n][k] = row] ELSE vec
    /\ chan' = [chan EXCEPT ![<<m, n>>] = Tail(@)]
    /\ UNCHANGED <<type, ready, has, hist, table, removed, pool, clock, ops, asks, writes, crossed,
                   answers>>
    /\ Noted

------------------------------------------------------------------------------
(* Collections.                                                             *)

(* insert_historical_row. *)
Appended(n, entry) == Logged(hist[n], NextId(hist[n]), entry)

(* universal_collection_row: the history row, the table and the message, which
   is left out when the table has refused the row (done). *)
Changed(n, entry, tab, done) ==
    LET i == NextId(hist[n])
    IN  /\ type = "Collection" /\ n \in has \intersect Writers
        /\ ops < MaxOps /\ ops' = ops + 1
        /\ i \in Ids
        /\ hist' = [hist EXCEPT ![n] = Appended(n, entry)]
        /\ table' = [table EXCEPT ![n] = tab]
        /\ chan' = Told(chan, n, IF done THEN <<[kind |-> "Change", id |-> i, entry |-> entry]>>
                                 ELSE <<>>)
        /\ crossed' = (crossed \/ \E m \in Nodes \ {n} : \E j \in DOMAIN chan[<<m, n>>] :
                                      chan[<<m, n>>][j].kind = "Change")
        /\ UNCHANGED <<type, ready, has, vec, pool, clock, asks, writes, answers>>
        /\ Noted

AddRow(n) ==
    /\ Changed(n, [op |-> "Add", by |-> n, id |-> None, v |-> ops + 1],
               Inserted(table[n], NextId(hist[n]), ops + 1), table[n][NextId(hist[n])] = None)
    /\ UNCHANGED removed

UpdateRow(n, i) ==
    /\ table[n][i] # None
    /\ Changed(n, [op |-> "Update", by |-> n, id |-> i, v |-> ops + 1],
               [table[n] EXCEPT ![i] = ops + 1], TRUE)
    /\ UNCHANGED removed

(* remove_row: the table loses the row that the first call named. *)
RemoveRow(n, i) ==
    LET gone == IF removed[n] = None THEN i ELSE removed[n]
    IN  /\ table[n][i] # None
        /\ Changed(n, [op |-> "Remove", by |-> n, id |-> i, v |-> ops + 1],
                   [table[n] EXCEPT ![gone] = None], TRUE)
        /\ removed' = [removed EXCEPT ![n] = gone]

(* Mutant: a changed row takes the next number of the receiver. *)
ReceivedNext(n, i, entry) ==
    [table[n] EXCEPT ![NextId(table[n])] = IF entry.op = "Add" THEN entry.v ELSE 0]

(* change_collection: whatever the operation, a row with the number of the
   history row; only Add has columns for it. *)
Received(n, i, entry) == Inserted(table[n], i, IF entry.op = "Add" THEN entry.v ELSE 0)

(* network_change_collection; without the history the row is dropped. *)
HandleChange(m, n) ==
    /\ chan[<<m, n>>] # <<>> /\ Head(chan[<<m, n>>]).kind = "Change"
    /\ LET i     == Head(chan[<<m, n>>]).id
           entry == Head(chan[<<m, n>>]).entry
       IN  IF n \in has
           THEN /\ hist' = [hist EXCEPT ![n] = Logged(@, i, entry)]
                /\ table' = [table EXCEPT ![n] = Received(n, i, entry)]
           ELSE UNCHANGED <<hist, table>>
    /\ chan' = [chan EXCEPT ![<<m, n>>] = Tail(@)]
    /\ UNCHANGED <<type, ready, has, vec, removed, pool, clock, ops, asks, writes, crossed, answers>>
    /\ Noted

Next ==
    \/ \E n \in Nodes : RunPackage(n) \/ AddRow(n)
    \/ \E n \in Nodes, k \in Keys : AddVectorRow(n, k) \/ RemoveVectorRow(n, k)
    \/ \E n \in Nodes, i \in Ids : UpdateRow(n, i) \/ RemoveRow(n, i)
    \/ \E p \in Pairs : \/ Ask(p[1], p[2]) \/ HandleRequest(p[1], p[2])
                        \/ HandlePackage(p[1], p[2]) \/ HandleHistory(p[1], p[2])
                        \/ HandleRows(p[1], p[2]) \/ HandleAdd(p[1], p[2])
                        \/ HandleChange(p[1], p[2])

Spec == Init /\ [][Next]_vars

------------------------------------------------------------------------------

(* Rows of one key that two actors wrote in the same millisecond. *)
Tie == \E a, b \in writes : a.key = b.key /\ a.row.t = b.row.t /\ a.row.by # b.row.by

(* A row was removed from a key that more than one actor wrote. *)
ContestedRemoval ==
    \E a, b \in writes : a.key = b.key /\ ~a.row.live /\ a.row.by # b.row.by

(* When nothing is on its way any more the copies of a vector have the same
   rows, whichever order the broadcasts of several writers arrived in, copies
   fetched late included: unless content was fetched while a row was on its
   way, or the exceptions above. *)
VectorsAgree ==
    type = "Vector" /\ Quiet /\ ~overlap /\ ~Tie /\ ~ContestedRemoval =>
        \A m, n \in has : vec[m] = vec[n]

OnlyAdds ==
    \A n \in Nodes : /\ removed[n] = None
                    /\ \A i \in Ids : hist[n][i] # None => hist[n][i].op \in {"Structural", "Add"}

(* When nothing is on its way the copies of a collection have the same history
   and the same rows, when rows are only added, a writer has heard of the rows
   before its own, and content was fetched once and not during a write. *)
CollectionsAgree ==
    type = "Collection" /\ Quiet /\ ~overlap /\ ~crossed /\ OnlyAdds
        /\ (\A n \in Nodes : answers[n] <= 1) =>
        \A m, n \in has : hist[m] = hist[n] /\ table[m] = table[n]

(* The copies of a file agree when nothing is on its way, with the exceptions
   of its type. *)
CopiesAgree == VectorsAgree /\ CollectionsAgree
=============================================================================
