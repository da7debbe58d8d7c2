------------------------------- MODULE DfsProofs -------------------------------
(***************************************************************************)
(* Proofs about the directories of the DFS and the rows inside a file, for *)
(* every graph of links and every number of nodes, files, keys and writes. *)
(*                                                                         *)
(* Directories.                                                            *)
(* A row replaces other rows when it has their file or their predecessor   *)
(* (the column prev_file_id is UNIQUE), so that a row that arrives could   *)
(* delete that of another file.  It does not while one author adds to the  *)
(* end of the order (Linear): the author's own table is a chain without    *)
(* gaps, and every table, message and job has links of that chain alone.   *)
(* Two authors who add a file at the same time break this, and rows are    *)
(* lost; that is why the theorems are about one author.                    *)
(*                                                                         *)
(* Contents.  Of a vector every copy has, key by key, the last of the      *)
(* writes that it has heard of (VecHeard), and a write it has not heard of *)
(* is on its way from its writer, in the order of the writes (VecOrder).   *)
(* Of a collection every history row of one copy is in the others or on    *)
(* its way to them (ColHeard), and the rows follow from the history.  Both *)
(* fail when content is fetched while a write is on its way, or under the  *)
(* exceptions that DfsContent names; those are the guards.                 *)
(***************************************************************************)
EXTENDS MCDfs, FiniteSetTheorems, WellFoundedInduction, TLAPS

(* One node holds the key that the directory is written with. *)
OneAuthor == \E w : Writers = {w}
Author == CHOOSE w : Writers = {w}

(* Which file follows which. *)
Link(r) == <<r.file, r.prev>>
LinksOf(t) == {Link(r) : r \in t}

(* The order of the files: no file has two predecessors, no two files the
   same one, and one file is nobody's predecessor. *)
Linear(c) ==
    /\ \A x, y \in c : x[1] = y[1] => x = y
    /\ \A x, y \in c : x[2] = y[2] /\ x[2] # None => x = y
    /\ \A x \in c : x[2] = None \/ \E y \in c : y[1] = x[2]
    /\ \E e \in c : \A x \in c : x = e <=> \A y \in c : y[2] # x[1]

OneRowEach(t) == \A r, s \in t : r.file = s.file => r = s

(* The order that the author has given to the files. *)
Chain == LinksOf(table[Author])

(* The rows, as messages carry them. *)
Message == [kind : {"row"}, row : Row] \union [kind : {"rows"}, rows : SUBSET Row]
    \union [kind : {"remove"}, file : Ids, time : Nat, sign : {Hashed(r) : r \in Row}]
    \union [kind : {"state"}, file : Ids, ready : BOOLEAN, notify : BOOLEAN]
    \union [kind : {"ask"}, file : Ids] \union [kind : {"sync"}]

(* The messages whose rows keep to an order. *)
MessagesOf(c) ==
    {m \in Message : /\ m.kind = "row" => Link(m.row) \in c
                     /\ m.kind = "rows" => LinksOf(m.rows) \subseteq c}

Traffic(c) ==
    /\ chan \in [Pairs -> Seq(MessagesOf(c))]
    /\ pool \in [Nodes -> SUBSET [from : Nodes, msg : MessagesOf(c)]]

(* The inductive invariant: the author has one row for a file and they form a
   chain; what others have or will receive are links of that chain. *)
DirInv ==
    /\ table \in [Nodes -> SUBSET Row] /\ clock \in Nat
    /\ OneRowEach(table[Author]) /\ Linear(Chain)
    /\ \A n \in Nodes : LinksOf(table[n]) \subseteq Chain
    /\ Traffic(Chain)

(* A step that may replace rows and adds none that the order does not have. *)
Keeps(t, t2, c) ==
    /\ t2 \subseteq Row
    /\ LinksOf(t) \subseteq LinksOf(t2) /\ LinksOf(t2) \subseteq c
    /\ OneRowEach(t) /\ LinksOf(t) = c => OneRowEach(t2)

LEMMA LinkFacts ==
  /\ \A t, x : x \in LinksOf(t) <=> \E r \in t : x = Link(r)
  /\ \A r : Link(r)[1] = r.file /\ Link(r)[2] = r.prev
  /\ \A r, s : Link(r) = Link(s) <=> r.file = s.file /\ r.prev = s.prev
  /\ \A n, f : HasRow(n, f) <=> \E x \in LinksOf(table[n]) : x[1] = f
<1>1. \A t, x : x \in LinksOf(t) <=> \E r \in t : x = Link(r)
  BY DEF LinksOf
<1>2. \A r : Link(r)[1] = r.file /\ Link(r)[2] = r.prev
  BY DEF Link
<1>3. \A r, s : Link(r) = Link(s) <=> r.file = s.file /\ r.prev = s.prev
  BY DEF Link
<1>4. \A n, f : HasRow(n, f) <=> \E x \in LinksOf(table[n]) : x[1] = f
  BY <1>1, <1>2 DEF HasRow
<1> QED BY <1>1, <1>2, <1>3, <1>4

LEMMA AuthorFact ==
  ASSUME OneAuthor
  PROVE  /\ Writers = {Author} /\ Author \in Nodes
         /\ First \in Ids /\ None \notin Ids /\ IsFiniteSet(Files)
BY DirectoryAssumption DEF OneAuthor, Author, Ids

(* A row is replaced by one of the same file. *)
LEMMA ChangedRow ==
  ASSUME NEW c, NEW t \in SUBSET Row, LinksOf(t) \subseteq c,
         NEW x \in t, NEW y \in Row, Link(y) = Link(x)
  PROVE  Keeps(t, (t \ {x}) \union {y}, c)
<1> DEFINE t2 == (t \ {x}) \union {y}
<1>1. LinksOf(t2) = LinksOf(t)
  BY DEF LinksOf
<1>2. OneRowEach(t) => OneRowEach(t2)
  BY LinkFacts DEF OneRowEach
<1> QED BY <1>1, <1>2 DEF Keeps

LEMMA RowIsThere ==
  ASSUME NEW n, NEW f, HasRow(n, f)
  PROVE  RowOf(n, f) \in table[n] /\ RowOf(n, f).file = f
BY DEF HasRow, RowOf

LEMMA RowTypes ==
  ASSUME NEW r \in Row
  PROVE  /\ \A time \in Nat : Emptied(r, time) \in Row /\ Link(Emptied(r, time)) = Link(r)
         /\ \A s \in {"Known", "Ready", "Removed"} :
              [r EXCEPT !.state = s] \in Row /\ Link([r EXCEPT !.state = s]) = Link(r)
         /\ \A time \in Nat, d \in Folders \union {None} :
              /\ [r EXCEPT !.folder = d, !.modified = time] \in Row
              /\ Link([r EXCEPT !.folder = d, !.modified = time]) = Link(r)
         /\ \A q \in Row : Touched(r, q) \in Row /\ Link(Touched(r, q)) = Link(r)
         /\ Arriving(r) \in Row /\ Link(Arriving(r)) = Link(r)
         /\ r.file \in Ids /\ r.prev \in Ids \union {None} /\ r.modified \in Nat
BY DEF Row, Emptied, Link, Touched, Arriving

LEMMA StateChanged ==
  ASSUME NEW c, NEW t \in SUBSET Row, LinksOf(t) \subseteq c, NEW f,
         NEW s \in {"Known", "Ready", "Removed"}
  PROVE  Keeps(t, WithState(t, f, s), c)
<1> DEFINE g(r) == IF r.file = f THEN [r EXCEPT !.state = s] ELSE r
<1>1. \A r \in t : g(r) \in Row /\ Link(g(r)) = Link(r)
  BY RowTypes
<1>2. WithState(t, f, s) = {g(r) : r \in t}
  BY DEF WithState
<1> HIDE DEF g
<1>3. LinksOf({g(r) : r \in t}) = LinksOf(t)
  BY <1>1 DEF LinksOf
<1>4. OneRowEach(t) => OneRowEach({g(r) : r \in t})
  BY <1>1, LinkFacts DEF OneRowEach
<1> QED BY <1>1, <1>2, <1>3, <1>4 DEF Keeps

LEMMA ReplacedKeeps ==
  ASSUME NEW c, Linear(c), NEW t \in SUBSET Row, LinksOf(t) \subseteq c,
         NEW r \in Row, Link(r) \in c
  PROVE  Keeps(t, Replaced(t, r), c)
<1>1. \A s \in t : Link(s) \in c /\ (Clash(r, s) => Link(s) = Link(r))
  BY LinkFacts DEF Clash, Linear
<1>2. \A s \in t : s.file = r.file => Clash(r, s)
  BY DEF Clash
<1> DEFINE t2 == Replaced(t, r)
<1>3. r \in t2 /\ \A s : s \in t2 <=> (s = r \/ (s \in t /\ ~Clash(r, s)))
  BY DEF Replaced
<1> HIDE DEF t2
<1>4. \A x \in LinksOf(t) : x \in LinksOf(t2)
  <2> SUFFICES ASSUME NEW x \in LinksOf(t) PROVE x \in LinksOf(t2)
    OBVIOUS
  <2>1. PICK s \in t : x = Link(s)
    BY LinkFacts
  <2> QED BY <2>1, <1>1, <1>3, LinkFacts
<1>5. \A x \in LinksOf(t2) : x \in c
  BY <1>1, <1>3, LinkFacts
<1>6. OneRowEach(t) => OneRowEach(t2)
  BY <1>2, <1>3 DEF OneRowEach
<1>7. t2 \subseteq Row
  BY <1>3
<1> QED BY <1>4, <1>5, <1>6, <1>7 DEF Keeps, t2

(* The rows of a synchronisation. *)
LEMMA InsertedKeeps ==
  ASSUME NEW c, Linear(c), NEW t \in SUBSET Row, LinksOf(t) \subseteq c,
         NEW rows \in SUBSET Row, LinksOf(rows) \subseteq c, NEW gone,
         NEW kept, kept = {IF r.file \in gone THEN [r EXCEPT !.state = "Removed"] ELSE r : r \in t}
  PROVE  Keeps(t, kept \union {Arriving(r) : r \in Inserted(kept, rows)}, c)
<1> DEFINE g(r) == IF r.file \in gone THEN [r EXCEPT !.state = "Removed"] ELSE r
           new == {Arriving(r) : r \in Inserted(kept, rows)}
<1>1. \A r \in t : g(r) \in Row /\ Link(g(r)) = Link(r)
  BY RowTypes
<1>2. kept = {g(r) : r \in t}
  OBVIOUS
<1> HIDE DEF g
<1>3. LinksOf(kept) = LinksOf(t) /\ kept \subseteq Row
  BY <1>1, <1>2 DEF LinksOf
<1>4. OneRowEach(t) => OneRowEach(kept)
  <2>1. \A r \in t : g(r).file = r.file
    BY <1>1 DEF Link
  <2>2. OneRowEach(t) => \A r, s \in t : g(r).file = g(s).file => r = s
    BY <2>1 DEF OneRowEach
  <2> QED BY <1>2, <2>2 DEF OneRowEach
<1>5. Inserted(kept, rows) \subseteq rows
  BY DEF Inserted
<1>6. new \subseteq Row /\ LinksOf(new) \subseteq c
  <2>1. \A r \in Inserted(kept, rows) : r \in Row /\ Link(r) \in c
    BY <1>5, LinkFacts
  <2>2. \A r \in Inserted(kept, rows) : Arriving(r) \in Row /\ Link(Arriving(r)) \in c
    BY <2>1, RowTypes
  <2> QED BY <2>2 DEF LinksOf
<1>7. LinksOf(t) = c => Inserted(kept, rows) = {}
  <2> SUFFICES ASSUME LinksOf(t) = c, NEW r \in Inserted(kept, rows) PROVE FALSE
    OBVIOUS
  <2>1. Link(r) \in LinksOf(kept)
    BY <1>3, <1>5, LinkFacts
  <2>2. PICK s \in kept : Link(s) = Link(r)
    BY <2>1 DEF LinksOf
  <2> QED BY <2>2, LinkFacts DEF Inserted, Clash
<1>8. LinksOf(kept \union new) = LinksOf(kept) \union LinksOf(new)
  BY DEF LinksOf
<1>9. LinksOf(t) = c => kept \union new = kept
  BY <1>7
<1> QED BY <1>3, <1>4, <1>6, <1>8, <1>9 DEF Keeps

(* A step that keeps the order as it is. *)
(* A step that adds nothing to the order. *)
Steady(c) ==
    /\ table' \in [Nodes -> SUBSET Row] /\ clock' \in Nat
    /\ \A n \in Nodes : Keeps(table[n], table'[n], c)
    /\ Traffic(c)'

LEMMA SameKeeps ==
  ASSUME NEW c, NEW t \in SUBSET Row, LinksOf(t) \subseteq c
  PROVE  Keeps(t, t, c)
BY DEF Keeps

LEMMA Received ==
  ASSUME NEW c, NEW m \in MessagesOf(c)
  PROVE  /\ m.kind = "row" => m.row \in Row /\ Link(m.row) \in c
         /\ m.kind = "rows" => m.rows \in SUBSET Row /\ LinksOf(m.rows) \subseteq c
         /\ m.kind = "remove" => m.time \in Nat
<1>1. m \in Message
  BY DEF MessagesOf
<1>2. m.kind = "row" => m.row \in Row
  BY <1>1 DEF Message
<1>3. m.kind = "rows" => m.rows \in SUBSET Row
  BY <1>1 DEF Message
<1>4. m.kind = "remove" => m.time \in Nat
  BY <1>1 DEF Message
<1> QED BY <1>2, <1>3, <1>4 DEF MessagesOf

LEMMA Sendable ==
  ASSUME NEW c
  PROVE  /\ \A r \in Row : Link(r) \in c => RowMsg(r) \in MessagesOf(c)
         /\ \A s \in SUBSET Row :
              LinksOf(s) \subseteq c => [kind |-> "rows", rows |-> s] \in MessagesOf(c)
         /\ \A f \in Ids, k \in Nat, r \in Row :
              [kind |-> "remove", file |-> f, time |-> k, sign |-> Hashed(r)] \in MessagesOf(c)
         /\ \A f \in Ids, b, d \in BOOLEAN :
              [kind |-> "state", file |-> f, ready |-> b, notify |-> d] \in MessagesOf(c)
         /\ \A f \in Ids : [kind |-> "ask", file |-> f] \in MessagesOf(c)
         /\ [kind |-> "sync"] \in MessagesOf(c)
<1>1. \A r \in Row : Link(r) \in c => RowMsg(r) \in MessagesOf(c)
  BY DEF RowMsg, MessagesOf, Message
<1>2. \A s \in SUBSET Row :
         LinksOf(s) \subseteq c => [kind |-> "rows", rows |-> s] \in MessagesOf(c)
  BY DEF MessagesOf, Message
<1>3. \A f \in Ids, k \in Nat, r \in Row :
         [kind |-> "remove", file |-> f, time |-> k, sign |-> Hashed(r)] \in MessagesOf(c)
  <2> SUFFICES ASSUME NEW f \in Ids, NEW k \in Nat, NEW r \in Row
               PROVE  [kind |-> "remove", file |-> f, time |-> k, sign |-> Hashed(r)]
                        \in MessagesOf(c)
    OBVIOUS
  <2>1. Hashed(r) \in {Hashed(s) : s \in Row}
    OBVIOUS
  <2> QED BY <2>1 DEF MessagesOf, Message
<1>4. \A f \in Ids, b, d \in BOOLEAN :
         [kind |-> "state", file |-> f, ready |-> b, notify |-> d] \in MessagesOf(c)
  BY DEF MessagesOf, Message
<1>5. \A f \in Ids : [kind |-> "ask", file |-> f] \in MessagesOf(c)
  BY DEF MessagesOf, Message
<1>6. [kind |-> "sync"] \in MessagesOf(c)
  BY DEF MessagesOf, Message
<1> QED BY <1>1, <1>2, <1>3, <1>4, <1>5, <1>6

LEMMA TwoMessages ==
  ASSUME NEW M, NEW s \in Seq(M), NEW a \in M, NEW b \in M
  PROVE  s \o <<a, b>> \in Seq(M)
<1>1. <<a, b>> \in Seq(M)
  OBVIOUS
<1> QED BY <1>1

LEMMA SentTyped ==
  ASSUME NEW M, chan \in [Pairs -> Seq(M)], NEW n, NEW to, NEW msg \in M
  PROVE  Sent(n, to, msg) \in [Pairs -> Seq(M)]
<1>1. \A p \in Pairs : chan[p] \in Seq(M) /\ Append(chan[p], msg) \in Seq(M)
  OBVIOUS
<1> QED BY <1>1 DEF Sent

(* Parts of a proof: the table of one node changes. *)
LEMMA OneTable ==
  ASSUME NEW c, table \in [Nodes -> SUBSET Row], NEW n \in Nodes, NEW t,
         \A k \in Nodes : LinksOf(table[k]) \subseteq c,
         Keeps(table[n], t, c), table' = [table EXCEPT ![n] = t],
         clock' \in Nat, Traffic(c)'
  PROVE  Steady(c)
<1>1. t \in SUBSET Row
  BY DEF Keeps
<1>2. table' \in [Nodes -> SUBSET Row]
  BY <1>1
<1>3. \A k \in Nodes : Keeps(table[k], table'[k], c)
  BY SameKeeps
<1> QED BY <1>2, <1>3 DEF Steady

LEMMA SameTable ==
  ASSUME NEW c, table \in [Nodes -> SUBSET Row],
         \A k \in Nodes : LinksOf(table[k]) \subseteq c,
         table' = table, clock' \in Nat, Traffic(c)'
  PROVE  Steady(c)
BY SameKeeps DEF Steady

LEMMA SteadyKeeps ==
  ASSUME OneAuthor, DirInv, NEW c, c = Chain, Steady(c)
  PROVE  DirInv' /\ \A n \in Nodes : LinksOf(table[n]) \subseteq LinksOf(table'[n])
<1>1. Author \in Nodes
  BY AuthorFact
<1>2. Keeps(table[Author], table'[Author], Chain)
  BY <1>1 DEF Steady
<1>3. LinksOf(table'[Author]) = Chain /\ OneRowEach(table'[Author])
  BY <1>2 DEF Keeps, Chain, DirInv
<1>4. Chain' = Chain
  BY <1>3 DEF Chain
<1>5. \A n \in Nodes : /\ LinksOf(table[n]) \subseteq LinksOf(table'[n])
                       /\ LinksOf(table'[n]) \subseteq Chain
  BY DEF Steady, Keeps
<1>6. Traffic(Chain)'
  BY <1>4 DEF Steady
<1>7. Linear(Chain)'
  BY <1>4 DEF DirInv
<1>8. OneRowEach(table[Author])'
  BY <1>3
<1> QED BY <1>4, <1>5, <1>6, <1>7, <1>8 DEF DirInv, Steady

(* The file that the next one follows is the last one. *)
LEMMA LastIsEnd ==
  ASSUME NEW t \in SUBSET Row, OneRowEach(t), Linear(LinksOf(t))
  PROVE  \E e \in LinksOf(t) : /\ LastFileId(t) = e[1]
                               /\ \A x \in LinksOf(t) :
                                    x = e <=> \A y \in LinksOf(t) : y[2] # x[1]
<1>1. PICK e \in LinksOf(t) :
        \A x \in LinksOf(t) : x = e <=> \A y \in LinksOf(t) : y[2] # x[1]
  BY DEF Linear
<1>2. PICK r \in t : e = Link(r)
  BY LinkFacts
<1>3. ASSUME NEW s \in t PROVE s \in ChainEnds(t) <=> s = r
  <2>1. Link(s) \in LinksOf(t)
    BY LinkFacts
  <2>2. s \in ChainEnds(t) <=> \A q \in t : Link(q)[2] # Link(s)[1]
    BY LinkFacts DEF ChainEnds
  <2>3. (\A q \in t : Link(q)[2] # Link(s)[1]) <=> \A y \in LinksOf(t) : y[2] # Link(s)[1]
    BY LinkFacts
  <2>4. s \in ChainEnds(t) <=> Link(s) = e
    BY <1>1, <2>1, <2>2, <2>3
  <2>5. Link(s) = e <=> s = r
    BY <1>2, LinkFacts DEF OneRowEach
  <2> QED BY <2>4, <2>5
<1>4. ChainEnds(t) = {r}
  BY <1>3 DEF ChainEnds
<1>5. Cardinality(ChainEnds(t)) = 1
  BY <1>4, FS_Singleton
<1>6. LastFileId(t) = (CHOOSE q \in ChainEnds(t) : TRUE).file
  BY <1>5, <1>2 DEF LastFileId
<1>7. LastFileId(t) = r.file
  BY <1>6, <1>4
<1> QED BY <1>7, <1>2, <1>1, LinkFacts

(* A new file at the end. *)
LEMMA LongerChain ==
  ASSUME NEW c, Linear(c), NEW e \in c,
         \A x \in c : x = e <=> \A y \in c : y[2] # x[1],
         \A x \in c : x[1] # None, NEW f, f # None, \A x \in c : x[1] # f
  PROVE  Linear(c \union {<<f, e[1]>>})
<1> DEFINE z == <<f, e[1]>>
           d == c \union {z}
<1>1. z[1] = f /\ z[2] = e[1]
  OBVIOUS
<1> HIDE DEF z
<1>2. \A x \in c : x[2] # f /\ x[2] # e[1]
  BY DEF Linear
<1>3. \A x, y \in d : x[1] = y[1] => x = y
  BY <1>1, <1>2 DEF Linear
<1>4. \A x, y \in d : x[2] = y[2] /\ x[2] # None => x = y
  BY <1>1, <1>2 DEF Linear
<1>5. \A x \in d : x[2] = None \/ \E y \in d : y[1] = x[2]
  BY <1>1 DEF Linear
<1>6. \A x \in d : x = z <=> \A y \in d : y[2] # x[1]
  <2>1. \A y \in d : y[2] # z[1]
    BY <1>1, <1>2
  <2>2. \A x \in c : \E y \in d : y[2] = x[1]
    <3> SUFFICES ASSUME NEW x \in c PROVE \E y \in d : y[2] = x[1]
      OBVIOUS
    <3>1. CASE x = e
      BY <3>1, <1>1
    <3>2. CASE x # e
      BY <3>2
    <3> QED BY <3>1, <3>2
  <2> QED BY <2>1, <2>2
<1> QED BY <1>3, <1>4, <1>5, <1>6 DEF Linear, z

(* The author stores a file or a folder. *)
LEMMA StoreKeeps ==
  ASSUME DirInv, OneAuthor, NEW n \in Writers, NEW f \in Ids, Unused(f),
         NEW d \in Folders \union {None}, NEW r, r = NewRow(n, f, d),
         table' = [table EXCEPT ![n] = Replaced(@, r)], clock' = clock + 1,
         pool' = pool
  PROVE  /\ chan' \in [Pairs -> Seq(MessagesOf(Chain'))] => DirInv'
         /\ \A k \in Nodes : LinksOf(table[k]) \subseteq LinksOf(table'[k])
         /\ r \in Row /\ Link(r) \in Chain'
         /\ MessagesOf(Chain) \subseteq MessagesOf(Chain')
<1> DEFINE t == table[n]
<1>1. n = Author /\ n \in Nodes /\ Chain = LinksOf(t)
  BY AuthorFact DEF Chain
<1>2. t \in SUBSET Row /\ OneRowEach(t) /\ Linear(LinksOf(t)) /\ clock \in Nat
  BY <1>1 DEF DirInv
<1>3. PICK e \in LinksOf(t) : /\ LastFileId(t) = e[1]
                              /\ \A x \in LinksOf(t) :
                                    x = e <=> \A y \in LinksOf(t) : y[2] # x[1]
  BY <1>2, LastIsEnd
<1>4. \A x \in LinksOf(t) : x[1] # f /\ x[1] \in Ids
  <2> SUFFICES ASSUME NEW x \in LinksOf(t) PROVE x[1] # f /\ x[1] \in Ids
    OBVIOUS
  <2>1. PICK s \in t : x = Link(s)
    BY LinkFacts
  <2>2. s.file # f
    BY <1>1 DEF Unused, HasRow
  <2>3. s \in Row
    BY <1>2
  <2> QED BY <2>1, <2>2, <2>3, LinkFacts, RowTypes
<1>5. f # None /\ \A x \in LinksOf(t) : x[1] # None
  BY <1>4, AuthorFact
<1>6. r \in Row /\ Link(r) = <<f, e[1]>> /\ r.file = f /\ r.prev = e[1]
  <2>1. e[1] \in Ids
    BY <1>4
  <2> QED BY <2>1, <1>1, <1>2, <1>3 DEF NewRow, Row, Link
<1>7. Linear(LinksOf(t) \union {Link(r)})
  BY <1>2, <1>3, <1>4, <1>5, <1>6, LongerChain
<1>8. \A s \in t : ~Clash(r, s)
  <2> SUFFICES ASSUME NEW s \in t PROVE ~Clash(r, s)
    OBVIOUS
  <2>1. Link(s) \in LinksOf(t)
    BY LinkFacts
  <2>2. s.file # f /\ s.prev # e[1]
    BY <2>1, <1>3, <1>4, LinkFacts
  <2> QED BY <2>2, <1>6 DEF Clash
<1>9. Replaced(t, r) = t \union {r}
  BY <1>8 DEF Replaced
<1>10. table' = [table EXCEPT ![n] = t \union {r}] /\ table'[n] = t \union {r}
  BY <1>1, <1>9 DEF DirInv
<1>11. Chain' = Chain \union {Link(r)}
  <2>1. Chain' = LinksOf(t \union {r})
    BY <1>1, <1>10 DEF Chain
  <2> QED BY <2>1, <1>1, LinkFacts DEF LinksOf
<1>12. OneRowEach(t \union {r})
  BY <1>2, <1>8 DEF OneRowEach, Clash
<1>13. \A k \in Nodes : /\ LinksOf(table[k]) \subseteq LinksOf(table'[k])
                        /\ LinksOf(table'[k]) \subseteq Chain'
  <2> SUFFICES ASSUME NEW k \in Nodes
               PROVE  /\ LinksOf(table[k]) \subseteq LinksOf(table'[k])
                      /\ LinksOf(table'[k]) \subseteq Chain'
    OBVIOUS
  <2>1. LinksOf(table[k]) \subseteq Chain
    BY DEF DirInv
  <2>2. CASE k = n
    BY <2>2, <1>1, <1>10, <1>11 DEF Chain
  <2>3. CASE k # n
    BY <2>1, <2>3, <1>10, <1>11 DEF DirInv
  <2> QED BY <2>2, <2>3
<1>14. \A m \in MessagesOf(Chain) : m \in MessagesOf(Chain')
  BY <1>11 DEF MessagesOf
<1>15. ASSUME chan' \in [Pairs -> Seq(MessagesOf(Chain'))] PROVE Traffic(Chain)'
  <2>1. pool \in [Nodes -> SUBSET [from : Nodes, msg : MessagesOf(Chain)]]
    BY DEF DirInv, Traffic
  <2>2. pool \in [Nodes -> SUBSET [from : Nodes, msg : MessagesOf(Chain')]]
    BY <2>1, <1>14
  <2> QED BY <1>15, <2>2 DEF Traffic
<1>16. table' \in [Nodes -> SUBSET Row] /\ clock' \in Nat
  <2>1. t \union {r} \in SUBSET Row
    BY <1>2, <1>6
  <2>2. table \in [Nodes -> SUBSET Row] /\ clock' \in Nat
    BY <1>2 DEF DirInv
  <2> QED BY <2>1, <2>2, <1>10
<1>17. chan' \in [Pairs -> Seq(MessagesOf(Chain'))] => DirInv'
  BY <1>1, <1>7, <1>10, <1>11, <1>12, <1>13, <1>15, <1>16 DEF DirInv
<1> QED BY <1>6, <1>11, <1>13, <1>14, <1>17

LEMMA InvFacts ==
  ASSUME DirInv
  PROVE  /\ table \in [Nodes -> SUBSET Row] /\ clock \in Nat /\ Linear(Chain)
         /\ \A n \in Nodes : LinksOf(table[n]) \subseteq Chain
         /\ chan \in [Pairs -> Seq(MessagesOf(Chain))]
         /\ pool \in [Nodes -> SUBSET [from : Nodes, msg : MessagesOf(Chain)]]
BY DEF DirInv, Traffic

LEMMA StoreFileKeeps ==
  ASSUME DirInv, OneAuthor, NEW n \in Nodes, NEW f \in Ids, NEW d, StoreFile(n, f, d)
  PROVE  DirInv' /\ \A k \in Nodes : LinksOf(table[k]) \subseteq LinksOf(table'[k])
<1> DEFINE r == NewRow(n, f, d)
<1>1. n \in Writers /\ f \in Files /\ Unused(f) /\ IsFolder(n, d) /\ clock' = clock + 1
      /\ pool' = pool /\ table' = [table EXCEPT ![n] = Replaced(@, r)]
  BY DEF StoreFile
<1>2. chan' = [p \in Pairs |->
                IF p[1] = n /\ p[2] \in Neighbours(n)
                THEN chan[p] \o <<RowMsg(r), ExistMsg(f, TRUE)>> ELSE chan[p]]
  BY DEF StoreFile
<1>3. d \in Folders \union {None}
  BY <1>1 DEF IsFolder
<1> HIDE DEF r
<1>4. /\ \A k \in Nodes : LinksOf(table[k]) \subseteq LinksOf(table'[k])
      /\ r \in Row /\ Link(r) \in Chain' /\ MessagesOf(Chain) \subseteq MessagesOf(Chain')
      /\ chan' \in [Pairs -> Seq(MessagesOf(Chain'))] => DirInv'
  BY <1>1, <1>3, StoreKeeps DEF r
<1> DEFINE M == MessagesOf(Chain')
<1>5. RowMsg(r) \in M /\ ExistMsg(f, TRUE) \in M
  BY <1>4, Sendable DEF ExistMsg
<1>6. \A p \in Pairs : chan[p] \in Seq(M)
  BY <1>4, InvFacts
<1> HIDE DEF M
<1>7. \A p \in Pairs : chan[p] \o <<RowMsg(r), ExistMsg(f, TRUE)>> \in Seq(M)
  BY <1>5, <1>6, TwoMessages
<1>8. chan' \in [Pairs -> Seq(M)]
  BY <1>2, <1>6, <1>7
<1> QED BY <1>4, <1>8 DEF M

LEMMA StoreFolderKeeps ==
  ASSUME DirInv, OneAuthor, NEW n \in Nodes, NEW f \in Ids, NEW d, StoreFolder(n, f, d)
  PROVE  DirInv' /\ \A k \in Nodes : LinksOf(table[k]) \subseteq LinksOf(table'[k])
<1> DEFINE r == NewRow(n, f, d)
<1>1. n \in Writers /\ Unused(f) /\ IsFolder(n, d) /\ clock' = clock + 1
      /\ pool' = pool /\ table' = [table EXCEPT ![n] = Replaced(@, r)]
      /\ chan' = Sent(n, Nodes, RowMsg(r))
  BY DEF StoreFolder
<1>2. d \in Folders \union {None}
  BY <1>1 DEF IsFolder
<1> HIDE DEF r
<1>3. /\ \A k \in Nodes : LinksOf(table[k]) \subseteq LinksOf(table'[k])
      /\ r \in Row /\ Link(r) \in Chain' /\ MessagesOf(Chain) \subseteq MessagesOf(Chain')
      /\ chan' \in [Pairs -> Seq(MessagesOf(Chain'))] => DirInv'
  BY <1>1, <1>2, StoreKeeps DEF r
<1> DEFINE M == MessagesOf(Chain')
<1>4. RowMsg(r) \in M
  BY <1>3, Sendable
<1>5. chan \in [Pairs -> Seq(M)]
  <2>1. \A p \in Pairs : chan[p] \in Seq(M)
    BY <1>3, InvFacts
  <2> QED BY <2>1, InvFacts
<1> HIDE DEF M
<1>6. chan' \in [Pairs -> Seq(M)]
  BY <1>1, <1>4, <1>5, SentTyped
<1> QED BY <1>3, <1>6 DEF M

(* The other operations of the user. *)
LEMMA MoveSteady ==
  ASSUME DirInv, NEW c, c = Chain, NEW n \in Nodes, NEW f \in Ids, NEW d,
         MoveToFolder(n, f, d)
  PROVE  Steady(c)
<1> DEFINE old == RowOf(n, f)
           r == [old EXCEPT !.folder = d, !.modified = clock + 1]
           new == Touched(old, r)
<1>1. /\ HasRow(n, f) /\ IsFolder(n, d)
      /\ table' = [table EXCEPT ![n] = (table[n] \ {old}) \union {new}]
      /\ chan' = Sent(n, Nodes, RowMsg(r))
      /\ clock' = clock + 1 /\ pool' = pool
  BY DEF MoveToFolder
<1>2. old \in table[n] /\ old \in Row /\ Link(old) \in c
  BY <1>1, RowIsThere, InvFacts, LinkFacts
<1> HIDE DEF old
<1>3. d \in Folders \union {None} /\ clock + 1 \in Nat
  BY <1>1, InvFacts DEF IsFolder
<1>4. r \in Row /\ Link(r) = Link(old)
  BY <1>2, <1>3, RowTypes
<1> HIDE DEF r
<1>5. new \in Row /\ Link(new) = Link(old)
  BY <1>2, <1>4, RowTypes
<1> HIDE DEF new
<1>6. Keeps(table[n], (table[n] \ {old}) \union {new}, c)
  BY <1>2, <1>5, InvFacts, ChangedRow
<1>7. chan' \in [Pairs -> Seq(MessagesOf(c))]
  BY <1>1, <1>2, <1>4, InvFacts, Sendable, SentTyped
<1>8. Traffic(c)'
  BY <1>1, <1>7, InvFacts DEF Traffic
<1> QED BY <1>1, <1>3, <1>6, <1>8, InvFacts, OneTable

LEMMA RemoveStoredSteady ==
  ASSUME DirInv, NEW c, c = Chain, NEW n \in Nodes, NEW f \in Ids, RemoveStoredFile(n, f)
  PROVE  Steady(c)
<1> DEFINE old == RowOf(n, f)
           r == Emptied(old, clock + 1)
           msg == [kind |-> "remove", file |-> f, time |-> clock + 1, sign |-> Hashed(r)]
<1>1. /\ HasRow(n, f)
      /\ table' = [table EXCEPT ![n] = (table[n] \ {old}) \union {r}]
      /\ chan' = Sent(n, Nodes, msg)
      /\ clock' = clock + 1 /\ pool' = pool
  BY DEF RemoveStoredFile
<1>2. old \in table[n] /\ old \in Row /\ Link(old) \in c
  BY <1>1, RowIsThere, InvFacts, LinkFacts
<1> HIDE DEF old
<1>3. clock + 1 \in Nat
  BY InvFacts
<1>4. r \in Row /\ Link(r) = Link(old)
  BY <1>2, <1>3, RowTypes
<1> HIDE DEF r
<1>5. msg \in MessagesOf(c)
  BY <1>3, <1>4, Sendable
<1> HIDE DEF msg
<1>6. Keeps(table[n], (table[n] \ {old}) \union {r}, c)
  BY <1>2, <1>4, InvFacts, ChangedRow
<1>7. chan' \in [Pairs -> Seq(MessagesOf(c))]
  BY <1>1, <1>5, InvFacts, SentTyped
<1>8. Traffic(c)'
  BY <1>1, <1>7, InvFacts DEF Traffic
<1> QED BY <1>1, <1>3, <1>6, <1>8, InvFacts, OneTable

LEMMA RemoveLocalSteady ==
  ASSUME DirInv, NEW c, c = Chain, NEW n \in Nodes, NEW f \in Ids, RemoveLocalFile(n, f)
  PROVE  Steady(c)
<1>1. table' = [table EXCEPT ![n] = WithState(table[n], f, "Known")]
      /\ UNCHANGED <<chan, pool, clock>>
  BY DEF RemoveLocalFile
<1>2. Keeps(table[n], WithState(table[n], f, "Known"), c)
  BY InvFacts, StateChanged
<1>3. Traffic(c)'
  BY <1>1, InvFacts DEF Traffic
<1> QED BY <1>1, <1>2, <1>3, InvFacts, OneTable

LEMMA RequestSteady ==
  ASSUME DirInv, NEW c, c = Chain, NEW n \in Nodes, NEW f \in Ids, RequestFile(n, f)
  PROVE  Steady(c)
<1>1. chan' = Sent(n, Nodes, [kind |-> "ask", file |-> f]) /\ UNCHANGED <<table, pool, clock>>
  BY DEF RequestFile
<1>2. chan' \in [Pairs -> Seq(MessagesOf(c))]
  BY <1>1, InvFacts, Sendable, SentTyped
<1>3. Traffic(c)'
  BY <1>1, <1>2, InvFacts DEF Traffic
<1> QED BY <1>1, <1>3, InvFacts, SameTable

(* The node thread. *)
LEMMA ReceiveSteady ==
  ASSUME DirInv, NEW c, c = Chain, NEW m \in Nodes, NEW n \in Nodes, Receive(m, n)
  PROVE  Steady(c)
<1> DEFINE msg == Head(chan[<<m, n>>])
           rest == [chan EXCEPT ![<<m, n>>] = Tail(@)]
           Forwarded == [p \in Pairs |->
                           IF p[1] = n /\ p[2] \in Neighbours(n) \ {m}
                           THEN Append(rest[p], msg) ELSE rest[p]]
           M == MessagesOf(c)
<1>1. <<m, n>> \in Pairs /\ chan[<<m, n>>] # <<>> /\ clock' = clock
  BY DEF Receive
<1>2. chan \in [Pairs -> Seq(M)]
  BY InvFacts
<1> HIDE DEF M
<1>3. msg \in M /\ rest \in [Pairs -> Seq(M)]
  <2>1. chan[<<m, n>>] \in Seq(M)
    BY <1>1, <1>2
  <2>2. msg \in M /\ Tail(chan[<<m, n>>]) \in Seq(M)
    BY <1>1, <2>1
  <2> QED BY <2>2, <1>2
<1> HIDE DEF msg, rest
<1>4. Forwarded \in [Pairs -> Seq(M)]
  <2>1. \A p \in Pairs : rest[p] \in Seq(M) /\ Append(rest[p], msg) \in Seq(M)
    BY <1>3
  <2> QED BY <2>1
<1> HIDE DEF Forwarded
<1>5. \/ /\ msg.kind = "row"
         /\ table' = [table EXCEPT ![n] = StoredFromNetwork(n, msg.row)]
         /\ chan' = Forwarded /\ pool' = pool
      \/ /\ msg.kind = "remove"
         /\ \/ /\ RemovalVerifies(n, msg)
               /\ table' = [table EXCEPT ![n] =
                    (table[n] \ {RowOf(n, msg.file)})
                       \union {Emptied(RowOf(n, msg.file), msg.time)}]
            \/ table' = table
         /\ chan' = Forwarded /\ pool' = pool
      \/ /\ pool' = [pool EXCEPT ![n] = @ \union {[from |-> m, msg |-> msg]}]
         /\ chan' = rest /\ table' = table
  BY DEF Receive, msg, rest, Forwarded
<1>6. /\ msg.kind = "row" => msg.row \in Row /\ Link(msg.row) \in c
      /\ msg.kind = "remove" => msg.time \in Nat
  BY <1>3, Received DEF M
<1>7. chan' \in [Pairs -> Seq(M)]
  BY <1>3, <1>4, <1>5
<1>8. pool' \in [Nodes -> SUBSET [from : Nodes, msg : M]]
  <2>1. pool \in [Nodes -> SUBSET [from : Nodes, msg : M]]
    BY InvFacts DEF M
  <2>2. [from |-> m, msg |-> msg] \in [from : Nodes, msg : M]
    BY <1>3
  <2>3. pool[n] \union {[from |-> m, msg |-> msg]} \in SUBSET [from : Nodes, msg : M]
    BY <2>1, <2>2
  <2> QED BY <1>5, <2>1, <2>3
<1>9. Traffic(c)'
  BY <1>7, <1>8 DEF Traffic, M
<1>10. CASE /\ msg.kind = "row"
            /\ table' = [table EXCEPT ![n] = StoredFromNetwork(n, msg.row)]
  <2> DEFINE s == [msg.row EXCEPT !.state = IF msg.row.file \in Folders THEN "Ready" ELSE "Known"]
  <2>1. s \in Row /\ Link(s) \in c
    BY <1>6, <1>10, RowTypes
  <2>2. StoredFromNetwork(n, msg.row) \in {table[n], Replaced(table[n], s)}
    BY DEF StoredFromNetwork
  <2> HIDE DEF s
  <2>3. table[n] \in SUBSET Row /\ LinksOf(table[n]) \subseteq c /\ Linear(c)
    BY InvFacts
  <2>4. Keeps(table[n], table[n], c) /\ Keeps(table[n], Replaced(table[n], s), c)
    BY <2>1, <2>3, SameKeeps, ReplacedKeeps
  <2>5. Keeps(table[n], StoredFromNetwork(n, msg.row), c)
    BY <2>2, <2>4
  <2> QED BY <1>1, <1>9, <1>10, <2>5, InvFacts, OneTable
<1>11. CASE /\ msg.kind = "remove" /\ RemovalVerifies(n, msg)
            /\ table' = [table EXCEPT ![n] =
                    (table[n] \ {RowOf(n, msg.file)})
                       \union {Emptied(RowOf(n, msg.file), msg.time)}]
  <2> DEFINE old == RowOf(n, msg.file)
             new == Emptied(old, msg.time)
  <2>1. old \in table[n] /\ old \in Row
    BY <1>11, RowIsThere, InvFacts DEF RemovalVerifies
  <2> HIDE DEF old
  <2>2. new \in Row /\ Link(new) = Link(old)
    BY <2>1, <1>6, <1>11, RowTypes
  <2> HIDE DEF new
  <2>3. Keeps(table[n], (table[n] \ {old}) \union {new}, c)
    BY <2>1, <2>2, InvFacts, ChangedRow
  <2>4. table' = [table EXCEPT ![n] = (table[n] \ {old}) \union {new}]
    BY <1>11 DEF old, new
  <2> QED BY <1>1, <1>9, <2>3, <2>4, InvFacts, OneTable
<1>12. CASE table' = table
  BY <1>1, <1>9, <1>12, InvFacts, SameTable
<1> QED BY <1>5, <1>10, <1>11, <1>12

(* The pool. *)
LEMMA RunJobSteady ==
  ASSUME DirInv, NEW c, c = Chain, NEW n \in Nodes, NEW job \in pool[n], RunJob(n, job)
  PROVE  Steady(c)
<1> DEFINE M == MessagesOf(c)
<1>1. job.from \in Nodes /\ job.msg \in M
  BY InvFacts
<1>2. pool' \in [Nodes -> SUBSET [from : Nodes, msg : M]] /\ clock' = clock
  BY InvFacts DEF RunJob
<1>3. ASSUME chan' \in [Pairs -> Seq(M)] PROVE Traffic(c)'
  BY <1>2, <1>3 DEF Traffic
<1>4. CASE AnswerState(n, job)
  <2> DEFINE b == HasRow(n, job.msg.file) /\ RowOf(n, job.msg.file).state = "Ready"
  <2>1. chan' = Sent(n, {job.from},
                    [kind |-> "state", file |-> job.msg.file, notify |-> FALSE, ready |-> b])
        /\ table' = table /\ job.msg.kind = "ask"
    BY <1>4 DEF AnswerState
  <2>2. job.msg.file \in Ids
    BY <2>1, <1>1 DEF MessagesOf, Message
  <2>3. b \in BOOLEAN
    OBVIOUS
  <2> HIDE DEF b
  <2>4. [kind |-> "state", file |-> job.msg.file, notify |-> FALSE, ready |-> b] \in M
    BY <2>2, <2>3, Sendable
  <2>5. chan' \in [Pairs -> Seq(M)]
    BY <2>1, <2>4, InvFacts, SentTyped
  <2> QED BY <2>1, <2>5, <1>2, <1>3, InvFacts, SameTable
<1>5. CASE ResponseState(n, job)
  <2>1. UNCHANGED <<table, chan>>
    BY <1>5 DEF ResponseState
  <2> QED BY <2>1, <1>2, <1>3, InvFacts, SameTable
<1>6. CASE RequestAll(n, job)
  <2> DEFINE rows == IF n \in Clients THEN {r \in table[n] : r.by = n} ELSE table[n]
  <2>1. chan' = Sent(n, {job.from}, [kind |-> "rows", rows |-> rows]) /\ table' = table
    BY <1>6 DEF RequestAll
  <2>2. rows \subseteq table[n]
    OBVIOUS
  <2> HIDE DEF rows
  <2>3. rows \in SUBSET Row /\ LinksOf(rows) \subseteq c
    BY <2>2, InvFacts, LinkFacts
  <2>4. chan' \in [Pairs -> Seq(M)]
    BY <2>1, <2>3, InvFacts, Sendable, SentTyped
  <2> QED BY <2>1, <2>4, <1>2, <1>3, InvFacts, SameTable
<1>7. CASE ResponseDirRows(n, job)
  <2> DEFINE rows == job.msg.rows
             gone == {r.file : r \in {s \in rows : s.state = "Removed"}}
             kept == {IF r.file \in gone THEN [r EXCEPT !.state = "Removed"] ELSE r :
                        r \in table[n]}
  <2>1. /\ table' = [table EXCEPT ![n] = kept \union {Arriving(r) : r \in Inserted(kept, rows)}]
        /\ chan' = chan /\ job.msg.kind = "rows"
    BY <1>7 DEF ResponseDirRows
  <2>2. rows \in SUBSET Row /\ LinksOf(rows) \subseteq c
    BY <2>1, <1>1, Received
  <2> HIDE DEF rows, gone
  <2>3. Keeps(table[n], kept \union {Arriving(r) : r \in Inserted(kept, rows)}, c)
    BY <2>2, InvFacts, InsertedKeeps
  <2> HIDE DEF kept
  <2> QED BY <2>1, <2>3, <1>2, <1>3, InvFacts, OneTable
<1> QED BY <1>4, <1>5, <1>6, <1>7 DEF RunJob

(* Downloads and links. *)
LEMMA FinishSteady ==
  ASSUME DirInv, NEW c, c = Chain, NEW n \in Nodes, NEW q \in queue[n],
         FinishDownload(n, q)
  PROVE  Steady(c)
<1>1. /\ table' = [table EXCEPT ![n] = WithState(table[n], q.file, "Ready")]
      /\ UNCHANGED <<pool, clock>>
      /\ \/ HasRow(n, q.file) /\ chan' = Sent(n, Nodes, ExistMsg(q.file, TRUE))
         \/ chan' = chan
  BY DEF FinishDownload
<1>2. Keeps(table[n], WithState(table[n], q.file, "Ready"), c)
  BY InvFacts, StateChanged
<1>3. HasRow(n, q.file) => q.file \in Ids
  <2> SUFFICES ASSUME HasRow(n, q.file) PROVE q.file \in Ids
    OBVIOUS
  <2>1. PICK r \in table[n] : r.file = q.file
    BY DEF HasRow
  <2>2. r \in Row
    BY InvFacts
  <2> QED BY <2>1, <2>2, RowTypes
<1>4. chan' \in [Pairs -> Seq(MessagesOf(c))]
  <2> DEFINE M == MessagesOf(c)
  <2>1. chan \in [Pairs -> Seq(M)]
    BY InvFacts
  <2>2. HasRow(n, q.file) => ExistMsg(q.file, TRUE) \in M
    BY <1>3, Sendable DEF ExistMsg
  <2> HIDE DEF M
  <2>3. HasRow(n, q.file) => Sent(n, Nodes, ExistMsg(q.file, TRUE)) \in [Pairs -> Seq(M)]
    BY <2>1, <2>2, SentTyped
  <2>4. chan' \in [Pairs -> Seq(M)]
    BY <1>1, <2>1, <2>3
  <2> QED BY <2>4 DEF M
<1>5. Traffic(c)'
  BY <1>1, <1>4, InvFacts DEF Traffic
<1> QED BY <1>1, <1>2, <1>5, InvFacts, OneTable

LEMMA AskedInOrder ==
  ASSUME OneAuthor, NEW c, NEW n
  PROVE  SyncMessages(n) \in Seq(MessagesOf(c))
<1> DEFINE M == MessagesOf(c)
           fs == SetToSeq(AskedFiles(n))
           requests == [i \in DOMAIN fs |-> [kind |-> "ask", file |-> fs[i]]]
<1>1. AskedFiles(n) \subseteq Files
  BY DEF AskedFiles
<1>2. IsFiniteSet(AskedFiles(n)) /\ Cardinality(AskedFiles(n)) \in Nat
  BY <1>1, AuthorFact, FS_Subset, FS_CardinalityType
<1>3. \E f \in [1 .. Cardinality(AskedFiles(n)) -> AskedFiles(n)] : IsInjective(f)
  <2>1. PICK f : f \in Bijection(1 .. Cardinality(AskedFiles(n)), AskedFiles(n))
    BY <1>2, FS_CardinalityType DEF ExistsBijection
  <2> QED BY <2>1 DEF Bijection, Injection
<1>4. fs \in [1 .. Cardinality(AskedFiles(n)) -> AskedFiles(n)]
  BY <1>3 DEF SetToSeq
<1> HIDE DEF fs
<1>5. requests \in Seq(M)
  <2>1. \A i \in 1 .. Cardinality(AskedFiles(n)) : [kind |-> "ask", file |-> fs[i]] \in M
    BY <1>1, <1>4, Sendable DEF Ids
  <2>2. requests \in [1 .. Cardinality(AskedFiles(n)) -> M]
    BY <1>4, <2>1
  <2> QED BY <1>2, <2>2
<1>6. <<[kind |-> "sync"]>> \in Seq(M)
  <2>1. [kind |-> "sync"] \in M
    BY Sendable
  <2> QED BY <2>1
<1>7. <<>> \in Seq(M)
  OBVIOUS
<1>8. SyncMessages(n) = (IF n \in checked THEN <<>> ELSE requests) \o <<[kind |-> "sync"]>>
  BY DEF SyncMessages, fs
<1> HIDE DEF M, requests
<1>9. (IF n \in checked THEN <<>> ELSE requests) \in Seq(M)
  BY <1>5, <1>7
<1>10. SyncMessages(n) \in Seq(M)
  BY <1>6, <1>8, <1>9
<1> QED BY <1>10 DEF M

(* What is lost and what a handshake sends. *)
LEMMA LinkSteady ==
  ASSUME OneAuthor, DirInv, NEW c, c = Chain,
         \/ \E l \in Links : LinkDown(l) \/ LinkUp(l)
         \/ \E n \in Nodes : Restart(n)
  PROVE  Steady(c)
<1> DEFINE M == MessagesOf(c)
<1>1. chan \in [Pairs -> Seq(M)] /\ <<>> \in Seq(M)
  BY InvFacts
<1>2. \A n : SyncMessages(n) \in Seq(M)
  BY AskedInOrder
<1> HIDE DEF M
<1>3. chan' \in [Pairs -> Seq(M)] /\ UNCHANGED <<table, clock>>
  <2>1. UNCHANGED <<table, clock>>
    BY DEF LinkDown, LinkUp, Restart
  <2>2. CASE \E l \in Links : LinkDown(l)
    <3>1. PICK l \in Links :
            chan' = [p \in Pairs |-> IF {p[1], p[2]} = l THEN <<>> ELSE chan[p]]
      BY <2>2 DEF LinkDown
    <3> QED BY <1>1, <2>1, <3>1
  <2>3. CASE \E l \in Links : LinkUp(l)
    <3>1. PICK l \in Links :
            chan' = [p \in Pairs |->
                       IF {p[1], p[2]} = l THEN SyncMessages(p[1]) ELSE chan[p]]
      BY <2>3 DEF LinkUp
    <3> QED BY <1>1, <1>2, <2>1, <3>1
  <2>4. CASE \E n \in Nodes : Restart(n)
    <3>1. PICK n \in Nodes :
            chan' = [p \in Pairs |-> IF n \in {p[1], p[2]} THEN <<>> ELSE chan[p]]
      BY <2>4 DEF Restart
    <3> QED BY <1>1, <2>1, <3>1
  <2> QED BY <2>2, <2>3, <2>4
<1>4. pool \in [Nodes -> SUBSET [from : Nodes, msg : M]]
  BY InvFacts DEF M
<1>5. pool' \in [Nodes -> SUBSET [from : Nodes, msg : M]]
  BY <1>4 DEF LinkDown, LinkUp, Restart
<1>6. Traffic(c)'
  BY <1>3, <1>5 DEF Traffic, M
<1> QED BY <1>3, <1>6, InvFacts, SameTable

LEMMA StepKeeps ==
  ASSUME OneAuthor, DirInv, [Next]_vars
  PROVE  DirInv' /\ \A n \in Nodes : LinksOf(table[n]) \subseteq LinksOf(table'[n])
<1>1. PICK c : c = Chain
  OBVIOUS
<1>2. ASSUME Steady(c)
      PROVE  DirInv' /\ \A n \in Nodes : LinksOf(table[n]) \subseteq LinksOf(table'[n])
  BY <1>1, <1>2, SteadyKeeps
<1>3. CASE UserStep
  <2>1. PICK n \in Nodes, f \in Ids :
          \/ \E d \in Targets :
               StoreFile(n, f, d) \/ StoreFolder(n, f, d) \/ MoveToFolder(n, f, d)
          \/ RemoveStoredFile(n, f) \/ RemoveLocalFile(n, f) \/ RequestFile(n, f)
    BY <1>3 DEF UserStep
  <2>2. CASE \E d \in Targets : StoreFile(n, f, d)
    BY <2>2, StoreFileKeeps
  <2>3. CASE \E d \in Targets : StoreFolder(n, f, d)
    BY <2>3, StoreFolderKeeps
  <2>4. CASE \E d \in Targets : MoveToFolder(n, f, d)
    BY <1>1, <1>2, <2>4, MoveSteady
  <2>5. CASE RemoveStoredFile(n, f) \/ RemoveLocalFile(n, f) \/ RequestFile(n, f)
    BY <1>1, <1>2, <2>5, RemoveStoredSteady, RemoveLocalSteady, RequestSteady
  <2> QED BY <2>1, <2>2, <2>3, <2>4, <2>5
<1>4. CASE \E m, n \in Nodes : Receive(m, n)
  BY <1>1, <1>2, <1>4, ReceiveSteady
<1>5. CASE \E n \in Nodes : \E job \in pool[n] : RunJob(n, job)
  BY <1>1, <1>2, <1>5, RunJobSteady
<1>6. CASE \E n \in Nodes : \E q \in queue[n] : FinishDownload(n, q)
  BY <1>1, <1>2, <1>6, FinishSteady
<1>7. CASE UNCHANGED <<table, chan, pool, clock>>
  <2>1. Traffic(c)'
    BY <1>1, <1>7, InvFacts DEF Traffic
  <2> QED BY <1>1, <1>2, <1>7, <2>1, InvFacts, SameTable
<1>8. CASE \E n \in Nodes : \E q \in queue[n] : DropDownload(n, q)
  BY <1>7, <1>8 DEF DropDownload
<1>9. CASE \/ \E l \in Links : LinkDown(l) \/ LinkUp(l)
           \/ \E n \in Nodes : Restart(n)
  BY <1>1, <1>2, <1>9, LinkSteady
<1>10. CASE UNCHANGED vars
  BY <1>7, <1>10 DEF vars
<1> QED BY <1>3, <1>4, <1>5, <1>6, <1>8, <1>9, <1>10 DEF Next

LEMMA InitOrdered ==
  ASSUME OneAuthor, Init
  PROVE  DirInv
<1>1. Author \in Nodes /\ Writers \subseteq Nodes /\ First \in Ids
  BY AuthorFact
<1>2. PICK w \in Writers :
        table = [n \in Nodes |->
            {[file |-> First, prev |-> None, folder |-> None, by |-> w, created |-> 0,
              modified |-> 0, state |-> "Ready", emptied |-> FALSE]}]
  BY DEF Init
<1> DEFINE r == [file |-> First, prev |-> None, folder |-> None, by |-> w, created |-> 0,
              modified |-> 0, state |-> "Ready", emptied |-> FALSE]
<1>3. r \in Row /\ Link(r) = <<First, None>>
  BY <1>1 DEF Row, Link
<1>4. \A n \in Nodes : table[n] = {r}
  BY <1>2
<1> HIDE DEF r
<1>5. table \in [Nodes -> SUBSET Row]
  BY <1>2, <1>3 DEF r
<1>6. \A n \in Nodes : LinksOf(table[n]) = {<<First, None>>} /\ OneRowEach(table[n])
  BY <1>3, <1>4 DEF LinksOf, OneRowEach
<1>7. Linear({<<First, None>>})
  <2>1. First # None
    BY AuthorFact
  <2> QED BY <2>1 DEF Linear
<1>8. chan = [p \in Pairs |-> <<>>] /\ pool = [n \in Nodes |-> {}] /\ clock = 0
  BY DEF Init
<1>9. Traffic({<<First, None>>})
  BY <1>8 DEF Traffic
<1> QED BY <1>1, <1>5, <1>6, <1>7, <1>8, <1>9 DEF DirInv, Chain

(* With one author the files of a directory are in one order that every node
   has a part of: no file is in two places, and no two files follow the same. *)
THEOREM OrderInvariance == OneAuthor => (Spec => []DirInv)
<1> SUFFICES ASSUME OneAuthor PROVE Spec => []DirInv
  OBVIOUS
<1>1. Init => DirInv
  BY InitOrdered
<1>2. DirInv /\ [Next]_vars => DirInv'
  BY StepKeeps
<1> QED BY <1>1, <1>2, PTL DEF Spec

(* Then a row for a file is never lost: what arrives late, twice or in another
   order replaces rows of the same file alone (insert_or_replace with the UNIQUE
   column prev_file_id). *)
THEOREM NoRowLost == OneAuthor => (Spec => RowsKept)
<1> SUFFICES ASSUME OneAuthor PROVE Spec => RowsKept
  OBVIOUS
<1> DEFINE Stays == \A n \in Nodes, f \in Ids : HasRow(n, f) => HasRow(n, f)'
<1>1. DirInv /\ [Next]_vars => [Stays]_vars
  <2> SUFFICES ASSUME DirInv, [Next]_vars, NEW n \in Nodes, NEW f \in Ids, HasRow(n, f)
               PROVE  HasRow(n, f)'
    OBVIOUS
  <2>1. LinksOf(table[n]) \subseteq LinksOf(table'[n])
    BY StepKeeps
  <2>2. PICK x \in LinksOf(table'[n]) : x[1] = f
    BY <2>1, LinkFacts
  <2>3. PICK r \in table'[n] : x = Link(r)
    BY <2>2, LinkFacts
  <2>4. r.file = f
    BY <2>2, <2>3, LinkFacts
  <2> QED BY <2>3, <2>4 DEF HasRow
<1>2. Spec => []DirInv
  BY OrderInvariance
<1> QED BY <1>1, <1>2, PTL DEF Spec, RowsKept

------------------------------------------------------------------------------
(* Contents.                                                               *)

(* What is on its way. *)
On(c, p) == {c[p][i] : i \in DOMAIN c[p]}

(* The rows of a vector, a write and its message. *)
Content == [Keys -> C!Row \union {None}]
W(k, r) == [key |-> k, row |-> r]
Add(w) == [kind |-> "Add", key |-> w.key, row |-> w.row]

VMsg == [kind : {"Request"}] \union [kind : {"Package"}, rows : Content]
    \union [kind : {"Add"}, key : Keys, row : C!Row]

(* A fetch and a write on their way at once are noted. *)
Lap == overlap \in BOOLEAN /\ (C!Fetching /\ C!Writing => overlap)

(* The numbers of the writes in a queue rise. *)
Rise(s) == \A i, j \in DOMAIN s :
    i < j /\ s[i].kind = "Add" /\ s[j].kind = "Add" => s[i].row.v < s[j].row.v

(* Every row is one that was written. *)
Genuine(rows) == \A k \in Keys : rows[k] # None => W(k, rows[k]) \in writes

(* A write that n has yet to hear of. *)
Coming(u, n) == u.row.by # n /\ Add(u) \in On(wires, <<u.row.by, n>>)

(* The inductive invariant of a vector. *)
VecTyped ==
    /\ ready \subseteq has /\ has \subseteq Nodes
    /\ vec \in [Nodes -> Content]
    /\ wires \in [C!Pairs -> Seq(VMsg)]
    /\ packages \in [Nodes -> Seq(Content)]
    /\ now \in Nat /\ count \in Nat
    /\ writes \subseteq [key : Keys, row : C!Row]

(* Rows are rows that were written, and who asks asks a holder. *)
VecRows ==
    /\ \A n \in Nodes : Genuine(vec[n])
    /\ \A p \in C!Pairs : \A x \in On(wires, p) :
         /\ x.kind = "Package" => Genuine(x.rows)
         /\ x.kind = "Add" => W(x.key, x.row) \in writes /\ x.row.by = p[1]
         /\ x.kind = "Request" => p[2] \in ready
    /\ \A n \in Nodes : \A x \in On(packages, n) : Genuine(x)
    /\ (\E n \in Nodes : packages[n] # <<>>) => C!Pairs # {}

(* Numbers tell the writes apart, and time follows them. *)
VecWrites == \A u \in writes :
    /\ u.row.v <= count /\ u.row.t <= now
    /\ \A w \in writes : /\ u.row.v = w.row.v => u = w
                         /\ u.row.v < w.row.v => u.row.t <= w.row.t

(* A node hears of an actor's writes in their order. *)
VecOrder == \A p \in C!Pairs :
    /\ Rise(wires[p])
    /\ \A x \in On(wires, p), u \in writes :
         x.kind = "Add" /\ u.row.by = p[1] /\ ~Coming(u, p[2]) => u.row.v < x.row.v

(* None of the exceptions of VectorsAgree. *)
VecGuard == ~overlap /\ ~C!Tie /\ ~C!ContestedRemoval

(* No write is later than these rows. *)
Latest(rows) == \A u \in writes : rows[u.key] # None /\ u.row.v <= rows[u.key].v

(* A copy has the last of the writes that it has heard of. *)
VecHeard == \A u \in writes :
    /\ \A n \in has : Coming(u, n) \/ (vec[n][u.key] # None /\ u.row.v <= vec[n][u.key].v)
    /\ \A n \in Nodes : vec[n][u.key] = u.row => ~Coming(u, n)

(* Content on its way has the last of all writes. *)
VecSent ==
    /\ \A p \in C!Pairs : \A x \in On(wires, p) : x.kind = "Package" => Latest(x.rows)
    /\ \A n \in Nodes : \A x \in On(packages, n) : Latest(x)

VecInv == VecTyped /\ VecRows /\ VecWrites /\ VecOrder /\ (VecGuard => VecHeard /\ VecSent)

------------------------------------------------------------------------------
(* The history and the rows of a collection. *)
History == [C!Ids -> C!Entry \union {None}]
RowTable == [C!Ids -> 0 .. MaxWrites \union {None}]
Changes == [op : {"Add", "Update", "Remove"}, by : Nodes, id : C!Ids \union {None},
            v : 0 .. MaxWrites]

CMsg == [kind : {"Request"}] \union [kind : {"History"}, rows : History]
    \union [kind : {"Rows"}, rows : RowTable]
    \union [kind : {"Change"}, id : C!Ids, entry : Changes]

(* The inductive invariant of a collection. *)
ColTyped ==
    /\ ready \subseteq has /\ has \subseteq Nodes /\ Owner \in ready
    /\ hist \in [Nodes -> History]
    /\ tables \in [Nodes -> RowTable]
    /\ erased \in [Nodes -> C!Ids \union {None}]
    /\ wires \in [C!Pairs -> Seq(CMsg)]
    /\ answers \in [Nodes -> Nat] /\ crossed \in BOOLEAN
    /\ count \in 0 .. MaxWrites
    /\ \A n \in Nodes : packages[n] = <<>>

(* A history is followed by its rows. *)
Paired(s) == \A i \in DOMAIN s :
    s[i].kind = "History" => i + 1 \in DOMAIN s /\ s[i + 1].kind = "Rows"

(* A node that has the history alone has its rows coming. *)
RowsComing(n) == \E p \in C!Pairs : p[2] = n /\ \E x \in On(wires, p) : x.kind = "Rows"

ColAsked ==
    /\ \A n \in has : hist[n][0] # None /\ (n = Owner \/ answers[n] >= 1)
    /\ \A n \in Nodes \ has : \A i \in C!Ids : hist[n][i] = None /\ tables[n][i] = None
    /\ \A p \in C!Pairs :
         /\ Paired(wires[p])
         /\ \A x \in On(wires, p) : /\ x.kind = "Request" => p[2] \in ready /\ p[1] # Owner
                                    /\ x.kind \in {"History", "Rows"} => p[2] # Owner
                                    /\ x.kind = "History" => x.rows[0] # None
    /\ \A n \in has \ ready : RowsComing(n)

(* None of the exceptions of CollectionsAgree. *)
ColGuard == ~overlap /\ ~crossed /\ C!OnlyAdds /\ \A n \in Nodes : answers[n] <= 1

(* The rows that a history stands for. *)
TableOf(h) == [i \in C!Ids |-> IF h[i] # None /\ h[i].op = "Add" THEN h[i].v ELSE None]

(* The message for a history row, and one on its way to n. *)
Change(i, e) == [kind |-> "Change", id |-> i, entry |-> e]
Announced(n, i, e) == \E p \in C!Pairs : p[2] = n /\ Change(i, e) \in On(wires, p)

(* What one copy has the others have or will hear of. *)
ColHeard ==
    /\ \A m, n \in has, i \in C!Ids, e \in C!Entry : hist[m][i] = e =>
         hist[n][i] = e \/ (hist[n][i] = None /\ Announced(n, i, e))
    /\ \A n \in ready : tables[n] = TableOf(hist[n])
    /\ \A n \in has \ ready : \A i \in C!Ids : tables[n][i] = None

(* What is on its way is of the history of a holder. *)
ColSent == \A p \in C!Pairs : \A x \in On(wires, p) :
    /\ x.kind = "Change" => x.entry.op = "Add" /\ \E m \in has : hist[m][x.id] = x.entry
    /\ x.kind = "History" => x.rows = hist[Owner]
    /\ x.kind = "Rows" => x.rows = TableOf(hist[Owner])

ColInv == ColTyped /\ ColAsked /\ (ColGuard => ColHeard /\ ColSent)

ContentInv ==
    /\ type \in {"Vector", "Collection"} /\ Lap
    /\ type = "Vector" => VecInv
    /\ type = "Collection" => ColInv

------------------------------------------------------------------------------
(* Queues.                                                                   *)

LEMMA QueueFacts ==
  ASSUME NEW S, NEW s \in Seq(S)
  PROVE  /\ \A i \in DOMAIN s : s[i] \in S
         /\ Len(s) \in Nat /\ DOMAIN s = 1 .. Len(s)
         /\ s # <<>> => /\ Head(s) = s[1] /\ 1 \in DOMAIN s /\ Head(s) \in S
                        /\ Tail(s) \in Seq(S) /\ Len(Tail(s)) = Len(s) - 1
                        /\ \A i \in DOMAIN Tail(s) : i + 1 \in DOMAIN s /\ Tail(s)[i] = s[i + 1]
         /\ \A x \in S : /\ Append(s, x) \in Seq(S) /\ Len(Append(s, x)) = Len(s) + 1
                         /\ Append(s, x)[Len(s) + 1] = x
                         /\ \A i \in DOMAIN s : Append(s, x)[i] = s[i]
<1>1. Len(s) \in Nat /\ DOMAIN s = 1 .. Len(s) /\ \A i \in DOMAIN s : s[i] \in S
  OBVIOUS
<1>2. ASSUME s # <<>>
      PROVE  /\ Head(s) = s[1] /\ 1 \in DOMAIN s /\ Head(s) \in S
             /\ Tail(s) \in Seq(S) /\ Len(Tail(s)) = Len(s) - 1
             /\ \A i \in DOMAIN Tail(s) : i + 1 \in DOMAIN s /\ Tail(s)[i] = s[i + 1]
  <2>1. /\ Head(s) = s[1] /\ 1 \in DOMAIN s /\ Tail(s) \in Seq(S) /\ Len(Tail(s)) = Len(s) - 1
    BY <1>2
  <2>2. DOMAIN Tail(s) = 1 .. Len(s) - 1
    BY <1>1, <2>1
  <2>3. \A i \in 1 .. Len(s) - 1 : i + 1 \in DOMAIN s /\ Tail(s)[i] = s[i + 1]
    BY <1>1, <1>2
  <2> QED BY <1>1, <2>1, <2>2, <2>3
<1>3. \A x \in S : /\ Append(s, x) \in Seq(S) /\ Len(Append(s, x)) = Len(s) + 1
                   /\ Append(s, x)[Len(s) + 1] = x
                   /\ \A i \in DOMAIN s : Append(s, x)[i] = s[i]
  OBVIOUS
<1> QED BY <1>1, <1>2, <1>3

Items(s) == {s[i] : i \in DOMAIN s}

LEMMA RangeTail ==
  ASSUME NEW S, NEW s \in Seq(S), s # <<>>
  PROVE  Items(s) = Items(Tail(s)) \union {Head(s)}
<1>1. \A i \in DOMAIN s : i = 1 \/ (i - 1 \in DOMAIN Tail(s) /\ Tail(s)[i - 1] = s[i])
  <2> SUFFICES ASSUME NEW i \in DOMAIN s, i # 1
               PROVE  i - 1 \in DOMAIN Tail(s) /\ Tail(s)[i - 1] = s[i]
    OBVIOUS
  <2>1. i \in 2 .. Len(s) /\ Len(s) \in Nat
    BY QueueFacts
  <2>2. DOMAIN Tail(s) = 1 .. Len(s) - 1
    BY QueueFacts
  <2>3. i - 1 \in DOMAIN Tail(s) /\ (i - 1) + 1 = i
    BY <2>1, <2>2
  <2> QED BY <2>3, QueueFacts
<1>2. \A x \in Items(s) : x \in Items(Tail(s)) \union {Head(s)}
  BY <1>1, QueueFacts DEF Items
<1>3. \A x \in Items(Tail(s)) \union {Head(s)} : x \in Items(s)
  BY QueueFacts DEF Items
<1> QED BY <1>2, <1>3

LEMMA RangeAppend ==
  ASSUME NEW S, NEW s \in Seq(S), NEW x \in S
  PROVE  Items(Append(s, x)) = Items(s) \union {x}
<1>1. DOMAIN s = 1 .. Len(s) /\ DOMAIN Append(s, x) = 1 .. Len(s) + 1 /\ Len(s) \in Nat
  BY QueueFacts
<1>2. \A i \in DOMAIN Append(s, x) : i \in DOMAIN s \/ i = Len(s) + 1
  BY <1>1
<1>3. \A y \in Items(Append(s, x)) : y \in Items(s) \union {x}
  BY <1>2, QueueFacts DEF Items
<1>4. \A y \in Items(s) \union {x} : y \in Items(Append(s, x))
  BY <1>1, QueueFacts DEF Items
<1> QED BY <1>3, <1>4

LEMMA AppendOne ==
  ASSUME NEW S, NEW s \in Seq(S), NEW x \in S
  PROVE  s \o <<x>> = Append(s, x)
OBVIOUS

(* What is on its way when the first message of p is taken, when x is sent on
   p, and when n tells everyone x. *)
Popped(M, c, d, p) ==
    /\ Head(c[p]) \in On(c, p) /\ Head(c[p]) \in M
    /\ d \in [C!Pairs -> Seq(M)]
    /\ \A q \in C!Pairs : On(d, q) \subseteq On(c, q)
    /\ \A q \in C!Pairs : \A x \in On(c, q) : x \in On(d, q) \/ (q = p /\ x = Head(c[p]))
    /\ d[p] = Tail(c[p]) /\ \A q \in C!Pairs : q # p => d[q] = c[q]

Posted(M, c, d, p, x) ==
    /\ d \in [C!Pairs -> Seq(M)]
    /\ \A q \in C!Pairs : On(d, q) = IF q = p THEN On(c, q) \union {x} ELSE On(c, q)
    /\ d[p] = Append(c[p], x) /\ \A q \in C!Pairs : q # p => d[q] = c[q]

Spread(M, c, d, n, x) ==
    /\ d \in [C!Pairs -> Seq(M)]
    /\ \A q \in C!Pairs : d[q] = IF q[1] = n THEN Append(c[q], x) ELSE c[q]
    /\ \A q \in C!Pairs : On(d, q) = IF q[1] = n THEN On(c, q) \union {x} ELSE On(c, q)

LEMMA Took ==
  ASSUME NEW M, NEW c \in [C!Pairs -> Seq(M)], NEW p \in C!Pairs, c[p] # <<>>,
         NEW d, d = [c EXCEPT ![p] = Tail(@)]
  PROVE  Popped(M, c, d, p)
<1>1. c[p] \in Seq(M)
  OBVIOUS
<1>2. Tail(c[p]) \in Seq(M) /\ Head(c[p]) \in M
  BY <1>1, QueueFacts
<1>3. d \in [C!Pairs -> Seq(M)] /\ \A q \in C!Pairs : d[q] = IF q = p THEN Tail(c[p]) ELSE c[q]
  BY <1>2
<1>4. Items(c[p]) = Items(Tail(c[p])) \union {Head(c[p])}
  BY <1>1, RangeTail
<1>5. \A q : On(c, q) = Items(c[q]) /\ On(d, q) = Items(d[q])
  BY DEF On, Items
<1>6. /\ Head(c[p]) \in On(c, p)
      /\ \A q \in C!Pairs : On(d, q) \subseteq On(c, q)
  BY <1>3, <1>4, <1>5
<1>7. ASSUME NEW q \in C!Pairs, NEW x \in On(c, q)
      PROVE  x \in On(d, q) \/ (q = p /\ x = Head(c[p]))
  <2>1. CASE q = p
    <3>1. x \in Items(c[p])
      BY <2>1, <1>5
    <3>2. On(d, q) = Items(Tail(c[p]))
      BY <2>1, <1>3, <1>5
    <3> QED BY <2>1, <3>1, <3>2, <1>4
  <2>2. CASE q # p
    BY <2>2, <1>3, <1>5
  <2> QED BY <2>1, <2>2
<1> QED BY <1>2, <1>3, <1>6, <1>7 DEF Popped

LEMMA SentOne ==
  ASSUME NEW M, NEW c \in [C!Pairs -> Seq(M)], NEW p \in C!Pairs, NEW x \in M,
         NEW d, d = [c EXCEPT ![p] = Append(@, x)]
  PROVE  Posted(M, c, d, p, x)
<1>1. c[p] \in Seq(M)
  OBVIOUS
<1>2. Append(c[p], x) \in Seq(M) /\ Items(Append(c[p], x)) = Items(c[p]) \union {x}
  BY <1>1, RangeAppend, QueueFacts
<1>3. d \in [C!Pairs -> Seq(M)] /\ \A q \in C!Pairs : d[q] = IF q = p THEN Append(c[p], x) ELSE c[q]
  BY <1>2
<1>4. \A q : On(c, q) = Items(c[q]) /\ On(d, q) = Items(d[q])
  BY DEF On, Items
<1>5. \A q \in C!Pairs : On(d, q) = IF q = p THEN On(c, q) \union {x} ELSE On(c, q)
  BY <1>2, <1>3, <1>4
<1> QED BY <1>3, <1>5 DEF Posted

LEMMA ToldOne ==
  ASSUME NEW M, NEW c \in [C!Pairs -> Seq(M)], NEW n, NEW x \in M, NEW d, d = C!Told(c, n, <<x>>)
  PROVE  Spread(M, c, d, n, x)
<1>1. \A q \in C!Pairs : /\ c[q] \in Seq(M) /\ Append(c[q], x) \in Seq(M)
                         /\ c[q] \o <<x>> = Append(c[q], x)
                         /\ Items(Append(c[q], x)) = Items(c[q]) \union {x}
  BY AppendOne, RangeAppend, QueueFacts
<1>2. d = [q \in C!Pairs |-> IF q[1] = n THEN Append(c[q], x) ELSE c[q]]
  BY <1>1 DEF C!Told
<1>3. d \in [C!Pairs -> Seq(M)]
      /\ \A q \in C!Pairs : d[q] = IF q[1] = n THEN Append(c[q], x) ELSE c[q]
  BY <1>1, <1>2
<1>4. \A q : On(c, q) = Items(c[q]) /\ On(d, q) = Items(d[q])
  BY DEF On, Items
<1>5. ASSUME NEW q \in C!Pairs
      PROVE  On(d, q) = IF q[1] = n THEN On(c, q) \union {x} ELSE On(c, q)
  <2>1. On(c, q) = Items(c[q]) /\ On(d, q) = Items(d[q])
    BY <1>4
  <2>2. CASE q[1] = n
    <3>1. d[q] = Append(c[q], x)
      BY <1>3, <2>2
    <3> QED BY <1>1, <2>1, <2>2, <3>1
  <2>3. CASE q[1] # n
    BY <1>3, <2>1, <2>3
  <2> QED BY <2>2, <2>3
<1> QED BY <1>3, <1>5 DEF Spread

LEMMA RiseTail ==
  ASSUME NEW S, NEW s \in Seq(S), s # <<>>, Rise(s)
  PROVE  /\ Rise(Tail(s))
         /\ Head(s).kind = "Add" =>
              \A x \in Items(Tail(s)) : x.kind = "Add" => Head(s).row.v < x.row.v
<1>1. \A i \in DOMAIN Tail(s) : i \in Nat /\ i >= 1 /\ i + 1 \in DOMAIN s /\ Tail(s)[i] = s[i + 1]
  BY QueueFacts
<1>2. Head(s) = s[1] /\ 1 \in DOMAIN s
  BY QueueFacts
<1>3. Rise(Tail(s))
  <2> SUFFICES ASSUME NEW i \in DOMAIN Tail(s), NEW j \in DOMAIN Tail(s), i < j,
                      Tail(s)[i].kind = "Add", Tail(s)[j].kind = "Add"
               PROVE  Tail(s)[i].row.v < Tail(s)[j].row.v
    BY DEF Rise
  <2>1. i + 1 < j + 1
    BY <1>1
  <2> QED BY <1>1, <2>1 DEF Rise
<1>4. ASSUME NEW i \in DOMAIN Tail(s), Head(s).kind = "Add", Tail(s)[i].kind = "Add"
      PROVE  Head(s).row.v < Tail(s)[i].row.v
  <2>1. 1 < i + 1
    BY <1>1
  <2> QED BY <1>1, <1>2, <1>4, <2>1 DEF Rise
<1> QED BY <1>3, <1>4 DEF Items

LEMMA RiseAppend ==
  ASSUME NEW S, NEW s \in Seq(S), NEW x \in S, Rise(s),
         \A y \in Items(s) : x.kind = "Add" /\ y.kind = "Add" => y.row.v < x.row.v
  PROVE  Rise(Append(s, x))
<1>1. /\ Len(s) \in Nat /\ DOMAIN s = 1 .. Len(s) /\ Append(s, x)[Len(s) + 1] = x
      /\ DOMAIN Append(s, x) = 1 .. Len(s) + 1
      /\ \A i \in DOMAIN s : Append(s, x)[i] = s[i]
  BY QueueFacts
<1> SUFFICES ASSUME NEW i \in DOMAIN Append(s, x), NEW j \in DOMAIN Append(s, x), i < j,
                    Append(s, x)[i].kind = "Add", Append(s, x)[j].kind = "Add"
             PROVE  Append(s, x)[i].row.v < Append(s, x)[j].row.v
  BY DEF Rise
<1>2. i \in DOMAIN s /\ (j \in DOMAIN s \/ j = Len(s) + 1)
  BY <1>1
<1>3. CASE j \in DOMAIN s
  BY <1>1, <1>2, <1>3 DEF Rise
<1>4. CASE j = Len(s) + 1
  BY <1>1, <1>2, <1>4 DEF Items
<1> QED BY <1>2, <1>3, <1>4

------------------------------------------------------------------------------
(* Vectors.                                                                  *)

LEMMA Noting == ASSUME C!Noted, overlap \in BOOLEAN
                PROVE  Lap' /\ (overlap => overlap')
BY DEF C!Noted, Lap

LEMMA Flying ==
  /\ C!Writing <=> \E p \in C!Pairs : \E x \in On(wires, p) : x.kind \in {"Add", "Change"}
  /\ C!Fetching <=> \/ \E p \in C!Pairs : \E x \in On(wires, p) :
                         x.kind \in {"Request", "Package", "History", "Rows"}
                    \/ \E n \in Nodes : packages[n] # <<>>
BY DEF C!Writing, C!Fetching, C!InFlight, On

LEMMA FlyingNext ==
  /\ C!Writing' <=> \E p \in C!Pairs : \E x \in On(wires', p) : x.kind \in {"Add", "Change"}
  /\ C!Fetching' <=> \/ \E p \in C!Pairs : \E x \in On(wires', p) :
                          x.kind \in {"Request", "Package", "History", "Rows"}
                     \/ \E n \in Nodes : packages'[n] # <<>>
BY DEF C!Writing, C!Fetching, C!InFlight, On

LEMMA Rows ==
  ASSUME NEW r \in C!Row
  PROVE  r.by \in Nodes /\ r.t \in Nat /\ r.live \in BOOLEAN /\ r.v \in Nat
BY DEF C!Row

LEMMA NoneNotRow == ASSUME C!ContentAssumption PROVE None \notin C!Row
BY DEF C!ContentAssumption

LEMMA Messages ==
  ASSUME NEW x \in VMsg
  PROVE  /\ x.kind \in {"Request", "Package", "Add"}
         /\ x.kind = "Package" => x.rows \in Content
         /\ x.kind = "Add" => /\ x.key \in Keys /\ x.row \in C!Row
                              /\ x = Add(W(x.key, x.row))
<1>1. CASE x \in [kind : {"Request"}]
  BY <1>1
<1>2. CASE x \in [kind : {"Package"}, rows : Content]
  BY <1>2
<1>3. CASE x \in [kind : {"Add"}, key : Keys, row : C!Row]
  BY <1>3 DEF Add, W
<1> QED BY <1>1, <1>2, <1>3 DEF VMsg

LEMMA Writes ==
  ASSUME VecTyped, NEW u \in writes
  PROVE  /\ u.key \in Keys /\ u.row \in C!Row /\ u = W(u.key, u.row)
         /\ Add(u) \in VMsg /\ Add(u).kind = "Add" /\ Add(u).key = u.key /\ Add(u).row = u.row
<1>1. u \in [key : Keys, row : C!Row]
  BY DEF VecTyped
<1>2. u.key \in Keys /\ u.row \in C!Row /\ u = W(u.key, u.row)
  BY <1>1 DEF W
<1>3. Add(u) \in [kind : {"Add"}, key : Keys, row : C!Row]
  BY <1>2 DEF Add
<1> QED BY <1>2, <1>3 DEF Add, VMsg

(* What is never undone. *)
LEMMA GuardBefore ==
  ASSUME Lap, C!Noted, writes \subseteq writes', VecGuard'
  PROVE  VecGuard /\ ~overlap'
<1>1. ~overlap /\ ~overlap'
  BY Noting DEF VecGuard, Lap
<1>2. ~C!Tie
  BY DEF VecGuard, C!Tie
<1>3. ~C!ContestedRemoval
  BY DEF VecGuard, C!ContestedRemoval
<1> QED BY <1>1, <1>2, <1>3 DEF VecGuard

(* A step that leaves the writes alone, and the announcements of them on their
   way. *)
Calm ==
  /\ writes' = writes /\ count' = count /\ now' = now
  /\ \A p \in C!Pairs : /\ Rise(wires'[p])
                        /\ \A x \in VMsg : x.kind = "Add" =>
                             (x \in On(wires', p) <=> x \in On(wires, p))

LEMMA CalmComing ==
  ASSUME VecTyped, Calm
  PROVE  \A u \in writes, n \in Nodes : Coming(u, n)' <=> Coming(u, n)
<1> TAKE u \in writes, n \in Nodes
<1>1. u.row.by \in Nodes
  BY Writes, Rows
<1>2. CASE u.row.by = n
  BY <1>2 DEF Coming
<1>3. CASE u.row.by # n
  <2>1. <<u.row.by, n>> \in C!Pairs
    BY <1>1, <1>3 DEF C!Pairs
  <2>2. Add(u) \in On(wires', <<u.row.by, n>>) <=> Add(u) \in On(wires, <<u.row.by, n>>)
    BY <2>1, Writes DEF Calm
  <2> QED BY <2>2 DEF Coming
<1> QED BY <1>2, <1>3

LEMMA CalmOrder ==
  ASSUME VecTyped, VecTyped', VecWrites, VecOrder, Calm
  PROVE  VecWrites' /\ VecOrder'
<1>1. VecWrites'
  BY DEF VecWrites, Calm
<1>2. ASSUME NEW p \in C!Pairs, NEW x \in On(wires', p), NEW u \in writes,
             x.kind = "Add", u.row.by = p[1], ~Coming(u, p[2])'
      PROVE  u.row.v < x.row.v
  <2>1. x \in VMsg
    BY DEF On, VecTyped
  <2>2. x \in On(wires, p)
    BY <1>2, <2>1 DEF Calm
  <2>3. ~Coming(u, p[2])
    BY <1>2, CalmComing DEF C!Pairs
  <2> QED BY <1>2, <2>2, <2>3 DEF VecOrder
<1> QED BY <1>1, <1>2 DEF VecOrder, Calm

LEMMA CalmHeard ==
  ASSUME VecTyped, VecHeard, Calm, has' = has, vec' = vec
  PROVE  VecHeard'
<1> SUFFICES ASSUME NEW u \in writes
             PROVE  /\ \A n \in has : Coming(u, n)' \/ (vec[n][u.key] # None
                                                        /\ u.row.v <= vec[n][u.key].v)
                    /\ \A n \in Nodes : vec[n][u.key] = u.row => ~Coming(u, n)'
  BY DEF VecHeard, Calm
<1>1. \A n \in Nodes : Coming(u, n)' <=> Coming(u, n)
  BY CalmComing
<1> QED BY <1>1 DEF VecHeard, VecTyped

(* With content on its way no write is, and the copies have them all. *)
LEMMA Fetched ==
  ASSUME VecInv, Lap, VecGuard, C!Fetching
  PROVE  /\ \A u \in writes, n \in Nodes : ~Coming(u, n)
         /\ \A n \in has : Latest(vec[n])
<1>1. ~C!Writing
  BY DEF Lap, VecGuard
<1>2. ASSUME NEW u \in writes, NEW n \in Nodes, Coming(u, n)
      PROVE  FALSE
  <2>1. u.row.by \in Nodes /\ Add(u).kind = "Add"
    BY Writes, Rows DEF VecInv
  <2>2. <<u.row.by, n>> \in C!Pairs /\ Add(u) \in On(wires, <<u.row.by, n>>)
    BY <1>2, <2>1 DEF Coming, C!Pairs
  <2> QED BY <1>1, <2>1, <2>2, Flying
<1>3. has \subseteq Nodes /\ VecHeard
  BY DEF VecInv, VecTyped
<1>4. \A n \in has : Latest(vec[n])
  BY <1>2, <1>3 DEF VecHeard, Latest
<1> QED BY <1>2, <1>4

LEMMA VecAsk ==
  ASSUME VecInv, Lap, NEW p \in C!Pairs, C!Ask(p[1], p[2])
  PROVE  VecInv'
<1> DEFINE r == [kind |-> "Request"]
<1>1. r \in VMsg /\ p = <<p[1], p[2]>>
  BY DEF VMsg, C!Pairs
<1>2. /\ p[2] \in ready
      /\ wires' = [wires EXCEPT ![p] = Append(@, r)]
      /\ UNCHANGED <<ready, has, vec, packages, now, count, writes>> /\ C!Noted
  BY <1>1 DEF C!Ask
<1>3. wires \in [C!Pairs -> Seq(VMsg)]
  BY DEF VecInv, VecTyped
<1> HIDE DEF r
<1>a. Posted(VMsg, wires, wires', p, r)
  BY <1>1, <1>2, <1>3, SentOne
<1>4. /\ wires' \in [C!Pairs -> Seq(VMsg)]
      /\ \A q \in C!Pairs : On(wires', q) = IF q = p THEN On(wires, q) \union {r} ELSE On(wires, q)
      /\ wires'[p] = Append(wires[p], r) /\ \A q \in C!Pairs : q # p => wires'[q] = wires[q]
  BY <1>a DEF Posted
<1>5. r.kind = "Request"
  BY DEF r
<1>6. VecTyped'
  BY <1>2, <1>4 DEF VecInv, VecTyped
<1>7. Calm
  <2>1. Rise(wires'[p])
    <3>1. wires[p] \in Seq(VMsg) /\ Rise(wires[p])
      BY <1>3 DEF VecInv, VecOrder
    <3> QED BY <3>1, <1>1, <1>4, <1>5, RiseAppend
  <2>2. \A q \in C!Pairs : Rise(wires'[q])
    BY <2>1, <1>4 DEF VecInv, VecOrder
  <2> QED BY <2>2, <1>2, <1>4, <1>5 DEF Calm
<1>8. VecRows'
  <2>1. /\ \A n \in Nodes : Genuine(vec[n])'
        /\ \A n \in Nodes : \A x \in On(packages', n) : Genuine(x)'
        /\ (\E n \in Nodes : packages'[n] # <<>>) => C!Pairs # {}
    BY <1>2 DEF VecInv, VecRows, Genuine, On
  <2>2. ASSUME NEW q \in C!Pairs, NEW x \in On(wires', q)
        PROVE  /\ x.kind = "Package" => Genuine(x.rows)'
               /\ x.kind = "Add" => W(x.key, x.row) \in writes' /\ x.row.by = q[1]
               /\ x.kind = "Request" => q[2] \in ready'
    <3>1. x \in On(wires, q) \/ (x = r /\ q = p)
      BY <1>4
    <3> QED BY <3>1, <1>2, <1>5 DEF VecInv, VecRows, Genuine
  <2> QED BY <2>1, <2>2 DEF VecRows
<1>9. ASSUME VecGuard' PROVE VecHeard' /\ VecSent'
  <2>1. VecHeard /\ VecSent
    BY <1>2, <1>9, GuardBefore DEF VecInv
  <2>2. VecHeard'
    BY <1>2, <1>7, <2>1, CalmHeard DEF VecInv
  <2>3. ASSUME NEW q \in C!Pairs, NEW x \in On(wires', q), x.kind = "Package"
        PROVE  Latest(x.rows)'
    <3>1. x \in On(wires, q)
      BY <2>3, <1>4, <1>5
    <3> QED BY <3>1, <2>1, <2>3, <1>2 DEF VecSent, Latest
  <2>4. \A n \in Nodes : \A x \in On(packages', n) : Latest(x)'
    BY <2>1, <1>2 DEF VecSent, Latest, On
  <2> QED BY <2>2, <2>3, <2>4 DEF VecSent
<1> QED BY <1>6, <1>7, <1>8, <1>9, CalmOrder DEF VecInv

LEMMA VecHandleRequest ==
  ASSUME type = "Vector", VecInv, Lap, NEW p \in C!Pairs, C!HandleRequest(p[1], p[2])
  PROVE  VecInv'
<1> DEFINE q == <<p[2], p[1]>>
           r == [kind |-> "Package", rows |-> vec[p[2]]]
           c == [wires EXCEPT ![p] = Tail(@)]
<1>1. q \in C!Pairs /\ p = <<p[1], p[2]>> /\ p[2] \in Nodes
  BY DEF C!Pairs
<1>2. wires \in [C!Pairs -> Seq(VMsg)] /\ ready \subseteq has /\ vec \in [Nodes -> Content]
  BY DEF VecInv, VecTyped
<1>3. r \in VMsg /\ r.kind = "Package" /\ r.rows = vec[p[2]]
  BY <1>1, <1>2 DEF VMsg
<1>4. /\ wires[p] # <<>> /\ Head(wires[p]).kind = "Request"
      /\ UNCHANGED <<ready, has, vec, packages, now, count, writes>> /\ C!Noted
      /\ wires' = [c EXCEPT ![q] = @ \o <<r>>]
  BY <1>1 DEF C!HandleRequest, C!VectorContent
<1>a. Popped(VMsg, wires, c, p)
  BY <1>2, <1>4, Took
<1> HIDE DEF c, r
<1>5. c \in [C!Pairs -> Seq(VMsg)] /\ c[q] \in Seq(VMsg)
  BY <1>1, <1>a DEF Popped
<1>6. c[q] \o <<r>> = Append(c[q], r)
  BY <1>3, <1>5, AppendOne
<1>7. wires' = [c EXCEPT ![q] = Append(@, r)]
  BY <1>4, <1>6
<1>b. Posted(VMsg, c, wires', q, r)
  BY <1>1, <1>3, <1>5, <1>7, SentOne
<1> HIDE DEF q
<1>8. wires' \in [C!Pairs -> Seq(VMsg)]
  BY <1>b DEF Posted
<1>9. \A s \in C!Pairs : \A x \in On(wires', s) : x \in On(wires, s) \/ (s = q /\ x = r)
  BY <1>1, <1>a, <1>b DEF Popped, Posted
<1>10. VecTyped'
  BY <1>4, <1>8 DEF VecInv, VecTyped
<1>11. Calm
  <2>1. \A s \in C!Pairs : Rise(c[s])
    <3>1. wires[p] \in Seq(VMsg) /\ Rise(wires[p])
      BY <1>2 DEF VecInv, VecOrder
    <3>2. Rise(Tail(wires[p]))
      BY <3>1, <1>4, RiseTail
    <3> QED BY <3>2, <1>a DEF Popped, VecInv, VecOrder
  <2>2. Rise(Append(c[q], r))
    BY <2>1, <1>1, <1>3, <1>5, RiseAppend
  <2>3. \A s \in C!Pairs : Rise(wires'[s])
    BY <2>1, <2>2, <1>b DEF Posted
  <2>4. ASSUME NEW s \in C!Pairs, NEW x \in VMsg, x.kind = "Add"
        PROVE  x \in On(wires', s) <=> x \in On(wires, s)
    <3>1. x \in On(c, s) <=> x \in On(wires, s)
      BY <2>4, <1>4, <1>a DEF Popped
    <3>2. x # r
      BY <2>4, <1>3
    <3> QED BY <3>1, <3>2, <1>b DEF Posted
  <2> QED BY <2>3, <2>4, <1>4 DEF Calm
<1>12. p[2] \in ready
  BY <1>4, <1>a DEF Popped, VecInv, VecRows
<1>13. VecRows'
  <2>1. /\ \A n \in Nodes : Genuine(vec[n])'
        /\ \A n \in Nodes : \A x \in On(packages', n) : Genuine(x)'
        /\ (\E n \in Nodes : packages'[n] # <<>>) => C!Pairs # {}
    BY <1>4 DEF VecInv, VecRows, Genuine, On
  <2>2. ASSUME NEW s \in C!Pairs, NEW x \in On(wires', s)
        PROVE  /\ x.kind = "Package" => Genuine(x.rows)'
               /\ x.kind = "Add" => W(x.key, x.row) \in writes' /\ x.row.by = s[1]
               /\ x.kind = "Request" => s[2] \in ready'
    <3>1. CASE x \in On(wires, s)
      BY <3>1, <1>4 DEF VecInv, VecRows, Genuine
    <3>2. CASE x = r
      BY <3>2, <1>1, <1>3, <1>4 DEF VecInv, VecRows, Genuine
    <3> QED BY <3>1, <3>2, <1>9
  <2> QED BY <2>1, <2>2 DEF VecRows
<1>14. ASSUME VecGuard' PROVE VecHeard' /\ VecSent'
  <2>1. VecGuard /\ VecHeard /\ VecSent
    BY <1>4, <1>14, GuardBefore DEF VecInv
  <2>2. VecHeard'
    BY <1>4, <1>11, <2>1, CalmHeard DEF VecInv
  <2>3. C!Fetching
    BY <1>4, <1>a, Flying DEF Popped
  <2>4. Latest(r.rows)
    BY <2>1, <2>3, <1>2, <1>3, <1>12, Fetched
  <2>5. ASSUME NEW s \in C!Pairs, NEW x \in On(wires', s), x.kind = "Package"
        PROVE  Latest(x.rows)'
    <3>1. x \in On(wires, s) \/ x = r
      BY <1>9
    <3>2. Latest(x.rows)
      BY <3>1, <2>1, <2>4, <2>5 DEF VecSent
    <3> QED BY <3>2, <1>4 DEF Latest
  <2>6. \A n \in Nodes : \A x \in On(packages', n) : Latest(x)'
    BY <2>1, <1>4 DEF VecSent, Latest, On
  <2> QED BY <2>2, <2>5, <2>6 DEF VecSent
<1> QED BY <1>10, <1>11, <1>13, <1>14, CalmOrder DEF VecInv

(* A step that takes a message and sends none. *)
LEMMA Taking ==
  ASSUME VecInv, NEW p \in C!Pairs, wires[p] # <<>>, wires' = [wires EXCEPT ![p] = Tail(@)],
         Head(wires[p]).kind # "Add", writes' = writes, count' = count, now' = now
  PROVE  Calm /\ Popped(VMsg, wires, wires', p)
<1>1. wires \in [C!Pairs -> Seq(VMsg)] /\ wires[p] \in Seq(VMsg)
  BY DEF VecInv, VecTyped
<1>2. Popped(VMsg, wires, wires', p)
  BY <1>1, Took
<1>3. \A s \in C!Pairs : Rise(wires'[s])
  <2>1. Rise(Tail(wires[p]))
    BY <1>1, RiseTail DEF VecInv, VecOrder
  <2> QED BY <2>1, <1>2 DEF Popped, VecInv, VecOrder
<1>4. \A s \in C!Pairs : \A x \in VMsg :
          x.kind = "Add" => (x \in On(wires', s) <=> x \in On(wires, s))
  BY <1>2 DEF Popped
<1> QED BY <1>2, <1>3, <1>4 DEF Calm

LEMMA VecHandlePackage ==
  ASSUME VecInv, Lap, NEW p \in C!Pairs, C!HandlePackage(p[1], p[2])
  PROVE  VecInv'
<1> DEFINE n == p[2]
           rows == Head(wires[p]).rows
<1>1. p = <<p[1], p[2]>> /\ n \in Nodes
  BY DEF C!Pairs
<1>2. /\ wires[p] # <<>> /\ Head(wires[p]).kind = "Package"
      /\ wires' = [wires EXCEPT ![p] = Tail(@)]
      /\ packages' = [packages EXCEPT ![n] = Append(@, rows)]
      /\ UNCHANGED <<ready, has, vec, now, count, writes>> /\ C!Noted
  BY <1>1 DEF C!HandlePackage
<1>3. Calm /\ Popped(VMsg, wires, wires', p)
  BY <1>2, Taking
<1>4. Head(wires[p]) \in VMsg /\ Head(wires[p]) \in On(wires, p)
  BY <1>3 DEF Popped
<1>5. rows \in Content /\ Genuine(rows)
  BY <1>2, <1>4, Messages DEF VecInv, VecRows
<1>6. packages \in [Nodes -> Seq(Content)] /\ packages[n] \in Seq(Content) /\ n \in Nodes
  BY <1>1 DEF VecInv, VecTyped
<1> HIDE DEF rows, n
<1>7. /\ Append(packages[n], rows) \in Seq(Content)
      /\ Items(Append(packages[n], rows)) = Items(packages[n]) \union {rows}
  BY <1>5, <1>6, QueueFacts, RangeAppend
<1>8. /\ packages' \in [Nodes -> Seq(Content)]
      /\ \A s \in Nodes : \A x \in On(packages', s) : x \in On(packages, s) \/ x = rows
  <2>1. /\ packages'[n] = Append(packages[n], rows)
        /\ \A s \in Nodes : s # n => packages'[s] = packages[s]
    BY <1>2, <1>6
  <2>2. packages' \in [Nodes -> Seq(Content)]
    BY <1>2, <1>6, <1>7
  <2>3. \A s : On(packages, s) = Items(packages[s]) /\ On(packages', s) = Items(packages'[s])
    BY DEF On, Items
  <2>4. ASSUME NEW s \in Nodes, NEW x \in On(packages', s) PROVE x \in On(packages, s) \/ x = rows
    <3>1. CASE s = n
      BY <3>1, <2>1, <2>3, <2>4, <1>7
    <3>2. CASE s # n
      BY <3>2, <2>1, <2>3, <2>4
    <3> QED BY <3>1, <3>2
  <2> QED BY <2>2, <2>4
<1>9. VecTyped'
  BY <1>2, <1>3, <1>8 DEF VecInv, VecTyped, Popped
<1>10. \A s \in C!Pairs : \A x \in On(wires', s) : x \in On(wires, s)
  BY <1>3 DEF Popped
<1>11. VecRows'
  <2>1. /\ \A s \in Nodes : Genuine(vec[s])'
        /\ \A s \in Nodes : \A x \in On(packages', s) : Genuine(x)'
        /\ C!Pairs # {}
    BY <1>2, <1>5, <1>8 DEF VecInv, VecRows, Genuine
  <2>2. ASSUME NEW s \in C!Pairs, NEW x \in On(wires', s)
        PROVE  /\ x.kind = "Package" => Genuine(x.rows)'
               /\ x.kind = "Add" => W(x.key, x.row) \in writes' /\ x.row.by = s[1]
               /\ x.kind = "Request" => s[2] \in ready'
    BY <1>2, <1>10 DEF VecInv, VecRows, Genuine
  <2> QED BY <2>1, <2>2 DEF VecRows
<1>12. ASSUME VecGuard' PROVE VecHeard' /\ VecSent'
  <2>1. VecGuard /\ VecHeard /\ VecSent
    BY <1>2, <1>12, GuardBefore DEF VecInv
  <2>2. VecHeard'
    BY <1>2, <1>3, <2>1, CalmHeard DEF VecInv
  <2>3. Latest(rows)
    BY <1>2, <1>4, <2>1 DEF VecSent, rows
  <2>4. \A s \in C!Pairs : \A x \in On(wires', s) : x.kind = "Package" => Latest(x.rows)'
    BY <2>1, <1>2, <1>10 DEF VecSent, Latest
  <2>5. \A s \in Nodes : \A x \in On(packages', s) : Latest(x)'
    BY <2>1, <2>3, <1>2, <1>8 DEF VecSent, Latest
  <2> QED BY <2>2, <2>4, <2>5 DEF VecSent
<1> QED BY <1>3, <1>9, <1>11, <1>12, CalmOrder DEF VecInv

LEMMA VecRunPackage ==
  ASSUME C!ContentAssumption, VecInv, Lap, NEW n \in Nodes, C!RunPackage(n)
  PROVE  VecInv'
<1> DEFINE rows == Head(packages[n])
           new == [k \in Keys |-> IF rows[k] = None THEN vec[n][k] ELSE rows[k]]
<1>1. /\ packages[n] # <<>> /\ packages' = [packages EXCEPT ![n] = Tail(@)]
      /\ has' = has \union {n} /\ ready' = ready \union {n}
      /\ vec' = [vec EXCEPT ![n] = new]
      /\ UNCHANGED <<wires, now, count, writes>> /\ C!Noted
  BY DEF C!RunPackage
<1>2. /\ packages \in [Nodes -> Seq(Content)] /\ packages[n] \in Seq(Content)
      /\ vec \in [Nodes -> Content] /\ vec[n] \in Content /\ has \subseteq Nodes
      /\ ready \subseteq has
  BY DEF VecInv, VecTyped
<1>3. /\ rows \in Content /\ Tail(packages[n]) \in Seq(Content)
      /\ Items(packages[n]) = Items(Tail(packages[n])) \union {rows}
  BY <1>1, <1>2, QueueFacts, RangeTail
<1>4. \A s : On(packages, s) = Items(packages[s]) /\ On(packages', s) = Items(packages'[s])
  BY DEF On, Items
<1>5. rows \in On(packages, n)
  BY <1>3, <1>4
<1>6. Genuine(rows)
  BY <1>5 DEF VecInv, VecRows
<1> HIDE DEF rows
<1>7. new \in Content
  BY <1>2, <1>3 DEF Content
<1>8. \A k \in Keys : new[k] = IF rows[k] = None THEN vec[n][k] ELSE rows[k]
  OBVIOUS
<1>9. Genuine(new)
  BY <1>6, <1>8 DEF Genuine, VecInv, VecRows
<1> HIDE DEF new
<1>10. /\ vec' \in [Nodes -> Content] /\ vec'[n] = new
       /\ \A s \in Nodes : s # n => vec'[s] = vec[s]
  BY <1>1, <1>2, <1>7
<1>11. /\ packages' \in [Nodes -> Seq(Content)]
       /\ \A s \in Nodes : \A x \in On(packages', s) : x \in On(packages, s)
  <2>1. packages'[n] = Tail(packages[n]) /\ \A s \in Nodes : s # n => packages'[s] = packages[s]
    BY <1>1, <1>2
  <2>2. packages' \in [Nodes -> Seq(Content)]
    BY <1>1, <1>2, <1>3
  <2>3. ASSUME NEW s \in Nodes, NEW x \in On(packages', s) PROVE x \in On(packages, s)
    <3>1. CASE s = n
      BY <3>1, <2>1, <2>3, <1>3, <1>4
    <3>2. CASE s # n
      BY <3>2, <2>1, <2>3, <1>4
    <3> QED BY <3>1, <3>2
  <2> QED BY <2>2, <2>3
<1>12. VecTyped'
  BY <1>1, <1>2, <1>10, <1>11 DEF VecInv, VecTyped
<1>13. Calm
  BY <1>1 DEF Calm, VecInv, VecOrder
<1>14. VecRows'
  <2>1. \A s \in Nodes : Genuine(vec'[s])
    BY <1>9, <1>10 DEF VecInv, VecRows
  <2>2. \A s \in Nodes : Genuine(vec[s])'
    BY <2>1, <1>1 DEF Genuine
  <2>3. /\ \A s \in Nodes : \A x \in On(packages', s) : Genuine(x)'
        /\ C!Pairs # {}
    BY <1>1, <1>11 DEF VecInv, VecRows, Genuine
  <2>4. ASSUME NEW s \in C!Pairs, NEW x \in On(wires', s)
        PROVE  /\ x.kind = "Package" => Genuine(x.rows)'
               /\ x.kind = "Add" => W(x.key, x.row) \in writes' /\ x.row.by = s[1]
               /\ x.kind = "Request" => s[2] \in ready'
    BY <1>1 DEF VecInv, VecRows, Genuine
  <2> QED BY <2>2, <2>3, <2>4 DEF VecRows
<1>15. ASSUME VecGuard' PROVE VecHeard' /\ VecSent'
  <2>1. VecGuard /\ VecHeard /\ VecSent
    BY <1>1, <1>15, GuardBefore DEF VecInv
  <2>2. Latest(rows)
    BY <2>1, <1>5 DEF VecSent
  <2>3. C!Fetching
    BY <1>1, Flying
  <2>4. \A u \in writes, s \in Nodes : ~Coming(u, s)'
    BY <2>1, <2>3, <1>12, <1>13, Fetched, CalmComing DEF VecInv
  <2>5. ASSUME NEW u \in writes
        PROVE  \A s \in has' : vec'[s][u.key] # None /\ u.row.v <= vec'[s][u.key].v
    <3>1. u.key \in Keys
      BY Writes DEF VecInv
    <3>2. vec'[n][u.key] # None /\ u.row.v <= vec'[n][u.key].v
      BY <3>1, <2>2, <1>8, <1>10 DEF Latest
    <3>3. \A s \in has : vec[s][u.key] # None /\ u.row.v <= vec[s][u.key].v
      BY <2>1, <2>3, Fetched DEF Latest
    <3> QED BY <3>2, <3>3, <1>1, <1>2, <1>10
  <2>6. VecHeard'
    BY <2>4, <2>5, <1>1 DEF VecHeard
  <2>7. \A s \in C!Pairs : \A x \in On(wires', s) : x.kind = "Package" => Latest(x.rows)'
    BY <2>1, <1>1 DEF VecSent, Latest
  <2>8. \A s \in Nodes : \A x \in On(packages', s) : Latest(x)'
    BY <2>1, <1>1, <1>11 DEF VecSent, Latest
  <2> QED BY <2>6, <2>7, <2>8 DEF VecSent
<1> QED BY <1>12, <1>13, <1>14, <1>15, CalmOrder DEF VecInv

LEMMA VecStored ==
  ASSUME C!ContentAssumption, VecInv, Lap, NEW n \in has, NEW k \in Keys,
         NEW r \in C!Row, r.by = n, r.v = count + 1, C!Stored(n, k, r)
  PROVE  VecInv'
<1>w. PICK w : w = W(k, r)
  OBVIOUS
<1>x. PICK x : x = [kind |-> "Add", key |-> k, row |-> r]
  OBVIOUS
<1>1. /\ count < MaxWrites /\ count' = count + 1
      /\ now' \in now .. MaxTime /\ r.t = now'
      /\ vec' = [vec EXCEPT ![n][k] = r]
      /\ wires' = C!Told(wires, n, <<x>>)
      /\ writes' = writes \union {w}
      /\ UNCHANGED <<ready, has, packages>> /\ C!Noted
  BY <1>w, <1>x DEF C!Stored, W
<1>2. /\ count \in Nat /\ MaxWrites \in Nat /\ now \in Nat /\ n \in Nodes
      /\ vec \in [Nodes -> Content] /\ wires \in [C!Pairs -> Seq(VMsg)]
      /\ MaxTime \in Nat /\ None \notin C!Row
  BY DEF VecInv, VecTyped, C!ContentAssumption
<1>3. r \in C!Row /\ r.by = n /\ r.v = count + 1
  OBVIOUS
<1>4. /\ w \in [key : Keys, row : C!Row] /\ w.key = k /\ w.row = r
      /\ x = Add(w) /\ x.kind = "Add" /\ x.key = k /\ x.row = r /\ x \in VMsg
      /\ W(x.key, x.row) = w
  BY <1>w, <1>x DEF W, Add, VMsg
<1>5. w \notin writes
  BY <1>2, <1>3, <1>4, Rows DEF VecInv, VecWrites
<1>6. Spread(VMsg, wires, wires', n, x)
  BY <1>1, <1>2, <1>4, ToldOne
<1>7. \A p \in C!Pairs : \A y \in On(wires', p) : y \in On(wires, p) \/ (y = x /\ p[1] = n)
  BY <1>6 DEF Spread
<1>8. /\ vec' \in [Nodes -> Content] /\ vec'[n][k] = r
      /\ \A s \in Nodes, j \in Keys : s # n \/ j # k => vec'[s][j] = vec[s][j]
  BY <1>1, <1>2, <1>3 DEF Content
<1>9. VecTyped'
  <2>1. now' \in Nat /\ count' \in Nat
    BY <1>1, <1>2
  <2>2. wires' \in [C!Pairs -> Seq(VMsg)]
    BY <1>6 DEF Spread
  <2>3. writes' \subseteq [key : Keys, row : C!Row]
    BY <1>1, <1>4 DEF VecInv, VecTyped
  <2> QED BY <2>1, <2>2, <2>3, <1>1, <1>8 DEF VecInv, VecTyped
<1>10. VecWrites'
  <2>1. \A u \in writes : /\ u.row.v <= count /\ u.row.t <= now
                          /\ u.row.v \in Nat /\ u.row.t \in Nat
    BY Writes, Rows DEF VecInv, VecWrites
  <2>2. now' \in Nat /\ now <= now' /\ w.row.v = count' /\ w.row.t = now'
    BY <1>1, <1>2, <1>3, <1>4
  <2> QED BY <2>1, <2>2, <1>1, <1>2 DEF VecInv, VecWrites
<1>11. VecRows'
  <2>1. \A rows : Genuine(rows) => Genuine(rows)'
    BY <1>1 DEF Genuine
  <2>2. \A s \in Nodes : Genuine(vec[s])'
    BY <2>1, <1>1, <1>4, <1>8 DEF VecInv, VecRows, Genuine
  <2>3. /\ \A s \in Nodes : \A y \in On(packages', s) : Genuine(y)'
        /\ (\E s \in Nodes : packages'[s] # <<>>) => C!Pairs # {}
    BY <2>1, <1>1 DEF VecInv, VecRows, On
  <2>4. ASSUME NEW p \in C!Pairs, NEW y \in On(wires', p)
        PROVE  /\ y.kind = "Package" => Genuine(y.rows)'
               /\ y.kind = "Add" => W(y.key, y.row) \in writes' /\ y.row.by = p[1]
               /\ y.kind = "Request" => p[2] \in ready'
    <3>1. CASE y \in On(wires, p)
      BY <3>1, <2>1, <1>1 DEF VecInv, VecRows
    <3>2. CASE y = x /\ p[1] = n
      BY <3>2, <1>1, <1>3, <1>4
    <3> QED BY <3>1, <3>2, <1>7
  <2> QED BY <2>2, <2>3, <2>4 DEF VecRows
<1>12. ASSUME NEW u \in writes, NEW s \in Nodes
       PROVE  Coming(u, s)' <=> Coming(u, s)
  <2>1. u.row.by \in Nodes /\ Add(u) # x
    <3>1. Add(u) # Add(w)
      <4>1. u.row.v <= count /\ u.row.v \in Nat /\ Add(u).row = u.row /\ Add(w).row = r
        BY <1>4, Writes, Rows DEF VecInv, VecWrites
      <4> QED BY <4>1, <1>2, <1>3
    <3> QED BY <3>1, <1>4, Writes, Rows DEF VecInv
  <2>2. CASE u.row.by = s
    BY <2>2 DEF Coming
  <2>3. CASE u.row.by # s
    <3>1. <<u.row.by, s>> \in C!Pairs
      BY <2>1, <2>3 DEF C!Pairs
    <3> QED BY <3>1, <2>1, <1>6 DEF Coming, Spread
  <2> QED BY <2>2, <2>3
<1>13. \A s \in Nodes : s # n => Coming(w, s)'
  <2> TAKE s \in Nodes
  <2>1. ASSUME s # n PROVE <<n, s>> \in C!Pairs /\ <<n, s>>[1] = n
    BY <2>1, <1>2 DEF C!Pairs
  <2>2. ASSUME s # n PROVE x \in On(wires', <<n, s>>)
    BY <2>1, <2>2, <1>6 DEF Spread
  <2> QED BY <2>2, <1>3, <1>4 DEF Coming
<1>14. VecOrder'
  <2>1. ASSUME NEW p \in C!Pairs PROVE Rise(wires'[p])
    <3>1. wires[p] \in Seq(VMsg) /\ Rise(wires[p])
      BY <1>2 DEF VecInv, VecOrder
    <3>2. CASE p[1] = n
      <4>1. ASSUME NEW y \in Items(wires[p]), y.kind = "Add" PROVE y.row.v < x.row.v
        <5>1. y \in On(wires, p)
          BY <4>1 DEF Items, On
        <5>2. W(y.key, y.row) \in writes
          BY <5>1, <4>1 DEF VecInv, VecRows
        <5>3. W(y.key, y.row).row = y.row
          BY DEF W
        <5>4. y.row.v <= count /\ y.row.v \in Nat
          BY <5>2, <5>3, Writes, Rows DEF VecInv, VecWrites
        <5> QED BY <5>4, <1>2, <1>3, <1>4
      <4>2. Rise(Append(wires[p], x))
        BY <3>1, <4>1, <1>4, RiseAppend
      <4> QED BY <4>2, <3>2, <1>6 DEF Spread
    <3>3. CASE p[1] # n
      BY <3>1, <3>3, <1>6 DEF Spread
    <3> QED BY <3>2, <3>3
  <2>2. ASSUME NEW p \in C!Pairs, NEW y \in On(wires', p), NEW u \in writes',
               y.kind = "Add", u.row.by = p[1], ~Coming(u, p[2])'
        PROVE  u.row.v < y.row.v
    <3>1. p[1] \in Nodes /\ p[2] \in Nodes /\ p[1] # p[2]
      BY DEF C!Pairs
    <3>2. u \in writes
      BY <2>2, <3>1, <1>1, <1>3, <1>4, <1>13
    <3>3. CASE y \in On(wires, p)
      BY <2>2, <3>1, <3>2, <3>3, <1>12 DEF VecInv, VecOrder
    <3>4. CASE y = x
      <4>1. u.row.v <= count /\ u.row.v \in Nat
        BY <3>2, Writes, Rows DEF VecInv, VecWrites
      <4> QED BY <3>4, <4>1, <1>2, <1>3, <1>4
    <3> QED BY <3>3, <3>4, <1>7
  <2> QED BY <2>1, <2>2 DEF VecOrder
<1>15. ASSUME VecGuard' PROVE VecHeard' /\ VecSent'
  <2>1. VecGuard /\ VecHeard /\ VecSent /\ ~overlap'
    BY <1>1, <1>15, GuardBefore DEF VecInv
  <2>2. ASSUME NEW u \in writes
        PROVE  /\ \A s \in has : Coming(u, s)' \/ (vec'[s][u.key] # None
                                                  /\ u.row.v <= vec'[s][u.key].v)
               /\ \A s \in Nodes : vec'[s][u.key] = u.row => ~Coming(u, s)'
    <3>1. /\ u.key \in Keys /\ u.row \in C!Row /\ u.row.v \in Nat /\ u.row.v <= count
      BY Writes, Rows DEF VecInv, VecWrites
    <3>2. has \subseteq Nodes
      BY DEF VecInv, VecTyped
    <3>3. ASSUME NEW s \in has
          PROVE  Coming(u, s)' \/ (vec'[s][u.key] # None /\ u.row.v <= vec'[s][u.key].v)
      <4>1. CASE s = n /\ u.key = k
        BY <4>1, <3>1, <1>2, <1>3, <1>8
      <4>2. CASE s # n \/ u.key # k
        <5>1. vec'[s][u.key] = vec[s][u.key]
          BY <4>2, <3>1, <3>2, <3>3, <1>8
        <5> QED BY <5>1, <2>1, <3>2, <3>3, <1>12 DEF VecHeard
      <4> QED BY <4>1, <4>2
    <3>4. ASSUME NEW s \in Nodes, vec'[s][u.key] = u.row
          PROVE  ~Coming(u, s)'
      <4>1. s # n \/ u.key # k
        BY <3>1, <3>4, <1>2, <1>3, <1>8
      <4>2. vec[s][u.key] = u.row
        BY <4>1, <3>1, <3>4, <1>8
      <4> QED BY <4>2, <2>1, <1>12 DEF VecHeard
    <3> QED BY <3>3, <3>4
  <2>3. /\ \A s \in has : Coming(w, s)' \/ (vec'[s][k] # None /\ r.v <= vec'[s][k].v)
        /\ \A s \in Nodes : vec'[s][k] = r => ~Coming(w, s)'
    <3>1. vec'[n][k] # None /\ r.v <= vec'[n][k].v
      BY <1>2, <1>3, <1>8, Rows
    <3>2. ASSUME NEW s \in Nodes, vec'[s][k] = r PROVE s = n
      <4>1. CASE s # n
        <5>1. vec[s][k] = r
          BY <4>1, <3>2, <1>8
        <5>2. W(k, r) \in writes
          BY <5>1, <1>2, <1>3 DEF VecInv, VecRows, Genuine
        <5> QED BY <5>2, <1>5, <1>w
      <4> QED BY <4>1
    <3>3. ~Coming(w, n)'
      BY <1>3, <1>4 DEF Coming
    <3> QED BY <3>1, <3>2, <3>3, <1>13 DEF VecInv, VecTyped
  <2>4. VecHeard'
    BY <2>2, <2>3, <1>1, <1>4 DEF VecHeard
  <2>5. ~C!Fetching' \/ C!Pairs = {}
    <3> SUFFICES ASSUME C!Pairs # {} PROVE C!Writing' \/ ~C!Fetching'
      BY <2>1, <1>1 DEF C!Noted
    <3>1. PICK p \in C!Pairs : TRUE
      OBVIOUS
    <3>2. PICK s \in Nodes : s # n
      BY <3>1 DEF C!Pairs
    <3>3. <<n, s>> \in C!Pairs /\ <<n, s>>[1] = n
      BY <3>2, <1>2 DEF C!Pairs
    <3>4. x \in On(wires', <<n, s>>)
      BY <3>3, <1>6 DEF Spread
    <3> QED BY <3>3, <3>4, <1>4, FlyingNext
  <2>6. ~C!Fetching'
    <3>1. CASE C!Pairs = {}
      BY <3>1, <1>1, FlyingNext DEF VecInv, VecRows
    <3> QED BY <3>1, <2>1, <2>5, <1>1 DEF C!Noted
  <2>7. VecSent'
    <3>1. \A s \in Nodes : packages'[s] = <<>>
      BY <2>6, FlyingNext
    <3>2. \A p \in C!Pairs : \A y \in On(wires', p) : y.kind # "Package"
      BY <2>6, FlyingNext
    <3>3. \A s \in Nodes : On(packages', s) = {}
      BY <3>1 DEF On
    <3> QED BY <3>2, <3>3 DEF VecSent
  <2> QED BY <2>4, <2>7
<1> QED BY <1>9, <1>10, <1>11, <1>14, <1>15 DEF VecInv

LEMMA VecHandleAdd ==
  ASSUME C!ContentAssumption, VecInv, Lap, NEW p \in C!Pairs, C!HandleAdd(p[1], p[2])
  PROVE  VecInv'
<1>x. PICK x : x = Head(wires[p])
  OBVIOUS
<1>w. PICK w : w = W(x.key, x.row)
  OBVIOUS
<1>n. PICK n : n = p[2]
  OBVIOUS
<1>k. PICK k : k = x.key
  OBVIOUS
<1>r. PICK r : r = x.row
  OBVIOUS
<1>1. p = <<p[1], n>> /\ n \in Nodes /\ p[1] \in Nodes /\ p[1] # n
  BY <1>n DEF C!Pairs
<1>2. /\ wires[p] # <<>> /\ x.kind = "Add"
      /\ vec' = IF n \in has /\ C!Newer(vec[n][k], r) THEN [vec EXCEPT ![n][k] = r] ELSE vec
      /\ wires' = [wires EXCEPT ![p] = Tail(@)]
      /\ UNCHANGED <<ready, has, packages, now, count, writes>> /\ C!Noted
  BY <1>1, <1>x, <1>n, <1>k, <1>r DEF C!HandleAdd
<1>3. /\ vec \in [Nodes -> Content] /\ wires \in [C!Pairs -> Seq(VMsg)] /\ wires[p] \in Seq(VMsg)
      /\ has \subseteq Nodes /\ None \notin C!Row
  BY DEF VecInv, VecTyped, C!ContentAssumption
<1>4. Popped(VMsg, wires, wires', p)
  BY <1>2, <1>3, Took
<1>5. x \in VMsg /\ x \in On(wires, p)
  BY <1>x, <1>4 DEF Popped
<1>6. /\ k \in Keys /\ r \in C!Row /\ x = Add(w) /\ w = W(k, r)
      /\ w \in writes /\ r.by = p[1] /\ w.key = k /\ w.row = r /\ r.v \in Nat /\ r.t \in Nat
  <2>1. k \in Keys /\ r \in C!Row /\ x = Add(w) /\ w = W(k, r) /\ w.key = k /\ w.row = r
    BY <1>2, <1>5, <1>k, <1>r, <1>w, Messages DEF W
  <2>2. w \in writes /\ r.by = p[1]
    BY <1>2, <1>5, <1>r, <1>w DEF VecInv, VecRows
  <2> QED BY <2>1, <2>2, Rows
<1>7. /\ Rise(Tail(wires[p]))
      /\ \A y \in Items(Tail(wires[p])) : y.kind = "Add" => r.v < y.row.v
  BY <1>2, <1>3, <1>x, <1>r, RiseTail DEF VecInv, VecOrder
<1>8. \A y \in On(wires', p) : y.kind = "Add" => r.v < y.row.v
  BY <1>4, <1>7 DEF Popped, On, Items
<1>9. x \notin On(wires', p)
  <2>1. r.v \in Nat /\ ~(r.v < r.v)
    BY <1>6
  <2>2. x \in On(wires', p) => r.v < x.row.v
    BY <1>2, <1>8
  <2> QED BY <2>1, <2>2, <1>r
<1>10. \A q \in C!Pairs : \A y \in On(wires', q) : y \in On(wires, q)
  BY <1>4 DEF Popped
<1>11. ASSUME NEW u \in writes, NEW s \in Nodes
       PROVE  Coming(u, s)' <=> Coming(u, s) /\ ~(u = w /\ s = n)
  <2>1. /\ u.row.by \in Nodes /\ u = W(u.key, u.row) /\ Add(u).key = u.key /\ Add(u).row = u.row
    BY Writes, Rows DEF VecInv
  <2>2. CASE u.row.by = s
    BY <2>2 DEF Coming
  <2>3. CASE u.row.by # s
    <3>1. <<u.row.by, s>> \in C!Pairs
      BY <2>1, <2>3 DEF C!Pairs
    <3>2. Add(u) = x => u = w
      BY <2>1, <1>k, <1>r, <1>6
    <3>3. u = w /\ s = n => <<u.row.by, s>> = p /\ Add(u) = x
      BY <1>1, <1>6
    <3>4. <<u.row.by, s>> = p => s = n
      BY <1>n
    <3>5. ~(u = w /\ s = n) /\ Add(u) \in On(wires, <<u.row.by, s>>)
              => Add(u) \in On(wires', <<u.row.by, s>>)
      BY <3>1, <3>2, <3>4, <1>4, <1>x DEF Popped
    <3>6. Add(u) \in On(wires', <<u.row.by, s>>) => Add(u) \in On(wires, <<u.row.by, s>>)
      BY <3>1, <1>10
    <3> QED BY <2>3, <3>3, <3>5, <3>6, <1>9 DEF Coming
  <2> QED BY <2>2, <2>3
<1>12. /\ vec' \in [Nodes -> Content]
       /\ \A s \in Nodes, j \in Keys : s # n \/ j # k => vec'[s][j] = vec[s][j]
       /\ vec'[n][k] = IF n \in has /\ C!Newer(vec[n][k], r) THEN r ELSE vec[n][k]
  BY <1>1, <1>2, <1>3, <1>6 DEF Content
<1>13. VecTyped'
  BY <1>2, <1>4, <1>12 DEF VecInv, VecTyped, Popped
<1>14. VecWrites'
  BY <1>2 DEF VecInv, VecWrites
<1>15. VecRows'
  <2>1. \A rows : Genuine(rows) => Genuine(rows)'
    BY <1>2 DEF Genuine
  <2>2. \A s \in Nodes : Genuine(vec[s])'
    BY <1>2, <1>6, <1>12 DEF VecInv, VecRows, Genuine
  <2>3. /\ \A s \in Nodes : \A y \in On(packages', s) : Genuine(y)'
        /\ (\E s \in Nodes : packages'[s] # <<>>) => C!Pairs # {}
    BY <2>1, <1>2 DEF VecInv, VecRows, On
  <2>4. ASSUME NEW q \in C!Pairs, NEW y \in On(wires', q)
        PROVE  /\ y.kind = "Package" => Genuine(y.rows)'
               /\ y.kind = "Add" => W(y.key, y.row) \in writes' /\ y.row.by = q[1]
               /\ y.kind = "Request" => q[2] \in ready'
    BY <2>1, <1>2, <1>10 DEF VecInv, VecRows
  <2> QED BY <2>2, <2>3, <2>4 DEF VecRows
<1>16. VecOrder'
  <2>1. \A q \in C!Pairs : Rise(wires'[q])
    BY <1>4, <1>7 DEF Popped, VecInv, VecOrder
  <2>2. ASSUME NEW q \in C!Pairs, NEW y \in On(wires', q), NEW u \in writes,
               y.kind = "Add", u.row.by = q[1], ~Coming(u, q[2])'
        PROVE  u.row.v < y.row.v
    <3>1. q[2] \in Nodes /\ q = <<q[1], q[2]>>
      BY DEF C!Pairs
    <3>2. CASE Coming(u, q[2])
      <4>1. u = w /\ q[2] = n
        BY <2>2, <3>1, <3>2, <1>11
      <4>2. q = p
        BY <4>1, <2>2, <3>1, <1>1, <1>6
      <4> QED BY <4>1, <4>2, <2>2, <1>6, <1>8
    <3>3. CASE ~Coming(u, q[2])
      BY <2>2, <3>3, <1>10 DEF VecInv, VecOrder
    <3> QED BY <3>2, <3>3
  <2> QED BY <2>1, <2>2, <1>2 DEF VecOrder
<1>17. ASSUME VecGuard' PROVE VecHeard' /\ VecSent'
  <2>1. VecGuard /\ VecHeard /\ VecSent
    BY <1>2, <1>17, GuardBefore DEF VecInv
  <2>o. PICK o : o = vec[n][k]
    OBVIOUS
  <2>2. ASSUME o # None
        PROVE  /\ o \in C!Row /\ o.v \in Nat /\ o.t \in Nat
               /\ W(k, o) \in writes /\ ~Coming(W(k, o), n)
               /\ W(k, o).key = k /\ W(k, o).row = o
    <3>1. o \in C!Row /\ W(k, o) \in writes /\ W(k, o).key = k /\ W(k, o).row = o
      BY <2>2, <2>o, <1>1, <1>3, <1>6 DEF Content, VecInv, VecRows, Genuine, W
    <3> QED BY <3>1, <2>1, <2>o, <1>1, Rows DEF VecHeard
  <2>3. ASSUME o # None, C!Newer(o, r) PROVE o.v < r.v
    <3>1. CASE o.by = p[1]
      BY <3>1, <2>2, <2>3, <1>2, <1>5, <1>n, <1>r DEF VecInv, VecOrder
    <3>2. CASE o.by # p[1]
      <4>1. o.live
        BY <3>2, <2>1, <2>2, <2>3, <1>6 DEF VecGuard, C!ContestedRemoval
      <4>2. o.t <= r.t /\ o.t # r.t
        BY <4>1, <3>2, <2>1, <2>2, <2>3, <1>6 DEF C!Newer, VecGuard, C!Tie
      <4>3. /\ r.v = o.v => w = W(k, o)
            /\ r.v < o.v => r.t <= o.t
        BY <2>2, <2>3, <1>6 DEF VecInv, VecWrites
      <4> QED BY <4>2, <4>3, <2>2, <2>3, <1>6
    <3> QED BY <3>1, <3>2
  <2>4. ASSUME ~C!Newer(o, r) PROVE o # None /\ r.v <= o.v
    <3>1. o # None /\ o.live /\ ~(o.t <= r.t)
      BY <2>4 DEF C!Newer
    <3>2. /\ r.v = o.v => w = W(k, o)
          /\ o.v < r.v => o.t <= r.t
      BY <3>1, <2>2, <1>6 DEF VecInv, VecWrites
    <3> QED BY <3>1, <3>2, <2>2, <1>6
  <2>5. ASSUME NEW u \in writes, NEW s \in has
        PROVE  Coming(u, s)' \/ (vec'[s][u.key] # None /\ u.row.v <= vec'[s][u.key].v)
    <3>1. u.key \in Keys /\ u.row \in C!Row /\ u.row.v \in Nat /\ s \in Nodes
      BY <1>3, Writes, Rows DEF VecInv
    <3>2. CASE u = w /\ s = n
      <4>1. CASE C!Newer(o, r)
        BY <4>1, <3>2, <2>o, <2>5, <1>3, <1>6, <1>12
      <4>2. CASE ~C!Newer(o, r)
        BY <4>2, <3>2, <2>4, <2>o, <2>5, <1>6, <1>12
      <4> QED BY <4>1, <4>2
    <3>3. CASE ~(u = w /\ s = n)
      <4>1. Coming(u, s)' \/ (vec[s][u.key] # None /\ u.row.v <= vec[s][u.key].v)
        BY <3>1, <3>3, <2>1, <1>11 DEF VecHeard
      <4>2. CASE s = n /\ u.key = k /\ C!Newer(o, r)
        <5>1. vec'[s][u.key] = r /\ vec[s][u.key] = o
          BY <4>2, <2>5, <2>o, <1>12
        <5> QED BY <5>1, <4>1, <4>2, <3>1, <2>2, <2>3, <1>3, <1>6
      <4>3. CASE ~(s = n /\ u.key = k /\ C!Newer(o, r))
        <5>1. vec'[s][u.key] = vec[s][u.key]
          BY <4>3, <3>1, <2>o, <1>12
        <5> QED BY <4>1, <5>1
      <4> QED BY <4>2, <4>3
    <3> QED BY <3>2, <3>3
  <2>6. ASSUME NEW u \in writes, NEW s \in Nodes, vec'[s][u.key] = u.row
        PROVE  ~Coming(u, s)'
    <3>1. u.key \in Keys /\ u = W(u.key, u.row)
      BY Writes DEF VecInv
    <3>2. CASE s = n /\ u.key = k /\ vec'[n][k] = r
      <4>1. u = w
        BY <3>1, <3>2, <2>6, <1>6
      <4> QED BY <4>1, <3>2, <1>11
    <3>3. CASE ~(s = n /\ u.key = k /\ vec'[n][k] = r)
      <4>1. vec[s][u.key] = u.row
        BY <3>1, <3>3, <2>6, <1>12
      <4> QED BY <4>1, <2>1, <1>11 DEF VecHeard
    <3> QED BY <3>2, <3>3
  <2>7. VecHeard'
    BY <2>5, <2>6, <1>2 DEF VecHeard
  <2>8. \A q \in C!Pairs : \A y \in On(wires', q) : y.kind = "Package" => Latest(y.rows)'
    BY <2>1, <1>2, <1>10 DEF VecSent, Latest
  <2>9. \A s \in Nodes : \A y \in On(packages', s) : Latest(y)'
    BY <2>1, <1>2 DEF VecSent, Latest, On
  <2> QED BY <2>7, <2>8, <2>9 DEF VecSent
<1> QED BY <1>13, <1>14, <1>15, <1>16, <1>17 DEF VecInv

------------------------------------------------------------------------------
(* Collections.                                                              *)

(* Every nonempty set of numbers has a least element. *)
LEMMA LeastNumber ==
  ASSUME NEW S, S \subseteq Nat, S # {}
  PROVE  \E m \in S : \A k \in S : m <= k
<1> DEFINE R == OpToRel(<, Nat)
<1>1. IsWellFoundedOn(R, Nat)
  BY NatLessThanWellFounded
<1>2. \A x, y \in Nat : x < y => <<x, y>> \in R
  BY DEF OpToRel
<1> HIDE DEF R
<1>3. PICK m \in S : \A k \in S : ~(<<k, m>> \in R)
  BY <1>1, WFMin
<1>4. ASSUME NEW k \in S PROVE m <= k
  <2>1. k \in Nat /\ m \in Nat /\ ~(k < m)
    BY <1>2, <1>3
  <2> QED BY <2>1
<1> QED BY <1>4

LEMMA CMessages ==
  ASSUME NEW x \in CMsg
  PROVE  /\ x.kind \in {"Request", "History", "Rows", "Change"}
         /\ x.kind = "History" => x.rows \in History
         /\ x.kind = "Rows" => x.rows \in RowTable
         /\ x.kind = "Change" => x.id \in C!Ids /\ x.entry \in Changes /\ x = Change(x.id, x.entry)
<1>1. CASE x \in [kind : {"Request"}]
  BY <1>1
<1>2. CASE x \in [kind : {"History"}, rows : History]
  BY <1>2
<1>3. CASE x \in [kind : {"Rows"}, rows : RowTable]
  BY <1>3
<1>4. CASE x \in [kind : {"Change"}, id : C!Ids, entry : Changes]
  BY <1>4 DEF Change
<1> QED BY <1>1, <1>2, <1>3, <1>4 DEF CMsg

LEMMA Entries ==
  ASSUME C!ContentAssumption
  PROVE  /\ None \notin C!Entry /\ None \notin Nat /\ MaxWrites \in Nat /\ Owner \in Nodes
         /\ \A e \in Changes : e.op # "Remove" => e \in C!Entry
         /\ \A i \in C!Ids : i \in Nat /\ i # None
         /\ \A v \in 0 .. MaxWrites : v # None
         /\ \A n \in Nodes : C!Structural(n) \in C!Entry
<1>1. None \notin C!Entry /\ None \notin Nat /\ MaxWrites \in Nat /\ Owner \in Nodes
  BY DEF C!ContentAssumption
<1>2. \A e \in Changes : e.op # "Remove" => e \in C!Entry
  BY DEF Changes, C!Entry
<1>3. \A i \in C!Ids : i \in Nat /\ i # None
  BY <1>1 DEF C!Ids
<1>4. \A v \in 0 .. MaxWrites : v # None
  BY <1>1
<1>5. \A n \in Nodes : C!Structural(n) \in C!Entry
  BY <1>1 DEF C!Structural, C!Entry
<1> QED BY <1>1, <1>2, <1>3, <1>4, <1>5

(* The number of the next history row is free. *)
LEMMA NextIdFree ==
  ASSUME C!ContentAssumption, NEW h \in History
  PROVE  /\ C!NextId(h) \in C!Ids => h[C!NextId(h)] = None
         /\ (\A i \in C!Ids : h[i] = None) => C!NextId(h) = 0
<1>1. CASE \A i \in C!Ids : h[i] = None
  BY <1>1 DEF C!NextId
<1>2. CASE \E i \in C!Ids : h[i] # None
  <2> DEFINE S == {i \in C!Ids : h[i] # None}
             U == {n \in Nat : \A i \in S : i <= n}
  <2>1. S \subseteq Nat /\ S # {} /\ MaxWrites + 2 \in U
    BY <1>2, Entries DEF C!Ids
  <2>2. PICK m \in U : \A k \in U : m <= k
    BY <2>1, LeastNumber
  <2>3. m \in S
    <3> SUFFICES ASSUME m \notin S PROVE FALSE
      OBVIOUS
    <3>1. \A k \in S : k < m
      BY <2>1, <2>2
    <3>2. PICK k \in S : TRUE
      BY <2>1
    <3>3. m - 1 \in U
      BY <2>1, <3>1, <3>2
    <3> QED BY <2>2, <3>3
  <2>4. m \in C!Ids /\ h[m] # None /\ \A j \in C!Ids : j > m => h[j] = None
    BY <2>1, <2>2, <2>3
  <2>5. C!LastId(h) \in C!Ids /\ \A j \in C!Ids : j > C!LastId(h) => h[j] = None
    BY <2>4 DEF C!LastId
  <2>6. C!NextId(h) = C!LastId(h) + 1
    BY <1>2 DEF C!NextId
  <2> QED BY <1>2, <2>5, <2>6, Entries
<1> QED BY <1>1, <1>2

LEMMA PairedTail ==
  ASSUME NEW S, NEW s \in Seq(S), s # <<>>, Paired(s)
  PROVE  /\ Paired(Tail(s))
         /\ Head(s).kind = "History" => \E x \in Items(Tail(s)) : x.kind = "Rows"
<1>1. /\ Len(s) \in Nat /\ DOMAIN s = 1 .. Len(s) /\ DOMAIN Tail(s) = 1 .. Len(s) - 1
      /\ \A i \in DOMAIN Tail(s) : i + 1 \in DOMAIN s /\ Tail(s)[i] = s[i + 1]
      /\ Head(s) = s[1] /\ 1 \in DOMAIN s
  BY QueueFacts
<1>2. Paired(Tail(s))
  <2> SUFFICES ASSUME NEW i \in DOMAIN Tail(s), Tail(s)[i].kind = "History"
               PROVE  i + 1 \in DOMAIN Tail(s) /\ Tail(s)[i + 1].kind = "Rows"
    BY DEF Paired
  <2>1. (i + 1) + 1 \in DOMAIN s /\ s[(i + 1) + 1].kind = "Rows" /\ i \in Nat
    BY <1>1 DEF Paired
  <2>2. i + 1 \in DOMAIN Tail(s)
    BY <1>1, <2>1
  <2> QED BY <1>1, <2>1, <2>2
<1>3. ASSUME Head(s).kind = "History" PROVE \E x \in Items(Tail(s)) : x.kind = "Rows"
  <2>1. 1 + 1 \in DOMAIN s /\ s[1 + 1].kind = "Rows"
    BY <1>1, <1>3 DEF Paired
  <2>2. 1 \in DOMAIN Tail(s)
    BY <1>1, <2>1
  <2>3. Tail(s)[1].kind = "Rows"
    BY <1>1, <2>1, <2>2
  <2> QED BY <2>2, <2>3 DEF Items
<1> QED BY <1>2, <1>3

LEMMA PairedAppend ==
  ASSUME NEW S, NEW s \in Seq(S), NEW x \in S, Paired(s), x.kind # "History"
  PROVE  Paired(Append(s, x))
<1>1. /\ Len(s) \in Nat /\ DOMAIN s = 1 .. Len(s) /\ Append(s, x)[Len(s) + 1] = x
      /\ DOMAIN Append(s, x) = 1 .. Len(s) + 1
      /\ \A i \in DOMAIN s : Append(s, x)[i] = s[i]
  BY QueueFacts
<1> SUFFICES ASSUME NEW i \in DOMAIN Append(s, x), Append(s, x)[i].kind = "History"
             PROVE  i + 1 \in DOMAIN Append(s, x) /\ Append(s, x)[i + 1].kind = "Rows"
  BY DEF Paired
<1>2. i \in DOMAIN s
  BY <1>1
<1>3. i + 1 \in DOMAIN s /\ s[i + 1].kind = "Rows"
  BY <1>1, <1>2 DEF Paired
<1> QED BY <1>1, <1>3

LEMMA PairedBoth ==
  ASSUME NEW S, NEW s \in Seq(S), NEW x \in S, NEW y \in S, Paired(s), y.kind = "Rows"
  PROVE  Paired(Append(Append(s, x), y))
<1>1. /\ Len(s) \in Nat /\ DOMAIN s = 1 .. Len(s) /\ Append(s, x)[Len(s) + 1] = x
      /\ DOMAIN Append(s, x) = 1 .. Len(s) + 1
      /\ \A i \in DOMAIN s : Append(s, x)[i] = s[i]
      /\ Append(s, x) \in Seq(S) /\ Len(Append(s, x)) = Len(s) + 1
  BY QueueFacts
<1> DEFINE t == Append(s, x)
<1>2. t \in Seq(S) /\ Len(t) = Len(s) + 1
  BY <1>1
<1>3. /\ DOMAIN Append(t, y) = 1 .. Len(t) + 1 /\ Append(t, y)[Len(t) + 1] = y
      /\ \A i \in DOMAIN t : Append(t, y)[i] = t[i]
  BY <1>2, QueueFacts
<1> SUFFICES ASSUME NEW i \in DOMAIN Append(t, y), Append(t, y)[i].kind = "History"
             PROVE  i + 1 \in DOMAIN Append(t, y) /\ Append(t, y)[i + 1].kind = "Rows"
  BY DEF Paired
<1>4. i \in DOMAIN s \/ i = Len(s) + 1 \/ i = Len(s) + 2
  BY <1>1, <1>2, <1>3
<1>5. CASE i \in DOMAIN s
  <2>1. s[i].kind = "History"
    BY <1>1, <1>3, <1>5
  <2>2. i + 1 \in DOMAIN s /\ s[i + 1].kind = "Rows"
    BY <1>5, <2>1 DEF Paired
  <2>3. i + 1 \in DOMAIN t /\ t[i + 1] = s[i + 1]
    BY <2>2, <1>1
  <2> QED BY <2>2, <2>3, <1>1, <1>3
<1>6. CASE i = Len(s) + 1
  <2>1. i + 1 = Len(t) + 1
    BY <1>1, <1>2, <1>6
  <2> QED BY <2>1, <1>1, <1>2, <1>3, <1>6
<1>7. CASE i = Len(s) + 2
  BY <1>1, <1>2, <1>3, <1>7
<1> QED BY <1>4, <1>5, <1>6, <1>7

(* What is never undone. *)
LEMMA ColGuardBefore ==
  ASSUME Lap, C!Noted, ColTyped, crossed => crossed', C!OnlyAdds' => C!OnlyAdds,
         \A n \in Nodes : answers'[n] \in Nat /\ answers[n] <= answers'[n], ColGuard'
  PROVE  ColGuard /\ ~overlap'
<1>1. ~overlap /\ ~overlap'
  BY Noting DEF ColGuard, Lap
<1>2. \A n \in Nodes : answers[n] <= 1
  BY DEF ColGuard, ColTyped
<1> QED BY <1>1, <1>2 DEF ColGuard

(* With content on its way no change is, and the histories are the same. *)
LEMMA ColFetched ==
  ASSUME C!ContentAssumption, ColInv, Lap, ColGuard, C!Fetching
  PROVE  /\ \A p \in C!Pairs : \A x \in On(wires, p) : x.kind # "Change"
         /\ \A n \in has : hist[n] = hist[Owner]
<1>1. \A p \in C!Pairs : \A x \in On(wires, p) : x.kind # "Change"
  BY Flying DEF Lap, ColGuard
<1>2. \A n, i, e : ~Announced(n, i, e)
  BY <1>1 DEF Announced, Change
<1>3. Owner \in has /\ has \subseteq Nodes /\ hist \in [Nodes -> History] /\ ColHeard
  BY DEF ColInv, ColTyped
<1>4. ASSUME NEW n \in has PROVE hist[n] = hist[Owner]
  <2>2. hist[n] \in History /\ hist[Owner] \in History
    BY <1>3
  <2>3. \A a, b \in has, i \in C!Ids : hist[a][i] \in C!Entry => hist[b][i] = hist[a][i]
    BY <1>2, <1>3 DEF ColHeard
  <2>1. \A i \in C!Ids : hist[n][i] = hist[Owner][i]
    <3> TAKE i \in C!Ids
    <3>1. hist[n][i] \in C!Entry \union {None} /\ hist[Owner][i] \in C!Entry \union {None}
      BY <2>2 DEF History
    <3> QED BY <3>1, <2>3, <1>3
  <2> QED BY <2>1, <2>2 DEF History
<1> QED BY <1>1, <1>4

(* A step that leaves the copies alone and takes no change. *)
LEMMA ColStill ==
  ASSUME ColTyped, ColHeard, UNCHANGED <<has, ready, hist, tables>>,
         \A p \in C!Pairs : \A x \in CMsg :
             x.kind = "Change" /\ x \in On(wires, p) => x \in On(wires', p)
  PROVE  ColHeard'
<1>1. ASSUME NEW n, NEW i, NEW e, Announced(n, i, e) PROVE Announced(n, i, e)'
  <2>1. PICK p \in C!Pairs : p[2] = n /\ Change(i, e) \in On(wires, p)
    BY <1>1 DEF Announced
  <2>2. Change(i, e) \in CMsg /\ Change(i, e).kind = "Change"
    BY <2>1 DEF On, ColTyped, Change
  <2>3. Change(i, e) \in On(wires', p)
    BY <2>1, <2>2
  <2> QED BY <2>1, <2>3 DEF Announced, Change
<1>2. \A m, n \in has, i \in C!Ids, e \in C!Entry : hist[m][i] = e =>
         hist[n][i] = e \/ (hist[n][i] = None /\ Announced(n, i, e)')
  BY <1>1 DEF ColHeard
<1> QED BY <1>2 DEF ColHeard

LEMMA ColAsk ==
  ASSUME C!ContentAssumption, ColInv, Lap, NEW p \in C!Pairs, C!Ask(p[1], p[2])
  PROVE  ColInv'
<1>r. PICK r : r = [kind |-> "Request"]
  OBVIOUS
<1>1. r \in CMsg /\ r.kind = "Request" /\ p = <<p[1], p[2]>>
  BY <1>r DEF CMsg, C!Pairs
<1>2. /\ p[2] \in ready /\ p[1] # Owner
      /\ wires' = [wires EXCEPT ![p] = Append(@, r)]
      /\ UNCHANGED <<ready, has, hist, tables, erased, packages, count, crossed, answers>>
      /\ C!Noted
  BY <1>1, <1>r DEF C!Ask
<1>3. wires \in [C!Pairs -> Seq(CMsg)]
  BY DEF ColInv, ColTyped
<1>4. Posted(CMsg, wires, wires', p, r)
  BY <1>1, <1>2, <1>3, SentOne
<1>5. \A q \in C!Pairs : \A x \in On(wires', q) : x \in On(wires, q) \/ (x = r /\ q = p)
  BY <1>4 DEF Posted
<1>6. \A q \in C!Pairs : \A x \in On(wires, q) : x \in On(wires', q)
  BY <1>4 DEF Posted
<1>7. ColTyped'
  BY <1>2, <1>4 DEF ColInv, ColTyped, Posted
<1>8. ColAsked'
  <2>1. \A q \in C!Pairs : Paired(wires'[q])
    <3>1. wires[p] \in Seq(CMsg) /\ Paired(wires[p])
      BY <1>3 DEF ColInv, ColAsked
    <3>2. Paired(Append(wires[p], r))
      BY <3>1, <1>1, PairedAppend
    <3> QED BY <3>2, <1>4 DEF Posted, ColInv, ColAsked
  <2>2. ASSUME NEW q \in C!Pairs, NEW x \in On(wires', q)
        PROVE  /\ x.kind = "Request" => q[2] \in ready /\ q[1] # Owner
               /\ x.kind \in {"History", "Rows"} => q[2] # Owner
               /\ x.kind = "History" => x.rows[0] # None
    BY <1>1, <1>2, <1>5 DEF ColInv, ColAsked
  <2>3. \A n \in has \ ready : RowsComing(n)'
    BY <1>6 DEF ColInv, ColAsked, RowsComing
  <2> QED BY <2>1, <2>2, <2>3, <1>2 DEF ColInv, ColAsked
<1>9. ASSUME ColGuard' PROVE ColHeard' /\ ColSent'
  <2>1. C!OnlyAdds' => C!OnlyAdds
    BY <1>2 DEF C!OnlyAdds
  <2>2. ColGuard /\ ColHeard /\ ColSent
    BY <2>1, <1>2, <1>9, ColGuardBefore DEF ColInv, ColTyped
  <2>3. ColHeard'
    BY <2>2, <1>2, <1>6, ColStill DEF ColInv
  <2>4. ASSUME NEW q \in C!Pairs, NEW x \in On(wires', q)
        PROVE  /\ x.kind = "Change" => x.entry.op = "Add" /\ \E m \in has : hist[m][x.id] = x.entry
               /\ x.kind = "History" => x.rows = hist[Owner]
               /\ x.kind = "Rows" => x.rows = TableOf(hist[Owner])
    BY <2>2, <1>1, <1>5 DEF ColSent
  <2>5. ColSent'
    BY <2>4, <1>2 DEF ColSent, TableOf
  <2> QED BY <2>3, <2>5
<1> QED BY <1>7, <1>8, <1>9 DEF ColInv

LEMMA ColHandleRequest ==
  ASSUME C!ContentAssumption, type = "Collection", ColInv, Lap, NEW p \in C!Pairs,
         C!HandleRequest(p[1], p[2])
  PROVE  ColInv'
<1>q. PICK q : q = <<p[2], p[1]>>
  OBVIOUS
<1>h. PICK h : h = [kind |-> "History", rows |-> hist[p[2]]]
  OBVIOUS
<1>t. PICK t : t = [kind |-> "Rows", rows |-> tables[p[2]]]
  OBVIOUS
<1>c. PICK c : c = [wires EXCEPT ![p] = Tail(@)]
  OBVIOUS
<1>d. PICK d : d = [c EXCEPT ![q] = Append(@, h)]
  OBVIOUS
<1>1. q \in C!Pairs /\ p = <<p[1], p[2]>> /\ p[2] \in Nodes /\ q[1] = p[2] /\ q[2] = p[1]
  BY <1>q DEF C!Pairs
<1>2. /\ wires \in [C!Pairs -> Seq(CMsg)] /\ ready \subseteq has /\ has \subseteq Nodes
      /\ hist \in [Nodes -> History] /\ tables \in [Nodes -> RowTable]
  BY DEF ColInv, ColTyped
<1>3. /\ h \in CMsg /\ h.kind = "History" /\ h.rows = hist[p[2]]
      /\ t \in CMsg /\ t.kind = "Rows" /\ t.rows = tables[p[2]]
  BY <1>1, <1>2, <1>h, <1>t DEF CMsg
<1>4. /\ wires[p] # <<>> /\ Head(wires[p]).kind = "Request"
      /\ UNCHANGED <<ready, has, hist, tables, erased, packages, count, crossed, answers>>
      /\ C!Noted
      /\ wires' = [c EXCEPT ![q] = @ \o <<h, t>>]
  BY <1>1, <1>q, <1>h, <1>t, <1>c DEF C!HandleRequest, C!CollectionContent
<1>5. Popped(CMsg, wires, c, p)
  BY <1>2, <1>4, <1>c, Took
<1>6. c \in [C!Pairs -> Seq(CMsg)] /\ c[q] \in Seq(CMsg)
  BY <1>1, <1>5 DEF Popped
<1>7. Posted(CMsg, c, d, q, h)
  BY <1>1, <1>3, <1>6, <1>d, SentOne
<1>8. d \in [C!Pairs -> Seq(CMsg)] /\ d[q] = Append(c[q], h)
  BY <1>7 DEF Posted
<1>9. wires' = [d EXCEPT ![q] = Append(@, t)]
  <2>1. c[q] \o <<h, t>> = Append(Append(c[q], h), t)
    BY <1>3, <1>6
  <2> QED BY <2>1, <1>1, <1>4, <1>6, <1>8, <1>d
<1>10. Posted(CMsg, d, wires', q, t)
  BY <1>1, <1>3, <1>8, <1>9, SentOne
<1>11. \A s \in C!Pairs : \A x \in On(wires', s) : x \in On(wires, s) \/ (s = q /\ x \in {h, t})
  BY <1>5, <1>7, <1>10 DEF Popped, Posted
<1>12. \A s \in C!Pairs : \A x \in On(wires, s) : x \in On(wires', s) \/ x.kind = "Request"
  BY <1>4, <1>5, <1>7, <1>10 DEF Popped, Posted
<1>13. ColTyped'
  BY <1>4, <1>10 DEF ColInv, ColTyped, Posted
<1>14. p[2] \in ready /\ p[1] # Owner
  BY <1>4, <1>5 DEF Popped, ColInv, ColAsked
<1>15. ASSUME ColGuard' PROVE ColHeard' /\ ColSent'
  <2>1. C!OnlyAdds' => C!OnlyAdds
    BY <1>4 DEF C!OnlyAdds
  <2>2. ColGuard /\ ColHeard /\ ColSent
    BY <2>1, <1>4, <1>15, ColGuardBefore DEF ColInv, ColTyped
  <2>3. ColHeard'
    BY <2>2, <1>4, <1>12, ColStill DEF ColInv
  <2>4. C!Fetching
    BY <1>4, <1>5, Flying DEF Popped
  <2>5. h.rows = hist[Owner] /\ t.rows = TableOf(hist[Owner])
    BY <2>2, <2>4, <1>2, <1>3, <1>14, ColFetched DEF ColHeard
  <2>6. ASSUME NEW s \in C!Pairs, NEW x \in On(wires', s)
        PROVE  /\ x.kind = "Change" => x.entry.op = "Add" /\ \E m \in has : hist[m][x.id] = x.entry
               /\ x.kind = "History" => x.rows = hist[Owner]
               /\ x.kind = "Rows" => x.rows = TableOf(hist[Owner])
    BY <2>2, <2>5, <1>3, <1>11 DEF ColSent
  <2>7. ColSent'
    BY <2>6, <1>4 DEF ColSent, TableOf
  <2> QED BY <2>3, <2>7
<1>16. ColAsked'
  <2>1. \A s \in C!Pairs : Paired(wires'[s])
    <3>1. wires[p] \in Seq(CMsg) /\ Paired(wires[p])
      BY <1>2 DEF ColInv, ColAsked
    <3>2. Paired(Tail(wires[p]))
      BY <3>1, <1>4, PairedTail
    <3>3. \A s \in C!Pairs : Paired(c[s])
      BY <3>2, <1>5 DEF Popped, ColInv, ColAsked
    <3>4. Paired(Append(Append(c[q], h), t))
      BY <3>3, <1>1, <1>3, <1>6, PairedBoth
    <3>5. wires'[q] = Append(Append(c[q], h), t)
      BY <1>8, <1>10 DEF Posted
    <3>6. \A s \in C!Pairs : s # q => wires'[s] = c[s]
      BY <1>7, <1>10 DEF Posted
    <3> QED BY <3>3, <3>4, <3>5, <3>6
  <2>2. hist[p[2]][0] # None
    BY <1>2, <1>14 DEF ColInv, ColAsked
  <2>3. ASSUME NEW s \in C!Pairs, NEW x \in On(wires', s)
        PROVE  /\ x.kind = "Request" => s[2] \in ready /\ s[1] # Owner
               /\ x.kind \in {"History", "Rows"} => s[2] # Owner
               /\ x.kind = "History" => x.rows[0] # None
    <3>1. CASE x \in On(wires, s)
      BY <3>1 DEF ColInv, ColAsked
    <3>2. CASE s = q /\ x \in {h, t}
      BY <3>2, <2>2, <1>1, <1>3, <1>14
    <3> QED BY <3>1, <3>2, <1>11
  <2>4. \A n \in has \ ready : RowsComing(n)'
    BY <1>12 DEF ColInv, ColAsked, RowsComing
  <2> QED BY <2>1, <2>3, <2>4, <1>4 DEF ColInv, ColAsked
<1> QED BY <1>13, <1>15, <1>16 DEF ColInv

(* Rows that are on their way elsewhere stay so. *)
LEMMA RowsStay ==
  ASSUME NEW p \in C!Pairs, Popped(CMsg, wires, wires', p), NEW n, n # p[2], RowsComing(n)
  PROVE  RowsComing(n)'
<1>1. PICK q \in C!Pairs : q[2] = n /\ \E x \in On(wires, q) : x.kind = "Rows"
  BY DEF RowsComing
<1>2. \A x \in On(wires, q) : x \in On(wires', q)
  BY <1>1 DEF Popped
<1> QED BY <1>1, <1>2 DEF RowsComing

(* A message that is taken. *)
LEMMA ColTaken ==
  ASSUME ColInv, NEW p \in C!Pairs, wires[p] # <<>>, wires' = [wires EXCEPT ![p] = Tail(@)]
  PROVE  /\ Popped(CMsg, wires, wires', p)
         /\ \A q \in C!Pairs : Paired(wires'[q])
         /\ Head(wires[p]).kind = "History" => RowsComing(p[2])'
<1>1. wires \in [C!Pairs -> Seq(CMsg)] /\ wires[p] \in Seq(CMsg) /\ Paired(wires[p])
  BY DEF ColInv, ColTyped, ColAsked
<1>2. Popped(CMsg, wires, wires', p)
  BY <1>1, Took
<1>3. /\ Paired(Tail(wires[p]))
      /\ Head(wires[p]).kind = "History" => \E x \in Items(Tail(wires[p])) : x.kind = "Rows"
  BY <1>1, PairedTail
<1>4. wires'[p] = Tail(wires[p])
  BY <1>2 DEF Popped
<1>5. Head(wires[p]).kind = "History" => RowsComing(p[2])'
  BY <1>3, <1>4 DEF RowsComing, On, Items
<1> QED BY <1>2, <1>3, <1>5 DEF Popped, ColInv, ColAsked

LEMMA ColHandleHistory ==
  ASSUME C!ContentAssumption, ColInv, Lap, NEW p \in C!Pairs, C!HandleHistory(p[1], p[2])
  PROVE  ColInv'
<1>n. PICK n : n = p[2]
  OBVIOUS
<1>x. PICK x : x = Head(wires[p])
  OBVIOUS
<1>s. PICK s : s = C!Inserted(hist[n], C!NextId(hist[n]), C!Structural(n))
  OBVIOUS
<1>h. PICK h : h = [i \in C!Ids |-> IF x.rows[i] = None THEN s[i] ELSE x.rows[i]]
  OBVIOUS
<1>1. p = <<p[1], n>> /\ n \in Nodes
  BY <1>n DEF C!Pairs
<1>2. /\ wires[p] # <<>> /\ x.kind = "History" /\ C!NextId(hist[n]) \in C!Ids
      /\ wires' = [wires EXCEPT ![p] = Tail(@)]
      /\ hist' = [hist EXCEPT ![n] = h]
      /\ has' = has \union {n}
      /\ answers' = [answers EXCEPT ![n] = @ + 1]
      /\ UNCHANGED <<ready, tables, erased, packages, count, crossed>> /\ C!Noted
  BY <1>1, <1>n, <1>x, <1>s, <1>h DEF C!HandleHistory
<1>3. /\ Popped(CMsg, wires, wires', p) /\ \A q \in C!Pairs : Paired(wires'[q])
      /\ RowsComing(n)'
  BY <1>2, <1>n, <1>x, ColTaken
<1>4. x \in On(wires, p) /\ x \in CMsg /\ x.rows \in History
  BY <1>2, <1>3, <1>x, CMessages DEF Popped
<1>5. x.rows[0] # None /\ n # Owner
  BY <1>2, <1>4, <1>n DEF ColInv, ColAsked
<1>6. /\ hist \in [Nodes -> History] /\ hist[n] \in History /\ has \subseteq Nodes
      /\ ready \subseteq has /\ Owner \in ready /\ answers \in [Nodes -> Nat]
      /\ tables \in [Nodes -> RowTable] /\ 0 \in C!Ids
  BY <1>1, Entries DEF ColInv, ColTyped, C!Ids
<1>7. s \in History
  BY <1>1, <1>2, <1>6, <1>s, Entries DEF C!Inserted, History
<1>8. h \in History /\ h[0] # None
  BY <1>4, <1>5, <1>6, <1>7, <1>h DEF History
<1>9. /\ hist' \in [Nodes -> History] /\ hist'[n] = h
      /\ \A m \in Nodes : m # n => hist'[m] = hist[m]
  BY <1>1, <1>2, <1>6, <1>8
<1>10. /\ answers' \in [Nodes -> Nat] /\ answers'[n] = answers[n] + 1
       /\ \A m \in Nodes : m # n => answers'[m] = answers[m]
  BY <1>1, <1>2, <1>6
<1>11. \A q \in C!Pairs : \A y \in On(wires', q) : y \in On(wires, q)
  BY <1>3 DEF Popped
<1>12. ColTyped'
  BY <1>1, <1>2, <1>3, <1>6, <1>9, <1>10 DEF ColInv, ColTyped, Popped
<1>13. ColAsked'
  <2>1. \A m \in has' : hist'[m][0] # None /\ (m = Owner \/ answers'[m] >= 1)
    BY <1>2, <1>6, <1>8, <1>9, <1>10 DEF ColInv, ColAsked
  <2>2. \A m \in Nodes \ has' : \A i \in C!Ids : hist'[m][i] = None /\ tables'[m][i] = None
    BY <1>2, <1>9 DEF ColInv, ColAsked
  <2>3. \A q \in C!Pairs : \A y \in On(wires', q) :
          /\ y.kind = "Request" => q[2] \in ready /\ q[1] # Owner
          /\ y.kind \in {"History", "Rows"} => q[2] # Owner
          /\ y.kind = "History" => y.rows[0] # None
    BY <1>11 DEF ColInv, ColAsked
  <2>4. ASSUME NEW m \in has' \ ready' PROVE RowsComing(m)'
    <3>1. CASE m = n
      BY <3>1, <1>3
    <3>2. CASE m # n
      BY <3>2, <1>2, <1>3, <1>n, <2>4, RowsStay DEF ColInv, ColAsked
    <3> QED BY <3>1, <3>2
  <2> QED BY <2>1, <2>2, <2>3, <2>4, <1>2, <1>3 DEF ColAsked
<1>14. ASSUME ColGuard' PROVE ColHeard' /\ ColSent'
  <2>1. n \notin has
    <3>1. n \in has => answers[n] >= 1
      BY <1>5 DEF ColInv, ColAsked
    <3>2. answers'[n] <= 1
      BY <1>1, <1>14 DEF ColGuard
    <3> QED BY <3>1, <3>2, <1>1, <1>6, <1>10
  <2>2. \A i \in C!Ids : hist[n][i] = None /\ tables[n][i] = None
    BY <2>1, <1>1 DEF ColInv, ColAsked
  <2>3. C!OnlyAdds' => C!OnlyAdds
    BY <2>2, <1>2, <1>9 DEF C!OnlyAdds
  <2>4. ColGuard /\ ColHeard /\ ColSent
    <3>1. \A m \in Nodes : answers'[m] \in Nat /\ answers[m] <= answers'[m]
      BY <1>1, <1>6, <1>10
    <3> QED BY <2>3, <3>1, <1>2, <1>14, ColGuardBefore DEF ColInv
  <2>5. C!Fetching
    BY <1>2, <1>4, Flying
  <2>6. x.rows = hist[Owner]
    BY <2>4, <1>2, <1>4 DEF ColSent
  <2>7. h = hist[Owner]
    <3>1. C!NextId(hist[n]) = 0
      BY <2>2, <1>6, NextIdFree
    <3>2. \A i \in C!Ids : i # 0 => s[i] = None
      BY <3>1, <2>2, <1>6, <1>s DEF C!Inserted, History
    <3>3. \A i \in C!Ids : h[i] = x.rows[i]
      BY <3>2, <1>5, <1>h
    <3> QED BY <3>3, <2>6, <1>4, <1>8 DEF History
  <2>8. \A m \in has' : hist'[m] = hist[Owner]
    BY <2>4, <2>5, <2>7, <1>2, <1>6, <1>9, ColFetched
  <2>9. hist'[Owner] = hist[Owner] /\ Owner \in has'
    BY <2>8, <1>2, <1>6
  <2>10. ColHeard'
    <3>1. \A a, b \in has', i \in C!Ids, e \in C!Entry : hist'[a][i] = e => hist'[b][i] = e
      BY <2>8
    <3>2. \A m \in ready : tables'[m] = TableOf(hist[m]) /\ hist'[m] = hist[m]
      BY <2>1, <2>4, <1>2, <1>6, <1>9 DEF ColHeard
    <3>3. ASSUME NEW m \in ready PROVE tables'[m] = TableOf(hist[m])'
      <4>1. hist'[m] = hist[m] /\ tables'[m] = TableOf(hist[m])
        BY <3>2
      <4>2. TableOf(hist[m])' = TableOf(hist[m])
        BY <4>1 DEF TableOf
      <4> QED BY <4>1, <4>2
    <3>4. \A m \in has' \ ready' : \A i \in C!Ids : tables'[m][i] = None
      BY <2>2, <2>4, <1>2 DEF ColHeard
    <3> QED BY <3>1, <3>3, <3>4, <1>2 DEF ColHeard
  <2>11. ColSent'
    <3>1. TableOf(hist[Owner])' = TableOf(hist[Owner])
      BY <2>9 DEF TableOf
    <3>2. \A q \in C!Pairs : \A y \in On(wires', q) :
            /\ y.kind # "Change"
            /\ y.kind = "History" => y.rows = hist[Owner]
            /\ y.kind = "Rows" => y.rows = TableOf(hist[Owner])
      BY <2>4, <2>5, <1>11, ColFetched DEF ColSent
    <3> QED BY <3>1, <3>2, <2>9 DEF ColSent
  <2> QED BY <2>10, <2>11
<1> QED BY <1>12, <1>13, <1>14 DEF ColInv

LEMMA ColHandleRows ==
  ASSUME C!ContentAssumption, ColInv, Lap, NEW p \in C!Pairs, C!HandleRows(p[1], p[2])
  PROVE  ColInv'
<1>n. PICK n : n = p[2]
  OBVIOUS
<1>x. PICK x : x = Head(wires[p])
  OBVIOUS
<1>t. PICK t : t = [i \in C!Ids |-> IF tables[n][i] = None THEN x.rows[i] ELSE tables[n][i]]
  OBVIOUS
<1>1. p = <<p[1], n>> /\ n \in Nodes
  BY <1>n DEF C!Pairs
<1>2. /\ wires[p] # <<>> /\ x.kind = "Rows"
      /\ wires' = [wires EXCEPT ![p] = Tail(@)]
      /\ IF n \in has
         THEN /\ tables' = [tables EXCEPT ![n] = [i \in C!Ids |-> IF @[i] = None THEN x.rows[i]
                                                                  ELSE @[i]]]
              /\ ready' = ready \union {n}
         ELSE tables' = tables /\ ready' = ready
      /\ UNCHANGED <<has, hist, erased, packages, count, crossed, answers>> /\ C!Noted
  BY <1>1, <1>n, <1>x DEF C!HandleRows
<1>3. Popped(CMsg, wires, wires', p) /\ \A q \in C!Pairs : Paired(wires'[q])
  BY <1>2, ColTaken
<1>4. x \in On(wires, p) /\ x \in CMsg /\ x.rows \in RowTable
  BY <1>2, <1>3, <1>x, CMessages DEF Popped
<1>5. /\ hist \in [Nodes -> History] /\ has \subseteq Nodes
      /\ ready \subseteq has /\ Owner \in ready
      /\ tables \in [Nodes -> RowTable] /\ tables[n] \in RowTable
  BY <1>1 DEF ColInv, ColTyped
<1>6. t \in RowTable
  BY <1>4, <1>5, <1>t DEF RowTable
<1>7. /\ tables' \in [Nodes -> RowTable]
      /\ n \in has => tables'[n] = t /\ ready' = ready \union {n}
      /\ n \notin has => tables' = tables /\ ready' = ready
      /\ \A m \in Nodes : m # n => tables'[m] = tables[m]
  BY <1>1, <1>2, <1>5, <1>6, <1>t
<1>8. \A q \in C!Pairs : \A y \in On(wires', q) : y \in On(wires, q)
  BY <1>3 DEF Popped
<1>9. ColTyped'
  BY <1>2, <1>3, <1>5, <1>7 DEF ColInv, ColTyped, Popped
<1>10. ColAsked'
  <2>1. \A m \in Nodes \ has : \A i \in C!Ids : hist[m][i] = None /\ tables'[m][i] = None
    BY <1>7 DEF ColInv, ColAsked
  <2>2. \A q \in C!Pairs : \A y \in On(wires', q) :
          /\ y.kind = "Request" => q[2] \in ready' /\ q[1] # Owner
          /\ y.kind \in {"History", "Rows"} => q[2] # Owner
          /\ y.kind = "History" => y.rows[0] # None
    BY <1>7, <1>8 DEF ColInv, ColAsked
  <2>3. ASSUME NEW m \in has \ ready' PROVE RowsComing(m)'
    BY <1>3, <1>7, <1>n, <2>3, RowsStay DEF ColInv, ColAsked
  <2> QED BY <2>1, <2>2, <2>3, <1>2, <1>3 DEF ColInv, ColAsked
<1>11. ASSUME ColGuard' PROVE ColHeard' /\ ColSent'
  <2>1. C!OnlyAdds' => C!OnlyAdds
    BY <1>2 DEF C!OnlyAdds
  <2>2. ColGuard /\ ColHeard /\ ColSent
    BY <2>1, <1>2, <1>11, ColGuardBefore DEF ColInv, ColTyped
  <2>3. C!Fetching
    BY <1>2, <1>4, Flying
  <2>4. x.rows = TableOf(hist[Owner])
    BY <2>2, <1>2, <1>4 DEF ColSent
  <2>5. \A q \in C!Pairs : \A y \in On(wires, q) : y.kind # "Change"
    BY <2>2, <2>3, ColFetched
  <2>6. \A m \in has : hist[m] = hist[Owner]
    BY <2>2, <2>3, ColFetched
  <2>7. n \in has => t = TableOf(hist[n])
    <3>1. ASSUME n \in ready PROVE t = x.rows
      <4>1. tables[n] = x.rows
        BY <3>1, <2>2, <2>4, <2>6, <1>5 DEF ColHeard
      <4>2. \A i \in C!Ids : t[i] = x.rows[i]
        BY <4>1, <1>t
      <4> QED BY <4>2, <1>4, <1>6 DEF RowTable
    <3>2. ASSUME n \in has \ ready PROVE t = x.rows
      <4>1. \A i \in C!Ids : t[i] = x.rows[i]
        BY <3>2, <2>2, <1>t DEF ColHeard
      <4> QED BY <4>1, <1>4, <1>6 DEF RowTable
    <3> QED BY <3>1, <3>2, <2>4, <2>6
  <2>8. ColHeard'
    <3>1. \A m, q \in has, i \in C!Ids, e \in C!Entry : hist[m][i] = e => hist[q][i] = e
      BY <2>6
    <3>2. \A m \in ready' : tables'[m] = TableOf(hist[m])
      BY <2>2, <2>7, <1>5, <1>7 DEF ColHeard
    <3>3. \A m \in has \ ready' : \A i \in C!Ids : tables'[m][i] = None
      BY <2>2, <1>5, <1>7 DEF ColHeard
    <3> QED BY <3>1, <3>2, <3>3, <1>2 DEF ColHeard, TableOf
  <2>9. ColSent'
    BY <2>2, <2>5, <1>2, <1>8 DEF ColSent, TableOf
  <2> QED BY <2>8, <2>9
<1> QED BY <1>9, <1>10, <1>11 DEF ColInv

(* A change that n makes, and the number i of its history row. *)
LEMMA Making ==
  ASSUME C!ContentAssumption, ColInv, NEW n \in Nodes, NEW e \in Changes, NEW tab \in RowTable,
         NEW done \in BOOLEAN, C!Changed(n, e, tab, done), NEW i, i = C!NextId(hist[n])
  PROVE  /\ i \in C!Ids /\ hist[n][i] = None /\ n \in has
         /\ hist' \in [Nodes -> History] /\ tables' \in [Nodes -> RowTable] /\ tables'[n] = tab
         /\ \A m \in Nodes : m # n => hist'[m] = hist[m] /\ tables'[m] = tables[m]
         /\ \A j \in C!Ids : j # i => hist'[n][j] = hist[n][j]
         /\ e.op # "Remove" => hist'[n][i] = e
         /\ Change(i, e) \in CMsg
         /\ done => Spread(CMsg, wires, wires', n, Change(i, e))
         /\ ~done => wires' = wires
         /\ count' \in 0 .. MaxWrites /\ crossed' \in BOOLEAN /\ (crossed => crossed')
<1>x. PICK x : x = [kind |-> "Change", id |-> i, entry |-> e]
  OBVIOUS
<1>1. /\ i \in C!Ids /\ n \in has /\ count < MaxWrites /\ count' = count + 1
      /\ hist' = [hist EXCEPT ![n] = C!Logged(hist[n], i, e)]
      /\ tables' = [tables EXCEPT ![n] = tab]
      /\ wires' = C!Told(wires, n, IF done THEN <<x>> ELSE <<>>)
      /\ crossed' = (crossed \/ \E m \in Nodes \ {n} : \E j \in DOMAIN wires[<<m, n>>] :
                                    wires[<<m, n>>][j].kind = "Change")
  BY <1>x DEF C!Changed, C!Appended
<1>2. /\ hist \in [Nodes -> History] /\ hist[n] \in History /\ tables \in [Nodes -> RowTable]
      /\ wires \in [C!Pairs -> Seq(CMsg)] /\ crossed \in BOOLEAN /\ count \in 0 .. MaxWrites
      /\ MaxWrites \in Nat
  BY Entries DEF ColInv, ColTyped
<1>3. hist[n][i] = None
  BY <1>1, <1>2, NextIdFree
<1>4. /\ C!Logged(hist[n], i, e) \in History
      /\ \A j \in C!Ids : j # i => C!Logged(hist[n], i, e)[j] = hist[n][j]
      /\ e.op # "Remove" => C!Logged(hist[n], i, e)[i] = e
  BY <1>1, <1>2, <1>3, Entries DEF C!Logged, C!Inserted, History
<1>5. /\ hist' \in [Nodes -> History] /\ hist'[n] = C!Logged(hist[n], i, e)
      /\ tables' \in [Nodes -> RowTable] /\ tables'[n] = tab
      /\ \A m \in Nodes : m # n => hist'[m] = hist[m] /\ tables'[m] = tables[m]
  BY <1>1, <1>2, <1>4
<1>6. x \in CMsg /\ x = Change(i, e)
  BY <1>1, <1>x DEF CMsg, Change
<1>7. ASSUME done PROVE Spread(CMsg, wires, wires', n, x)
  BY <1>1, <1>2, <1>6, <1>7, ToldOne
<1>8. ASSUME ~done PROVE wires' = wires
  <2>1. wires' = [q \in C!Pairs |-> IF q[1] = n THEN wires[q] \o <<>> ELSE wires[q]]
    BY <1>1, <1>8 DEF C!Told
  <2>2. \A q \in C!Pairs : wires[q] \in Seq(CMsg)
    BY <1>2
  <2>3. \A q \in C!Pairs : wires[q] \o <<>> = wires[q]
    BY <2>2
  <2> QED BY <1>2, <2>1, <2>3
<1>9. count' \in 0 .. MaxWrites /\ crossed' \in BOOLEAN /\ (crossed => crossed')
  BY <1>1, <1>2
<1> QED BY <1>1, <1>3, <1>4, <1>5, <1>6, <1>7, <1>8, <1>9

LEMMA ColMade ==
  ASSUME C!ContentAssumption, ColInv, NEW n \in Nodes, NEW e \in Changes, NEW tab \in RowTable,
         NEW done \in BOOLEAN, C!Changed(n, e, tab, done),
         erased' \in [Nodes -> C!Ids \union {None}]
  PROVE  ColTyped' /\ ColAsked'
<1>i. PICK i : i = C!NextId(hist[n])
  OBVIOUS
<1>x. PICK x : x = Change(i, e)
  OBVIOUS
<1>1. /\ i \in C!Ids /\ hist[n][i] = None /\ n \in has
      /\ hist' \in [Nodes -> History] /\ tables' \in [Nodes -> RowTable]
      /\ \A m \in Nodes : m # n => hist'[m] = hist[m] /\ tables'[m] = tables[m]
      /\ \A j \in C!Ids : j # i => hist'[n][j] = hist[n][j]
      /\ x \in CMsg
      /\ done => Spread(CMsg, wires, wires', n, x)
      /\ ~done => wires' = wires
      /\ count' \in 0 .. MaxWrites /\ crossed' \in BOOLEAN
  BY <1>i, <1>x, Making
<1>2. UNCHANGED <<ready, has, packages, answers>>
  BY DEF C!Changed
<1>3. x.kind = "Change"
  BY <1>x DEF Change
<1>4. wires \in [C!Pairs -> Seq(CMsg)] /\ has \subseteq Nodes
  BY DEF ColInv, ColTyped
<1>5. wires' \in [C!Pairs -> Seq(CMsg)]
  BY <1>1, <1>4 DEF Spread
<1>6. ColTyped'
  BY <1>1, <1>2, <1>5 DEF ColInv, ColTyped
<1>7. \A q \in C!Pairs : Paired(wires'[q])
  <2>1. CASE done
    <3>1. \A q \in C!Pairs : wires[q] \in Seq(CMsg) /\ Paired(wires[q])
      BY <1>4 DEF ColInv, ColAsked
    <3>2. \A q \in C!Pairs : Paired(Append(wires[q], x))
      BY <3>1, <1>1, <1>3, PairedAppend
    <3> QED BY <3>1, <3>2, <2>1, <1>1 DEF Spread
  <2>2. CASE ~done
    BY <2>2, <1>1 DEF ColInv, ColAsked
  <2> QED BY <2>1, <2>2
<1>8. \A q \in C!Pairs : \A y \in On(wires', q) : y \in On(wires, q) \/ y = x
  BY <1>1 DEF Spread
<1>9. \A q \in C!Pairs : \A y \in On(wires, q) : y \in On(wires', q)
  BY <1>1 DEF Spread
<1>10. \A m \in has : hist'[m][0] # None
  <2>1. 0 \in C!Ids /\ i # 0
    BY <1>1, Entries DEF ColInv, ColAsked, C!Ids
  <2> QED BY <2>1, <1>1, <1>4 DEF ColInv, ColAsked
<1>11. \A q \in C!Pairs : \A y \in On(wires', q) :
         /\ y.kind = "Request" => q[2] \in ready /\ q[1] # Owner
         /\ y.kind \in {"History", "Rows"} => q[2] # Owner
         /\ y.kind = "History" => y.rows[0] # None
  BY <1>3, <1>8 DEF ColInv, ColAsked
<1>12. \A m \in Nodes \ has : \A j \in C!Ids : hist'[m][j] = None /\ tables'[m][j] = None
  BY <1>1 DEF ColInv, ColAsked
<1>13. \A m \in has \ ready : RowsComing(m)'
  BY <1>9 DEF ColInv, ColAsked, RowsComing
<1> QED BY <1>2, <1>6, <1>7, <1>10, <1>11, <1>12, <1>13 DEF ColInv, ColAsked

(* Updates and removals are outside what is claimed. *)
LEMMA ColUpdateRow ==
  ASSUME C!ContentAssumption, ColInv, NEW n \in Nodes, NEW j \in C!Ids, C!UpdateRow(n, j)
  PROVE  ColInv'
<1>e. PICK e : e = [op |-> "Update", by |-> n, id |-> j, v |-> count + 1]
  OBVIOUS
<1>t. PICK tab : tab = [tables[n] EXCEPT ![j] = count + 1]
  OBVIOUS
<1>i. PICK i : i = C!NextId(hist[n])
  OBVIOUS
<1>1. count \in 0 .. MaxWrites /\ MaxWrites \in Nat /\ tables[n] \in RowTable
  BY Entries DEF ColInv, ColTyped
<1>2. C!Changed(n, e, tab, TRUE) /\ erased' = erased /\ count < MaxWrites
  BY <1>e, <1>t DEF C!UpdateRow, C!Changed
<1>3. e \in Changes /\ tab \in RowTable /\ e.op = "Update"
  BY <1>1, <1>2, <1>e, <1>t DEF Changes, RowTable
<1>4. ColTyped' /\ ColAsked'
  BY <1>2, <1>3, ColMade DEF ColInv, ColTyped
<1>5. i \in C!Ids /\ hist'[n][i] = e
  <2>1. PICK done \in BOOLEAN : done = TRUE
    OBVIOUS
  <2>2. C!Changed(n, e, tab, done)
    BY <1>2, <2>1
  <2> QED BY <2>2, <1>3, <1>i, Making
<1>6. e # None
  BY <1>3, Entries
<1>7. ~C!OnlyAdds'
  BY <1>3, <1>5, <1>6 DEF C!OnlyAdds
<1> QED BY <1>4, <1>7 DEF ColInv, ColGuard

LEMMA ColRemoveRow ==
  ASSUME C!ContentAssumption, ColInv, NEW n \in Nodes, NEW j \in C!Ids, C!RemoveRow(n, j)
  PROVE  ColInv'
<1>e. PICK e : e = [op |-> "Remove", by |-> n, id |-> j, v |-> count + 1]
  OBVIOUS
<1>g. PICK gone : gone = IF erased[n] = None THEN j ELSE erased[n]
  OBVIOUS
<1>t. PICK tab : tab = [tables[n] EXCEPT ![gone] = None]
  OBVIOUS
<1>1. /\ count \in 0 .. MaxWrites /\ MaxWrites \in Nat /\ tables[n] \in RowTable
      /\ erased \in [Nodes -> C!Ids \union {None}]
  BY Entries DEF ColInv, ColTyped
<1>2. /\ C!Changed(n, e, tab, TRUE) /\ erased' = [erased EXCEPT ![n] = gone] /\ count < MaxWrites
  BY <1>e, <1>g, <1>t DEF C!RemoveRow, C!Changed
<1>4. gone \in C!Ids /\ gone # None
  BY <1>1, <1>g, Entries
<1>3. e \in Changes /\ tab \in RowTable
  <2>1. e \in Changes
    BY <1>1, <1>2, <1>e DEF Changes
  <2>2. tab \in RowTable
    BY <1>1, <1>4, <1>t DEF RowTable
  <2> QED BY <2>1, <2>2
<1>5. erased' \in [Nodes -> C!Ids \union {None}] /\ erased'[n] = gone
  BY <1>1, <1>2, <1>4
<1>6. ColTyped' /\ ColAsked'
  BY <1>2, <1>3, <1>5, ColMade
<1>7. ~C!OnlyAdds'
  BY <1>4, <1>5 DEF C!OnlyAdds
<1> QED BY <1>6, <1>7 DEF ColInv, ColGuard

LEMMA ColAddRow ==
  ASSUME C!ContentAssumption, ColInv, Lap, NEW n \in Nodes, C!AddRow(n)
  PROVE  ColInv'
<1>i. PICK i : i = C!NextId(hist[n])
  OBVIOUS
<1>e. PICK e : e = [op |-> "Add", by |-> n, id |-> None, v |-> count + 1]
  OBVIOUS
<1>t. PICK tab : tab = C!Inserted(tables[n], i, count + 1)
  OBVIOUS
<1>d. PICK done : done = (tables[n][i] = None)
  OBVIOUS
<1>x. PICK x : x = Change(i, e)
  OBVIOUS
<1>1. /\ count \in 0 .. MaxWrites /\ MaxWrites \in Nat /\ tables[n] \in RowTable
      /\ erased \in [Nodes -> C!Ids \union {None}] /\ done \in BOOLEAN
      /\ has \subseteq Nodes /\ Owner \in has /\ hist \in [Nodes -> History]
  BY <1>d, Entries DEF ColInv, ColTyped
<1>2. C!Changed(n, e, tab, done) /\ erased' = erased /\ count < MaxWrites /\ i \in C!Ids
  BY <1>e, <1>t, <1>i, <1>d DEF C!AddRow, C!Changed
<1>3. /\ e \in Changes /\ e.op = "Add" /\ e.v = count + 1 /\ tab \in RowTable /\ count + 1 # None
      /\ e \in C!Entry /\ e # None
  BY <1>1, <1>2, <1>e, <1>t, Entries DEF Changes, RowTable, C!Inserted
<1>4. ColTyped' /\ ColAsked'
  BY <1>1, <1>2, <1>3, ColMade
<1>5. /\ hist[n][i] = None /\ n \in has
      /\ hist' \in [Nodes -> History] /\ tables'[n] = tab
      /\ \A m \in Nodes : m # n => hist'[m] = hist[m] /\ tables'[m] = tables[m]
      /\ \A j \in C!Ids : j # i => hist'[n][j] = hist[n][j]
      /\ hist'[n][i] = e
      /\ x \in CMsg
      /\ done => Spread(CMsg, wires, wires', n, x)
      /\ ~done => wires' = wires
      /\ (crossed => crossed')
  BY <1>1, <1>2, <1>3, <1>i, <1>x, Making
<1>6. /\ UNCHANGED <<ready, has, packages, answers>> /\ C!Noted
      /\ crossed' = (crossed \/ \E m \in Nodes \ {n} : \E j \in DOMAIN wires[<<m, n>>] :
                                    wires[<<m, n>>][j].kind = "Change")
  BY <1>2 DEF C!Changed
<1>7. ASSUME ColGuard' PROVE ColHeard' /\ ColSent'
  <2>1. C!OnlyAdds' => C!OnlyAdds
    BY <1>2, <1>5 DEF C!OnlyAdds
  <2>2. ColGuard /\ ColHeard /\ ColSent /\ ~overlap'
    BY <2>1, <1>5, <1>6, <1>7, ColGuardBefore DEF ColInv, ColTyped
  <2>3. \A q \in C!Pairs : q[2] = n => \A y \in On(wires, q) : y.kind # "Change"
    <3> TAKE q \in C!Pairs
    <3>1. q = <<q[1], q[2]>> /\ q[1] \in Nodes /\ q[1] # q[2]
      BY DEF C!Pairs
    <3> QED BY <3>1, <1>6, <1>7 DEF On, ColGuard
  <2>4. \A j, f : ~Announced(n, j, f)
    BY <2>3 DEF Announced, Change
  <2>5. \A q \in C!Pairs : \A y \in On(wires, q) : y \in On(wires', q)
    BY <1>5 DEF Spread
  <2>6. x.kind = "Change"
    BY <1>x DEF Change
  <2>7. done => (C!Pairs = {} \/ C!Writing')
    <3> SUFFICES ASSUME done, NEW q \in C!Pairs PROVE C!Writing'
      OBVIOUS
    <3>1. PICK s \in Nodes : s # n
      BY DEF C!Pairs
    <3>2. <<n, s>> \in C!Pairs /\ <<n, s>>[1] = n
      BY <3>1 DEF C!Pairs
    <3>3. x \in On(wires', <<n, s>>)
      BY <3>2, <1>5 DEF Spread
    <3> QED BY <3>2, <3>3, <2>6, FlyingNext
  <2>8. n \in ready
    <3> SUFFICES ASSUME n \notin ready PROVE FALSE
      OBVIOUS
    <3>1. PICK q \in C!Pairs : \E y \in On(wires, q) : y.kind = "Rows"
      BY <1>5 DEF ColInv, ColAsked, RowsComing
    <3>2. C!Fetching'
      BY <3>1, <2>5, FlyingNext
    <3>3. done
      BY <2>2, <1>2, <1>5, <1>d DEF ColHeard
    <3> QED BY <3>1, <3>2, <3>3, <2>2, <2>7, <1>6 DEF C!Noted
  <2>9. tables[n] = TableOf(hist[n]) /\ done
    <3>1. tables[n] = TableOf(hist[n])
      BY <2>2, <2>8 DEF ColHeard
    <3>2. TableOf(hist[n])[i] = None
      BY <1>2, <1>5 DEF TableOf
    <3> QED BY <3>1, <3>2, <1>d
  <2>10. \A a \in has : hist[a][i] = None
    <3> TAKE a \in has
    <3>1. hist[a][i] \in C!Entry => hist[n][i] = hist[a][i]
      BY <2>2, <2>4, <1>2, <1>5 DEF ColHeard
    <3>2. hist[a][i] \in C!Entry \union {None}
      BY <1>1, <1>2 DEF History
    <3> QED BY <3>1, <3>2, <1>5
  <2>11. \A b, j, f : Announced(b, j, f) => Announced(b, j, f)'
    BY <2>5 DEF Announced, Change
  <2>12. \A b \in Nodes : b # n => Announced(b, i, e)'
    <3> TAKE b \in Nodes
    <3>1. ASSUME b # n PROVE x \in On(wires', <<n, b>>) /\ <<n, b>> \in C!Pairs /\ <<n, b>>[2] = b
      <4>1. <<n, b>> \in C!Pairs /\ <<n, b>>[1] = n
        BY <3>1 DEF C!Pairs
      <4> QED BY <4>1, <2>9, <1>5 DEF Spread
    <3> QED BY <3>1, <1>x DEF Announced, Change
  <2>13. ASSUME NEW a \in has, NEW b \in has, NEW j \in C!Ids, NEW f \in C!Entry, hist'[a][j] = f
         PROVE  hist'[b][j] = f \/ (hist'[b][j] = None /\ Announced(b, j, f)')
    <3>1. CASE j = i
      <4>1. a = n /\ f = e
        BY <3>1, <2>10, <2>13, <1>1, <1>5, Entries
      <4> QED BY <4>1, <3>1, <2>10, <2>12, <1>1, <1>5
    <3>2. CASE j # i
      <4>1. hist'[a][j] = hist[a][j] /\ hist'[b][j] = hist[b][j]
        BY <3>2, <1>1, <1>5
      <4> QED BY <4>1, <2>2, <2>11, <2>13 DEF ColHeard
    <3> QED BY <3>1, <3>2
  <2>14. tab = TableOf(hist[n])'
    <3>1. tab = [tables[n] EXCEPT ![i] = count + 1]
      BY <2>9, <1>d, <1>t DEF C!Inserted
    <3>2. \A j \in C!Ids : tab[j] = TableOf(hist[n])'[j]
      <4> TAKE j \in C!Ids
      <4>1. CASE j = i
        BY <4>1, <3>1, <1>1, <1>3, <1>5 DEF RowTable, TableOf
      <4>2. CASE j # i
        BY <4>2, <3>1, <2>9, <1>1, <1>5 DEF RowTable, TableOf
      <4> QED BY <4>1, <4>2
    <3> QED BY <3>2, <1>3 DEF RowTable, TableOf
  <2>15. ColHeard'
    <3>1. ASSUME NEW m \in ready PROVE tables'[m] = TableOf(hist[m])'
      <4>1. m \in Nodes
        BY DEF ColInv, ColTyped
      <4>2. CASE m = n
        BY <4>2, <2>14, <1>5
      <4>3. CASE m # n
        <5>1. hist'[m] = hist[m] /\ tables'[m] = TableOf(hist[m])
          BY <4>1, <4>3, <2>2, <1>5 DEF ColHeard
        <5>2. TableOf(hist[m])' = TableOf(hist[m])
          BY <5>1 DEF TableOf
        <5> QED BY <5>1, <5>2
      <4> QED BY <4>2, <4>3
    <3>2. \A m \in has \ ready : \A j \in C!Ids : tables'[m][j] = None
      BY <2>2, <2>8, <1>1, <1>5 DEF ColHeard
    <3> QED BY <2>13, <3>1, <3>2, <1>6 DEF ColHeard
  <2>16. ColSent'
    <3> SUFFICES ASSUME NEW q \in C!Pairs, NEW y \in On(wires', q)
                 PROVE  /\ y.kind \notin {"History", "Rows"}
                        /\ y.kind = "Change" => y.entry.op = "Add"
                                                /\ \E m \in has : hist'[m][y.id] = y.entry
      BY <1>6 DEF ColSent
    <3>1. y.kind \notin {"History", "Rows"}
      BY <2>2, <2>7, <2>9, <1>6, FlyingNext DEF C!Noted
    <3>2. CASE y = x
      BY <3>2, <3>1, <1>x, <1>3, <1>5 DEF Change
    <3>3. CASE y \in On(wires, q) /\ y.kind = "Change"
      <4>1. y \in CMsg
        BY <3>3 DEF ColInv, ColTyped, On
      <4>2. y.id \in C!Ids /\ y.entry \in Changes
        BY <4>1, <3>3, CMessages
      <4>3. y.entry.op = "Add" /\ \E m \in has : hist[m][y.id] = y.entry
        BY <3>3, <2>2 DEF ColSent
      <4>4. PICK m \in has : hist[m][y.id] = y.entry
        BY <4>3
      <4>5. y.entry # None
        BY <4>2, <4>3, Entries
      <4>6. hist'[m][y.id] = y.entry
        BY <4>2, <4>4, <4>5, <1>1, <1>5
      <4> QED BY <4>3, <4>6, <3>1
    <3>4. y = x \/ y \in On(wires, q)
      BY <2>9, <1>5 DEF Spread
    <3> QED BY <3>1, <3>2, <3>3, <3>4
  <2> QED BY <2>15, <2>16
<1> QED BY <1>4, <1>7 DEF ColInv

LEMMA ColHandleChange ==
  ASSUME C!ContentAssumption, ColInv, Lap, NEW p \in C!Pairs, C!HandleChange(p[1], p[2])
  PROVE  ColInv'
<1>n. PICK n : n = p[2]
  OBVIOUS
<1>x. PICK x : x = Head(wires[p])
  OBVIOUS
<1>i. PICK i : i = x.id
  OBVIOUS
<1>e. PICK e : e = x.entry
  OBVIOUS
<1>1. p = <<p[1], n>> /\ n \in Nodes
  BY <1>n DEF C!Pairs
<1>2. /\ wires[p] # <<>> /\ x.kind = "Change"
      /\ wires' = [wires EXCEPT ![p] = Tail(@)]
      /\ IF n \in has THEN /\ hist' = [hist EXCEPT ![n] = C!Logged(@, i, e)]
                           /\ tables' = [tables EXCEPT ![n] = C!Received(n, i, e)]
         ELSE hist' = hist /\ tables' = tables
      /\ UNCHANGED <<has, ready, erased, packages, count, crossed, answers>> /\ C!Noted
  BY <1>1, <1>n, <1>x, <1>i, <1>e DEF C!HandleChange
<1>3. Popped(CMsg, wires, wires', p) /\ \A q \in C!Pairs : Paired(wires'[q])
  BY <1>2, ColTaken
<1>4. /\ x \in On(wires, p) /\ x \in CMsg /\ i \in C!Ids /\ e \in Changes /\ x = Change(i, e)
  BY <1>2, <1>3, <1>x, <1>i, <1>e, CMessages DEF Popped
<1>5. /\ hist \in [Nodes -> History] /\ hist[n] \in History /\ has \subseteq Nodes
      /\ tables \in [Nodes -> RowTable] /\ tables[n] \in RowTable
  BY <1>1 DEF ColInv, ColTyped
<1>6. /\ C!Logged(hist[n], i, e) \in History
      /\ \A j \in C!Ids : hist[n][j] # None \/ j # i => C!Logged(hist[n], i, e)[j] = hist[n][j]
      /\ hist[n][i] = None /\ e.op # "Remove" => C!Logged(hist[n], i, e)[i] = e
  BY <1>4, <1>5, Entries DEF C!Logged, C!Inserted, History
<1>7. C!Received(n, i, e) \in RowTable
  <2>1. (IF e.op = "Add" THEN e.v ELSE 0) \in 0 .. MaxWrites
    BY <1>4, Entries DEF Changes
  <2> QED BY <2>1, <1>5 DEF C!Received, C!Inserted, RowTable
<1>8. /\ hist' \in [Nodes -> History] /\ tables' \in [Nodes -> RowTable]
      /\ n \in has => hist'[n] = C!Logged(hist[n], i, e) /\ tables'[n] = C!Received(n, i, e)
      /\ n \notin has => hist' = hist /\ tables' = tables
      /\ \A m \in Nodes : m # n => hist'[m] = hist[m] /\ tables'[m] = tables[m]
  BY <1>1, <1>2, <1>5, <1>6, <1>7
<1>9. \A m \in Nodes, j \in C!Ids : hist[m][j] # None \/ j # i => hist'[m][j] = hist[m][j]
  BY <1>6, <1>8
<1>10. \A q \in C!Pairs : \A y \in On(wires', q) : y \in On(wires, q)
  BY <1>3 DEF Popped
<1>11. ColTyped'
  BY <1>2, <1>3, <1>8 DEF ColInv, ColTyped, Popped
<1>12. ColAsked'
  <2>1. \A m \in has : hist'[m][0] # None
    <3>1. 0 \in C!Ids
      BY Entries DEF C!Ids
    <3> QED BY <3>1, <1>5, <1>9 DEF ColInv, ColAsked
  <2>2. \A m \in Nodes \ has : \A j \in C!Ids : hist'[m][j] = None /\ tables'[m][j] = None
    BY <1>8 DEF ColInv, ColAsked
  <2>3. \A q \in C!Pairs : \A y \in On(wires', q) :
          /\ y.kind = "Request" => q[2] \in ready /\ q[1] # Owner
          /\ y.kind \in {"History", "Rows"} => q[2] # Owner
          /\ y.kind = "History" => y.rows[0] # None
    BY <1>10 DEF ColInv, ColAsked
  <2>4. \A m \in has \ ready : RowsComing(m)'
    <3>1. \A q \in C!Pairs : \A y \in On(wires, q) : y.kind = "Rows" => y \in On(wires', q)
      BY <1>2, <1>3, <1>x DEF Popped
    <3> QED BY <3>1 DEF RowsComing, ColInv, ColAsked
  <2> QED BY <2>1, <2>2, <2>3, <2>4, <1>2, <1>3 DEF ColInv, ColAsked
<1>13. ASSUME ColGuard' PROVE ColHeard' /\ ColSent'
  <2>1. C!OnlyAdds' => C!OnlyAdds
    BY <1>2, <1>9 DEF C!OnlyAdds
  <2>2. ColGuard /\ ColHeard /\ ColSent
    BY <2>1, <1>2, <1>13, ColGuardBefore DEF ColInv, ColTyped
  <2>3. C!Writing
    BY <1>2, <1>4, Flying
  <2>4. ~C!Fetching
    BY <2>2, <2>3 DEF Lap, ColGuard
  <2>5. has = ready
    <3>1. \A m : ~RowsComing(m)
      BY <2>4, Flying DEF RowsComing
    <3> QED BY <3>1 DEF ColInv, ColAsked, ColTyped
  <2>6. e.op = "Add" /\ e \in C!Entry /\ e # None /\ \E m \in has : hist[m][i] = e
    <3>1. e.op = "Add" /\ \E m \in has : hist[m][i] = e
      BY <2>2, <1>2, <1>4, <1>i, <1>e DEF ColSent
    <3> QED BY <3>1, <1>4, Entries
  <2>7. PICK s \in has : hist[s][i] = e
    BY <2>6
  <2>8. \A b \in has : hist[b][i] = e \/ (hist[b][i] = None /\ Announced(b, i, e))
    BY <2>2, <2>6, <2>7, <1>4 DEF ColHeard
  <2>9. \A b, j, f : Announced(b, j, f) => Announced(b, j, f)' \/ (b = n /\ j = i)
    <3> TAKE b, j, f
    <3> SUFFICES ASSUME Announced(b, j, f), ~(b = n /\ j = i) PROVE Announced(b, j, f)'
      OBVIOUS
    <3>1. PICK q \in C!Pairs : q[2] = b /\ Change(j, f) \in On(wires, q)
      BY DEF Announced
    <3>2. Change(j, f) \in On(wires', q) \/ (q = p /\ Change(j, f) = x)
      BY <3>1, <1>3, <1>x DEF Popped
    <3>3. Change(j, f) = Change(i, e) => j = i
      <4>1. Change(j, f).id = j /\ Change(i, e).id = i
        BY DEF Change
      <4> QED BY <4>1
    <3>4. Change(j, f) \in On(wires', q)
      BY <3>1, <3>2, <3>3, <1>4, <1>n
    <3> QED BY <3>1, <3>4 DEF Announced, Change
  <2>10. n \in has => hist'[n][i] = e
    BY <2>6, <2>8, <1>1, <1>4, <1>6, <1>8
  <2>11. ASSUME NEW a \in has, NEW b \in has, NEW j \in C!Ids, NEW f \in C!Entry, hist'[a][j] = f
         PROVE  hist'[b][j] = f \/ (hist'[b][j] = None /\ Announced(b, j, f)')
    <3>1. CASE j # i
      <4>1. hist'[a][j] = hist[a][j] /\ hist'[b][j] = hist[b][j]
        BY <3>1, <1>5, <1>9
      <4>2. hist[b][j] = f \/ (hist[b][j] = None /\ Announced(b, j, f))
        BY <4>1, <2>2, <2>11 DEF ColHeard
      <4>3. hist[b][j] = f \/ (hist[b][j] = None /\ Announced(b, j, f)')
        BY <3>1, <4>2, <2>9
      <4> QED BY <4>1, <4>3
    <3>2. CASE j = i
      <4>1. f = e
        <5>1. CASE a = n
          BY <5>1, <3>2, <2>10, <2>11
        <5>2. CASE a # n
          <6>1. hist[a][i] = f
            BY <5>2, <3>2, <2>11, <1>5, <1>8
          <6> QED BY <6>1, <2>8, <2>11, Entries
        <5> QED BY <5>1, <5>2
      <4>2. CASE b = n
        BY <4>1, <4>2, <3>2, <2>10, <2>11
      <4>3. CASE b # n
        <5>1. hist'[b][i] = hist[b][i]
          BY <4>3, <1>5, <1>8
        <5>2. hist[b][i] = e \/ (hist[b][i] = None /\ Announced(b, i, e)')
          BY <4>3, <2>8, <2>9
        <5> QED BY <5>1, <5>2, <4>1, <3>2
      <4> QED BY <4>2, <4>3
    <3> QED BY <3>1, <3>2
  <2>12. n \in has => C!Received(n, i, e) = TableOf(hist[n])'
    <3> SUFFICES ASSUME n \in has PROVE C!Received(n, i, e) = TableOf(hist[n])'
      OBVIOUS
    <3>1. tables[n] = TableOf(hist[n]) /\ e.v \in 0 .. MaxWrites
      BY <2>2, <2>5, <1>4 DEF ColHeard, Changes
    <3>2. e.v # None
      BY <3>1, Entries
    <3>3. C!Received(n, i, e) = IF tables[n][i] = None
                                THEN [tables[n] EXCEPT ![i] = e.v] ELSE tables[n]
      BY <2>6 DEF C!Received, C!Inserted
    <3>4. ASSUME NEW j \in C!Ids PROVE C!Received(n, i, e)[j] = TableOf(hist[n])'[j]
      <4>1. CASE j # i
        BY <4>1, <3>1, <3>3, <1>1, <1>5, <1>9 DEF RowTable, TableOf
      <4>2. CASE j = i
        <5>1. TableOf(hist[n])'[i] = e.v
          BY <2>6, <2>10, <1>4 DEF TableOf
        <5>2. CASE hist[n][i] = e
          <6>1. tables[n][i] = e.v
            BY <5>2, <3>1, <2>6, <1>4 DEF TableOf
          <6> QED BY <6>1, <5>1, <4>2, <3>2, <3>3
        <5>3. CASE hist[n][i] = None
          <6>1. tables[n][i] = None
            BY <5>3, <3>1, <1>4 DEF TableOf
          <6> QED BY <6>1, <5>1, <4>2, <3>3, <1>4, <1>5 DEF RowTable
        <5> QED BY <5>2, <5>3, <2>8
      <4> QED BY <4>1, <4>2
    <3> QED BY <3>4, <1>7 DEF RowTable, TableOf
  <2>13. ColHeard'
    <3>1. ASSUME NEW m \in ready PROVE tables'[m] = TableOf(hist[m])'
      <4>1. m \in Nodes /\ m \in has
        BY <2>5, <1>5
      <4>2. CASE m = n
        BY <4>1, <4>2, <2>12, <1>8
      <4>3. CASE m # n
        <5>1. hist'[m] = hist[m] /\ tables'[m] = TableOf(hist[m])
          BY <4>1, <4>3, <2>2, <1>8 DEF ColHeard
        <5>2. TableOf(hist[m])' = TableOf(hist[m])
          BY <5>1 DEF TableOf
        <5> QED BY <5>1, <5>2
      <4> QED BY <4>2, <4>3
    <3>2. has' \ ready' = {}
      BY <2>5, <1>2
    <3> QED BY <2>11, <3>1, <3>2, <1>2 DEF ColHeard
  <2>14. ColSent'
    <3> SUFFICES ASSUME NEW q \in C!Pairs, NEW y \in On(wires', q)
                 PROVE  /\ y.kind \notin {"History", "Rows"}
                        /\ y.kind = "Change" => y.entry.op = "Add"
                                                /\ \E m \in has : hist'[m][y.id] = y.entry
      BY <1>2 DEF ColSent
    <3>1. y \in On(wires, q) /\ y.kind \notin {"History", "Rows"}
      BY <2>4, <1>10, Flying
    <3>2. ASSUME y.kind = "Change"
          PROVE  y.entry.op = "Add" /\ \E m \in has : hist'[m][y.id] = y.entry
      <4>1. y \in CMsg
        BY <3>1 DEF ColInv, ColTyped, On
      <4>2. y.id \in C!Ids /\ y.entry \in Changes
        BY <4>1, <3>2, CMessages
      <4>3. y.entry.op = "Add" /\ \E m \in has : hist[m][y.id] = y.entry
        BY <3>1, <3>2, <2>2 DEF ColSent
      <4>4. PICK m \in has : hist[m][y.id] = y.entry
        BY <4>3
      <4>5. y.entry # None
        BY <4>2, <4>3, Entries
      <4>6. hist'[m][y.id] = y.entry
        BY <4>2, <4>4, <4>5, <1>5, <1>9
      <4> QED BY <4>3, <4>6
    <3> QED BY <3>1, <3>2
  <2> QED BY <2>13, <2>14
<1> QED BY <1>11, <1>12, <1>13 DEF ColInv

------------------------------------------------------------------------------
(* Both types. *)

LEMMA ContentStart == ASSUME C!ContentAssumption, C!Init PROVE ContentInv
<1>1. type \in {"Vector", "Collection"} /\ Owner \in Nodes /\ MaxWrites \in Nat
  BY DEF C!Init, C!ContentAssumption
<1>2. /\ has = {Owner} /\ ready = {Owner} /\ now = 1 /\ count = 0
      /\ vec = [n \in Nodes |-> [k \in Keys |-> None]]
      /\ tables = [n \in Nodes |-> [i \in C!Ids |-> None]]
      /\ erased = [n \in Nodes |-> None] /\ packages = [n \in Nodes |-> <<>>]
      /\ writes = {} /\ crossed = FALSE /\ overlap = FALSE /\ answers = [n \in Nodes |-> 0]
  BY DEF C!Init
<1>3. /\ \A p \in C!Pairs : Rise(<<>>) /\ Paired(<<>>)
      /\ \A p \in C!Pairs : On([q \in C!Pairs |-> <<>>], p) = {}
      /\ \A n \in Nodes : On(packages, n) = {}
  BY <1>2 DEF Rise, Paired, On
<1>4. CASE type = "Vector"
  <2>x. PICK x : x = [kind |-> "Package", rows |-> vec[Owner]]
    OBVIOUS
  <2>c. PICK c : c = [p \in C!Pairs |-> <<>>]
    OBVIOUS
  <2>1. x \in VMsg /\ x.kind = "Package" /\ x.rows = [k \in Keys |-> None]
    BY <1>1, <1>2, <2>x DEF VMsg, Content
  <2>2. wires = C!Told(c, Owner, <<x>>) /\ c \in [C!Pairs -> Seq(VMsg)]
    BY <1>4, <2>x, <2>c DEF C!Init
  <2>3. Spread(VMsg, c, wires, Owner, x)
    BY <2>1, <2>2, ToldOne
  <2>4. \A p \in C!Pairs : \A y \in On(wires, p) : y = x
    BY <2>3, <2>c, <1>3 DEF Spread
  <2>5. VecTyped
    BY <1>1, <1>2, <2>3 DEF VecTyped, Spread, Content
  <2>6. VecRows
    BY <1>1, <1>2, <1>3, <2>1, <2>4 DEF VecRows, Genuine
  <2>7. VecWrites
    BY <1>2 DEF VecWrites
  <2>8. VecOrder
    <3>1. \A p \in C!Pairs : Rise(Append(c[p], x)) /\ Rise(c[p])
      <4> TAKE p \in C!Pairs
      <4>1. c[p] = <<>> /\ c[p] \in Seq(VMsg) /\ Rise(c[p]) /\ Items(c[p]) = {}
        BY <2>2, <2>c, <1>3 DEF Items
      <4> QED BY <4>1, <2>1, RiseAppend
    <3> QED BY <3>1, <2>3, <1>2 DEF VecOrder, Spread
  <2>9. VecHeard /\ VecSent
    BY <1>2, <1>3 DEF VecHeard, VecSent, Latest
  <2>10. ~C!Writing
    BY <2>1, <2>4, Flying
  <2> QED BY <1>2, <1>4, <2>5, <2>6, <2>7, <2>8, <2>9, <2>10 DEF ContentInv, VecInv, Lap
<1>5. CASE type = "Collection"
  <2>1. /\ wires = [p \in C!Pairs |-> <<>>]
        /\ hist = [n \in Nodes |-> [i \in C!Ids |->
                     IF n = Owner /\ i = 0 THEN C!Structural(n) ELSE None]]
    BY <1>5 DEF C!Init
  <2>2. \A p \in C!Pairs : wires[p] = <<>> /\ On(wires, p) = {}
    BY <2>1, <1>3
  <2>3. 0 \in C!Ids /\ C!Structural(Owner) \in C!Entry /\ C!Structural(Owner) # None
        /\ C!Structural(Owner).op = "Structural"
    BY <1>1, Entries DEF C!Ids, C!Structural
  <2>4. ColTyped
    <3>1. hist \in [Nodes -> History]
      BY <1>1, <2>1, <2>3 DEF History
    <3>2. tables \in [Nodes -> RowTable] /\ erased \in [Nodes -> C!Ids \union {None}]
      BY <1>2 DEF RowTable
    <3>3. wires \in [C!Pairs -> Seq(CMsg)]
      BY <2>1
    <3>4. ready \subseteq has /\ has \subseteq Nodes /\ Owner \in ready
      BY <1>1, <1>2
    <3>5. answers \in [Nodes -> Nat] /\ crossed \in BOOLEAN
      BY <1>2
    <3>7. count \in 0 .. MaxWrites
      BY <1>1, <1>2
    <3>6. \A n \in Nodes : packages[n] = <<>>
      BY <1>2
    <3> QED BY <3>1, <3>2, <3>3, <3>4, <3>5, <3>6, <3>7 DEF ColTyped
  <2>5. ColAsked
    BY <1>1, <1>2, <1>3, <2>1, <2>2, <2>3 DEF ColAsked
  <2>6. ColHeard
    <3>1. TableOf(hist[Owner]) = [i \in C!Ids |-> None]
      BY <1>1, <2>1, <2>3 DEF TableOf
    <3>2. tables[Owner] = TableOf(hist[Owner])
      BY <1>1, <1>2, <3>1
    <3> QED BY <3>2, <1>2 DEF ColHeard
  <2>7. ColSent
    BY <2>2 DEF ColSent
  <2>8. ~C!Writing
    BY <2>2, Flying
  <2> QED BY <1>2, <1>5, <2>4, <2>5, <2>6, <2>7, <2>8 DEF ContentInv, ColInv, Lap
<1> QED BY <1>1, <1>4, <1>5

LEMMA ContentStep == ASSUME C!ContentAssumption, ContentInv, [C!Next]_(C!vars) PROVE ContentInv'
<1>1. CASE UNCHANGED C!vars
  <2>1. Lap'
    BY <1>1 DEF C!vars, ContentInv, Lap, C!Fetching, C!Writing, C!InFlight
  <2>2. ASSUME VecInv PROVE VecInv'
    <3>1. Calm
      BY <1>1, <2>2 DEF C!vars, Calm, VecInv, VecOrder
    <3>2. VecTyped' /\ VecRows'
      BY <1>1, <2>2 DEF C!vars, VecInv, VecTyped, VecRows, Genuine
    <3>3. VecWrites' /\ VecOrder'
      BY <2>2, <3>1, <3>2, CalmOrder DEF VecInv
    <3>4. VecGuard' => VecGuard
      BY <1>1 DEF C!vars, VecGuard, C!Tie, C!ContestedRemoval
    <3>5. VecHeard => VecHeard'
      BY <1>1, <2>2, <3>1, CalmHeard DEF C!vars, VecInv
    <3>6. VecSent => VecSent'
      BY <1>1 DEF C!vars, VecSent, Latest
    <3> QED BY <2>2, <3>2, <3>3, <3>4, <3>5, <3>6 DEF VecInv
  <2>3. ASSUME ColInv PROVE ColInv'
    <3>1. ColTyped'
      BY <1>1, <2>3 DEF C!vars, ColInv, ColTyped
    <3>2. ColAsked'
      BY <1>1, <2>3 DEF C!vars, ColInv, ColAsked, RowsComing
    <3>3. ColGuard' => ColGuard
      BY <1>1 DEF C!vars, ColGuard, C!OnlyAdds
    <3>4. ColHeard => ColHeard'
      BY <1>1, <2>3, ColStill DEF C!vars, ColInv
    <3>5. ColSent => ColSent'
      BY <1>1 DEF C!vars, ColSent, TableOf
    <3> QED BY <2>3, <3>1, <3>2, <3>3, <3>4, <3>5 DEF ColInv
  <2>4. type' = type
    BY <1>1 DEF C!vars
  <2> QED BY <2>1, <2>2, <2>3, <2>4 DEF ContentInv
<1>2. CASE C!Next
  <2>1. type' = type /\ C!Noted
    <3>1. ASSUME NEW m, NEW n, \/ C!Ask(m, n) \/ C!HandleRequest(m, n) \/ C!HandlePackage(m, n)
          PROVE  type' = type /\ C!Noted
      BY <3>1 DEF C!Ask, C!HandleRequest, C!HandlePackage
    <3>2. ASSUME NEW m, NEW n, C!HandleHistory(m, n) \/ C!HandleRows(m, n)
          PROVE  type' = type /\ C!Noted
      BY <3>2 DEF C!HandleHistory, C!HandleRows
    <3>3. ASSUME NEW m, NEW n, C!HandleAdd(m, n) \/ C!HandleChange(m, n)
          PROVE  type' = type /\ C!Noted
      BY <3>3 DEF C!HandleAdd, C!HandleChange
    <3>4. ASSUME NEW n, NEW k, C!AddVectorRow(n, k) \/ C!RemoveVectorRow(n, k)
          PROVE  type' = type /\ C!Noted
      BY <3>4 DEF C!AddVectorRow, C!RemoveVectorRow, C!Stored
    <3>5. ASSUME NEW n, NEW i,
                 C!RunPackage(n) \/ C!AddRow(n) \/ C!UpdateRow(n, i) \/ C!RemoveRow(n, i)
          PROVE  type' = type /\ C!Noted
      BY <3>5 DEF C!RunPackage, C!AddRow, C!UpdateRow, C!RemoveRow, C!Changed
    <3> QED BY <1>2, <3>1, <3>2, <3>3, <3>4, <3>5 DEF C!Next
  <2>2. Lap /\ Lap' /\ type \in {"Vector", "Collection"}
    BY <2>1, Noting DEF ContentInv, Lap
  <2>3. CASE type = "Vector"
    <3>1. VecInv
      BY <2>3 DEF ContentInv
    <3>2. \A p \in C!Pairs : wires[p] # <<>> =>
              Head(wires[p]).kind \in {"Request", "Package", "Add"}
      <4> TAKE p \in C!Pairs
      <4>1. wires[p] \in Seq(VMsg)
        BY <3>1 DEF VecInv, VecTyped
      <4>2. wires[p] # <<>> => Head(wires[p]) \in VMsg
        BY <4>1, QueueFacts
      <4> QED BY <4>2, Messages
    <3>3. /\ \A n \in Nodes : ~C!AddRow(n)
          /\ \A n \in Nodes, i \in C!Ids : ~C!UpdateRow(n, i) /\ ~C!RemoveRow(n, i)
      BY <2>3 DEF C!AddRow, C!UpdateRow, C!RemoveRow, C!Changed
    <3>4. \A p \in C!Pairs : /\ ~C!HandleHistory(p[1], p[2]) /\ ~C!HandleRows(p[1], p[2])
                             /\ ~C!HandleChange(p[1], p[2])
      <4> TAKE p \in C!Pairs
      <4>1. p = <<p[1], p[2]>>
        BY DEF C!Pairs
      <4> QED BY <4>1, <3>2 DEF C!HandleHistory, C!HandleRows, C!HandleChange
    <3>5. ASSUME NEW n \in Nodes, NEW k \in Keys, C!AddVectorRow(n, k) \/ C!RemoveVectorRow(n, k)
          PROVE  VecInv'
      <4>1. PICK t \in 1 .. MaxTime, l \in BOOLEAN :
              C!Stored(n, k, [by |-> n, t |-> t, live |-> l, v |-> count + 1])
        BY <3>5 DEF C!AddVectorRow, C!RemoveVectorRow
      <4>2. PICK r : r = [by |-> n, t |-> t, live |-> l, v |-> count + 1]
        OBVIOUS
      <4>3. n \in has /\ count < MaxWrites /\ count \in Nat /\ MaxWrites \in Nat
        BY <3>1, <3>5, <4>1 DEF C!AddVectorRow, C!RemoveVectorRow, C!Stored, VecInv, VecTyped,
                                C!ContentAssumption
      <4>4. r \in C!Row /\ r.by = n /\ r.v = count + 1
        BY <4>2, <4>3 DEF C!Row
      <4> QED BY <3>1, <4>1, <4>2, <4>3, <4>4, <2>2, VecStored
    <3>6. ASSUME \E p \in C!Pairs : \/ C!Ask(p[1], p[2]) \/ C!HandleRequest(p[1], p[2])
                                    \/ C!HandlePackage(p[1], p[2]) \/ C!HandleAdd(p[1], p[2])
          PROVE  VecInv'
      BY <3>1, <3>6, <2>2, <2>3, VecAsk, VecHandleRequest, VecHandlePackage, VecHandleAdd
    <3>7. ASSUME \E n \in Nodes : C!RunPackage(n) PROVE VecInv'
      BY <3>1, <3>7, <2>2, VecRunPackage
    <3>8. VecInv'
      BY <1>2, <3>3, <3>4, <3>5, <3>6, <3>7 DEF C!Next
    <3> QED BY <3>8, <2>1, <2>2, <2>3 DEF ContentInv
  <2>4. CASE type = "Collection"
    <3>1. ColInv
      BY <2>4 DEF ContentInv
    <3>2. \A p \in C!Pairs : wires[p] # <<>> =>
              Head(wires[p]).kind \in {"Request", "History", "Rows", "Change"}
      <4> TAKE p \in C!Pairs
      <4>1. wires[p] \in Seq(CMsg)
        BY <3>1 DEF ColInv, ColTyped
      <4>2. wires[p] # <<>> => Head(wires[p]) \in CMsg
        BY <4>1, QueueFacts
      <4> QED BY <4>2, CMessages
    <3>3. /\ \A n \in Nodes, k \in Keys : ~C!AddVectorRow(n, k) /\ ~C!RemoveVectorRow(n, k)
          /\ \A n \in Nodes : ~C!RunPackage(n)
      BY <2>4, <3>1 DEF C!AddVectorRow, C!RemoveVectorRow, C!RunPackage, ColInv, ColTyped
    <3>4. \A p \in C!Pairs : ~C!HandlePackage(p[1], p[2]) /\ ~C!HandleAdd(p[1], p[2])
      <4> TAKE p \in C!Pairs
      <4>1. p = <<p[1], p[2]>>
        BY DEF C!Pairs
      <4> QED BY <4>1, <3>2 DEF C!HandlePackage, C!HandleAdd
    <3>5. ASSUME \E p \in C!Pairs : \/ C!Ask(p[1], p[2]) \/ C!HandleRequest(p[1], p[2])
                                    \/ C!HandleHistory(p[1], p[2]) \/ C!HandleRows(p[1], p[2])
                                    \/ C!HandleChange(p[1], p[2])
          PROVE  ColInv'
      BY <3>1, <3>5, <2>2, <2>4, ColAsk, ColHandleRequest, ColHandleHistory, ColHandleRows,
         ColHandleChange
    <3>6. ASSUME \/ \E n \in Nodes : C!AddRow(n)
                 \/ \E n \in Nodes, i \in C!Ids : C!UpdateRow(n, i) \/ C!RemoveRow(n, i)
          PROVE  ColInv'
      BY <3>1, <3>6, <2>2, ColAddRow, ColUpdateRow, ColRemoveRow
    <3>7. ColInv'
      BY <1>2, <3>3, <3>4, <3>5, <3>6 DEF C!Next
    <3> QED BY <3>7, <2>1, <2>2, <2>4 DEF ContentInv
  <2> QED BY <2>2, <2>3, <2>4
<1> QED BY <1>1, <1>2

LEMMA ContentAgrees == ASSUME C!ContentAssumption, ContentInv PROVE C!CopiesAgree
<1>1. ASSUME type = "Vector", C!Quiet, ~overlap, ~C!Tie, ~C!ContestedRemoval,
             NEW m \in has, NEW n \in has
      PROVE  vec[m] = vec[n]
  <2>1. VecInv /\ VecHeard
    BY <1>1 DEF ContentInv, VecInv, VecGuard
  <2>2. /\ has \subseteq Nodes /\ vec[m] \in Content /\ vec[n] \in Content /\ None \notin C!Row
    BY <2>1 DEF VecInv, VecTyped, C!ContentAssumption
  <2>3. ASSUME NEW u \in writes, NEW s \in Nodes PROVE ~Coming(u, s)
    <3>1. u.row.by \in Nodes /\ Add(u).kind = "Add"
      BY <2>1, Writes, Rows DEF VecInv
    <3>2. u.row.by # s => <<u.row.by, s>> \in C!Pairs
      BY <3>1 DEF C!Pairs
    <3> QED BY <3>1, <3>2, <1>1, Flying DEF Coming, C!Quiet
  <2>4. ASSUME NEW a \in has, NEW b \in has, NEW k \in Keys, vec[a][k] # None
        PROVE  vec[b][k] # None /\ vec[a][k].v <= vec[b][k].v
    <3>1. W(k, vec[a][k]) \in writes
      BY <2>1, <2>2, <2>4 DEF VecInv, VecRows, Genuine
    <3> QED BY <3>1, <2>1, <2>2, <2>3 DEF VecHeard, W
  <2>5. ASSUME NEW k \in Keys PROVE vec[m][k] = vec[n][k]
    <3>1. CASE vec[m][k] = None
      BY <3>1, <2>4
    <3>2. CASE vec[m][k] # None
      <4>1. /\ vec[n][k] # None /\ vec[m][k].v <= vec[n][k].v /\ vec[n][k].v <= vec[m][k].v
        BY <3>2, <2>4
      <4>2. vec[m][k] \in C!Row /\ vec[n][k] \in C!Row
        BY <3>2, <4>1, <2>2 DEF Content
      <4>3. vec[m][k].v = vec[n][k].v
        BY <4>1, <4>2, Rows
      <4>4. W(k, vec[m][k]) \in writes /\ W(k, vec[n][k]) \in writes
        BY <3>2, <4>1, <2>1, <2>2 DEF VecInv, VecRows, Genuine
      <4> QED BY <4>3, <4>4, <2>1 DEF VecInv, VecWrites, W
    <3> QED BY <3>1, <3>2
  <2> QED BY <2>2, <2>5 DEF Content
<1>2. ASSUME type = "Collection", C!Quiet, ~overlap, ~crossed, C!OnlyAdds,
             \A s \in Nodes : answers[s] <= 1, NEW m \in has, NEW n \in has
      PROVE  hist[m] = hist[n] /\ tables[m] = tables[n]
  <2>1. ColInv /\ ColHeard
    BY <1>2 DEF ContentInv, ColInv, ColGuard
  <2>2. /\ has \subseteq Nodes /\ hist[m] \in History /\ hist[n] \in History
        /\ None \notin C!Entry
    BY <2>1, Entries DEF ColInv, ColTyped
  <2>3. \A p \in C!Pairs : \A x \in On(wires, p) : x.kind \notin {"Rows", "Change"}
    BY <1>2, Flying DEF C!Quiet
  <2>4. /\ \A s, i, e : ~Announced(s, i, e)
        /\ \A s : ~RowsComing(s)
    BY <2>3 DEF Announced, Change, RowsComing
  <2>5. m \in ready /\ n \in ready
    BY <2>1, <2>4 DEF ColInv, ColAsked
  <2>6. ASSUME NEW i \in C!Ids PROVE hist[m][i] = hist[n][i]
    <3>1. hist[m][i] \in C!Entry \union {None} /\ hist[n][i] \in C!Entry \union {None}
      BY <2>2 DEF History
    <3>2. /\ hist[m][i] \in C!Entry => hist[n][i] = hist[m][i]
          /\ hist[n][i] \in C!Entry => hist[m][i] = hist[n][i]
      BY <2>1, <2>4 DEF ColHeard
    <3> QED BY <3>1, <3>2
  <2>7. hist[m] = hist[n]
    BY <2>2, <2>6 DEF History
  <2> QED BY <2>1, <2>5, <2>7 DEF ColHeard
<1> QED BY <1>1, <1>2 DEF C!CopiesAgree, C!VectorsAgree, C!CollectionsAgree

(* Content is fetched from holders alone, a copy has the last of the writes it
   has heard of, and what it has not heard of is on its way to it. *)
THEOREM ContentInvariance == C!Spec => []ContentInv
<1>1. C!Init => ContentInv
  BY ContentStart, ContentAssumed
<1>2. ContentInv /\ [C!Next]_(C!vars) => ContentInv'
  BY ContentStep, ContentAssumed
<1> QED BY <1>1, <1>2, PTL DEF C!Spec

(* When nothing is on its way the copies of a file agree, with the exceptions of
   its type: whatever order the broadcasts of several writers and the answers to
   late requests came in (insert_or_replace by time, INSERT OR IGNORE by id). *)
THEOREM CopiesSame == C!Spec => []CopiesAgree
<1>1. C!Spec => []ContentInv
  BY ContentInvariance
<1>2. ContentInv => CopiesAgree
  BY ContentAgrees, ContentAssumed DEF CopiesAgree
<1> QED BY <1>1, <1>2, PTL
==============================================================================
