--------------------------- MODULE NodeProcessProofs ---------------------------
(***************************************************************************)
(* Proofs about NodeProcess and the databases it shares:                   *)
(*   - the cache of reputations has no stale value;                        *)
(*   - the cached balances are those of one section;                       *)
(*   - the node is there as long as anything runs that uses it.            *)
(* The first two rest on an invariant of the tables alone, which no other  *)
(* step of the process touches.                                            *)
(***************************************************************************)
EXTENDS NodeProcess, TLAPS

Sections == 1 .. MaxSection
Whats == {"update", "light"}

(* What a thread can be doing: Calls of the reputations and of the balances. *)
ReputationCalls ==
         [step : {"select"}, key : Nodes, generation : Nat]
  \union [step : {"remember"}, key : Nodes, generation : Nat, value : Values]
  \union [step : {"write"}, op : {"update"}, keys : SUBSET Nodes]
  \union [step : {"write"}, op : {"expire"}, keys : {Nodes}]
  \union [step : {"invalidate"}, keys : SUBSET Nodes]

WaitingCalls == [step : {"init", "reset", "mutex"}, what : Whats, to : Sections]

WritingCalls ==
  [step : {"balances"}, what : Whats, to : Sections, todo : SUBSET Pairs,
   base : [Pairs -> 0 .. Wrong], from : 0 .. MaxSection]

Calls == {Idle} \union ReputationCalls \union WaitingCalls \union WritingCalls

TableTypes ==
  /\ call \in [Threads -> Calls]
  /\ row \in [Nodes -> Values \union {None}] /\ old \subseteq Nodes
  /\ cache \in [Nodes -> Values \union {None}] /\ generation \in Nat
  /\ mutex \in Threads \union {None}
  /\ balance \in [Pairs -> 0 .. Wrong] /\ section \in 0 .. MaxSection
  /\ behind \in BOOLEAN

(* A writer of k is between its statement and its second invalidation. *)
Pending(k) == \E t \in Threads : At(t, "invalidate") /\ k \in call[t].keys

(* A reader that will be believed holds the committed value, like the cache. *)
Current ==
  /\ \A k \in Nodes : cache[k] # None /\ cache[k] # row[k] => Pending(k)
  /\ \A t \in Threads : At(t, "select") \/ At(t, "remember") => call[t].generation <= generation
  /\ \A t \in Threads :
       At(t, "remember") /\ call[t].generation = generation /\ call[t].value # row[call[t].key]
         => Pending(call[t].key)

(* mutex_ is held by the one thread that writes balances. *)
OneWriter == \A t \in Threads : At(t, "balances") <=> mutex = t

Later(s) == IF s > section THEN s ELSE section

(* It started from rows of one section, and leaves rows of the section that
   will be cached. *)
Writes(c) ==
  /\ c.from = section /\ \A p \in Pairs : c.base[p] = section
  /\ c.todo # {} => c.to >= section
  /\ \A p \in Pairs \ c.todo : balance[p] = Later(c.to)

Explained ==
  ~behind =>
    /\ mutex = None => \A p \in Pairs : balance[p] = section
    /\ \A t \in Threads : At(t, "balances") => Writes(call[t])

TableInv == TableTypes /\ Current /\ OneWriter /\ Explained

(* Who uses the node, and where the loop then is. *)
Users ==
  /\ body # None => loop = "exec"
  /\ working # {} => loop \in {"exec", "left", "cleared", "stopping"}
  /\ \A t \in Threads : call[t] # Idle => (t = Loop /\ body # None) \/ t \in working

LifeInv == ~crashed => Users

------------------------------------------------------------------------------
(* What the step of a call says of the call. *)
LEMMA Shapes ==
  ASSUME NEW c \in Calls
  PROVE  /\ c.step = "select" => c.key \in Nodes /\ c.generation \in Nat
         /\ c.step = "remember" => c.key \in Nodes /\ c.generation \in Nat /\ c.value \in Values
         /\ c.step = "write" => c.keys \subseteq Nodes /\ (c.op = "expire" => c.keys = Nodes)
         /\ c.step = "invalidate" => c.keys \subseteq Nodes
         /\ c.step \in {"init", "reset", "mutex"} => c \in WaitingCalls
         /\ c.step = "balances" => c \in WritingCalls
  BY DEF Calls, Idle, ReputationCalls, WaitingCalls, WritingCalls

(* A call about reputations leaves the balances explained. *)
LEMMA BalanceFrame ==
  ASSUME TableInv, NEW t \in Threads, NEW c \in Calls, call' = [call EXCEPT ![t] = c],
         UNCHANGED <<mutex, balance, section, behind>>,
         call[t].step # "balances", c.step # "balances"
  PROVE  OneWriter' /\ Explained'
<1>1. /\ mutex' = mutex /\ balance' = balance /\ section' = section /\ behind' = behind
      /\ call \in [Threads -> Calls]
  BY DEF TableInv, TableTypes
<1>2. \A u \in Threads : At(u, "balances")' <=> At(u, "balances")
  BY <1>1 DEF At
<1>3. \A u \in Threads : At(u, "balances") => call'[u] = call[u]
  BY <1>1 DEF At
<1>4. OneWriter'
  BY <1>1, <1>2 DEF OneWriter, TableInv
<1>5. ASSUME NEW d PROVE Writes(d)' <=> Writes(d)
  BY <1>1 DEF Writes, Later
<1>6. Explained'
  BY <1>1, <1>2, <1>3, <1>5 DEF Explained, TableInv
<1> QED BY <1>4, <1>6

(* A call about balances, or the end of a reading, leaves the cache right. *)
LEMMA ReputationFrame ==
  ASSUME TableInv, NEW t \in Threads, NEW c \in Calls, call' = [call EXCEPT ![t] = c],
         UNCHANGED reputation, call[t].step # "invalidate", c.step \notin {"select", "remember"}
  PROVE  Current'
<1>1. /\ row' = row /\ cache' = cache /\ generation' = generation
      /\ call \in [Threads -> Calls]
  BY DEF reputation, TableInv, TableTypes
<1>2. \A k : Pending(k) => Pending(k)'
  BY <1>1 DEF Pending, At
<1>3. \A u \in Threads : At(u, "select")' \/ At(u, "remember")' => call'[u] = call[u]
  BY <1>1 DEF At
<1>4. \A k \in Nodes : (cache[k] # None /\ cache[k] # row[k] => Pending(k))'
  BY <1>1, <1>2 DEF Current, TableInv
<1>5. \A u \in Threads : At(u, "select")' \/ At(u, "remember")' => call'[u].generation <= generation'
  BY <1>1, <1>3 DEF Current, TableInv, At
<1>6. ASSUME NEW u \in Threads,
             (At(u, "remember") /\ call[u].generation = generation /\ call[u].value # row[call[u].key])'
      PROVE  Pending(call[u].key)'
  <2>1. call'[u] = call[u] /\ At(u, "remember")
    BY <1>3, <1>6 DEF At
  <2>2. Pending(call[u].key)
    BY <1>1, <1>6, <2>1 DEF Current, TableInv
  <2>3. Pending(call[u].key) => Pending(call[u].key)'
    BY <2>1, <1>1 DEF Pending, At
  <2> QED BY <2>2, <2>3
<1> QED BY <1>4, <1>5, <1>6 DEF Current

LEMMA InitTables ==
  ASSUME Init PROVE TableInv
<1>1. TableTypes
  <2>1. Idle \in Calls
    BY DEF Calls
  <2>2. call \in [Threads -> Calls]
    BY <2>1 DEF Init
  <2>3. /\ row \in [Nodes -> Values \union {None}] /\ old \subseteq Nodes
        /\ cache \in [Nodes -> Values \union {None}] /\ generation \in Nat
    BY DatabaseAssumption DEF Init, Values
  <2>4. /\ mutex \in Threads \union {None} /\ behind \in BOOLEAN
        /\ balance \in [Pairs -> 0 .. Wrong] /\ section \in 0 .. MaxSection
    <3>1. 0 \in 0 .. Wrong /\ 0 \in 0 .. MaxSection
      BY DatabaseAssumption DEF Wrong
    <3> QED BY <3>1 DEF Init
  <2> QED BY <2>2, <2>3, <2>4 DEF TableTypes
<1>2. Current
  BY DEF Init, Current, At, Idle
<1>3. OneWriter
  BY DatabaseAssumption DEF Init, OneWriter, At, Idle
<1>4. Explained
  BY DEF Init, Explained, At, Idle
<1> QED BY <1>1, <1>2, <1>3, <1>4 DEF TableInv

(* Reputations. *)
LEMMA ReadStep ==
  ASSUME TableInv, NEW t \in Threads, NEW k \in Nodes, ReadLuminance(t, k)
  PROVE  TableInv'
<1> DEFINE c == [step |-> "select", key |-> k, generation |-> generation]
<1>1. /\ call[t] = Idle /\ call' = [call EXCEPT ![t] = c] /\ UNCHANGED <<reputation, balances>>
  BY DEF ReadLuminance, Begins, Free
<1>2. c \in Calls
  BY DEF TableInv, TableTypes, Calls, ReputationCalls
<1>3. TableTypes'
  BY <1>1, <1>2 DEF TableInv, TableTypes, reputation, balances
<1>4. OneWriter' /\ Explained'
  <2>1. call[t].step = "idle" /\ c.step = "select" /\ UNCHANGED <<mutex, balance, section, behind>>
    BY <1>1 DEF Idle, balances
  <2> HIDE DEF c
  <2> QED BY <1>1, <1>2, <2>1, BalanceFrame
<1>5. Current'
  <2>1. \A u \in Threads : call'[u] = IF u = t THEN c ELSE call[u]
    BY <1>1 DEF TableInv, TableTypes
  <2>2. /\ row' = row /\ cache' = cache /\ generation' = generation /\ generation \in Nat
    BY <1>1 DEF reputation, TableInv, TableTypes
  <2>3. \A j : Pending(j) => Pending(j)'
    BY <1>1, <2>1 DEF Pending, At, Idle
  <2>4. \A j \in Nodes : (cache[j] # None /\ cache[j] # row[j] => Pending(j))'
    BY <2>2, <2>3 DEF Current, TableInv
  <2>5. \A u \in Threads : (At(u, "select") \/ At(u, "remember") => call[u].generation <= generation)'
    BY <2>1, <2>2 DEF Current, TableInv, At
  <2>6. ASSUME NEW u \in Threads,
               (At(u, "remember") /\ call[u].generation = generation /\ call[u].value # row[call[u].key])'
        PROVE  Pending(call[u].key)'
    <3>1. call'[u] = call[u] /\ At(u, "remember")
      BY <2>1, <2>6 DEF At
    <3>2. Pending(call[u].key)
      BY <2>2, <2>6, <3>1 DEF Current, TableInv
    <3>3. Pending(call[u].key) => Pending(call[u].key)'
      BY <3>1, <2>1, <1>1 DEF Pending, At, Idle
    <3> QED BY <3>2, <3>3
  <2> QED BY <2>4, <2>5, <2>6 DEF Current
<1> QED BY <1>3, <1>4, <1>5 DEF TableInv

LEMMA SelectStep ==
  ASSUME TableInv, NEW t \in Threads, Select(t)
  PROVE  TableInv'
<1> USE DEF TableInv
<1>1. At(t, "select") /\ UNCHANGED <<reputation, balances>> /\ call \in [Threads -> Calls]
  BY DEF Select, TableTypes
<1>2. CASE Moves(t, Idle)
  <2>1. Idle \in Calls /\ call' = [call EXCEPT ![t] = Idle]
    BY <1>2 DEF Calls, Moves
  <2>2. TableTypes'
    BY <1>1, <2>1 DEF TableTypes, reputation, balances
  <2>3. call[t].step = "select" /\ Idle.step = "idle" /\ UNCHANGED <<mutex, balance, section, behind>>
    BY <1>1 DEF At, Idle, balances
  <2>4. OneWriter' /\ Explained'
    BY <2>1, <2>3, BalanceFrame
  <2>5. Current'
    BY <1>1, <2>1, <2>3, ReputationFrame
  <2> QED BY <2>2, <2>4, <2>5
<1>3. CASE ~Moves(t, Idle)
  <2> DEFINE c == [step |-> "remember", key |-> call[t].key, generation |-> call[t].generation,
                   value |-> row[call[t].key]]
  <2>1. /\ row[call[t].key] # None /\ call' = [call EXCEPT ![t] = c]
    BY <1>3 DEF Select, Moves
  <2>2. call[t].key \in Nodes /\ call[t].generation \in Nat
    BY <1>1, Shapes DEF At
  <2>3. row[call[t].key] \in Values
    BY <2>1, <2>2 DEF TableTypes
  <2>4. c \in Calls
    BY <2>2, <2>3 DEF Calls, ReputationCalls
  <2>5. TableTypes'
    BY <1>1, <2>1, <2>4 DEF TableTypes, reputation, balances
  <2>6. OneWriter' /\ Explained'
    BY <1>1, <2>1, <2>4, BalanceFrame DEF At, balances
  <2>7. \A u \in Threads : call'[u] = IF u = t THEN c ELSE call[u]
    BY <1>1, <2>1
  <2>8. /\ row' = row /\ cache' = cache /\ generation' = generation
    BY <1>1 DEF reputation
  <2>9. \A j : Pending(j) => Pending(j)'
    BY <1>1, <2>7 DEF Pending, At
  <2>10. \A j \in Nodes : (cache[j] # None /\ cache[j] # row[j] => Pending(j))'
    BY <2>8, <2>9 DEF Current
  <2>11. \A u \in Threads : (At(u, "select") \/ At(u, "remember") => call[u].generation <= generation)'
    BY <1>1, <2>7, <2>8 DEF Current, At
  <2>12. ASSUME NEW u \in Threads,
                (At(u, "remember") /\ call[u].generation = generation /\ call[u].value # row[call[u].key])'
         PROVE  Pending(call[u].key)'
    <3>1. u # t
      BY <2>7, <2>8, <2>12
    <3>2. call'[u] = call[u] /\ At(u, "remember")
      BY <2>7, <2>12, <3>1 DEF At
    <3>3. Pending(call[u].key)
      BY <2>8, <2>12, <3>2 DEF Current
    <3>4. Pending(call[u].key) => Pending(call[u].key)'
      BY <3>2, <2>7, <1>1 DEF Pending, At
    <3> QED BY <3>3, <3>4
  <2> QED BY <2>5, <2>6, <2>10, <2>11, <2>12 DEF Current
<1> QED BY <1>2, <1>3

LEMMA RememberStep ==
  ASSUME TableInv, NEW t \in Threads, Remember(t)
  PROVE  TableInv'
<1> USE DEF TableInv
<1>1. /\ At(t, "remember") /\ call \in [Threads -> Calls] /\ call' = [call EXCEPT ![t] = Idle]
      /\ UNCHANGED <<row, old, generation, balances>>
  BY DEF Remember, TableTypes, Moves
<1>2. call[t].key \in Nodes /\ call[t].value \in Values
  BY <1>1, Shapes DEF At
<1>3. /\ Idle \in Calls /\ cache \in [Nodes -> Values \union {None}]
  BY DEF Calls, TableTypes
<1>4. /\ cache' \in [Nodes -> Values \union {None}]
      /\ \A j \in Nodes : cache'[j] \in {cache[j], None}
           \/ (call[t].generation = generation /\ j = call[t].key /\ cache'[j] = call[t].value)
  BY <1>2, <1>3 DEF Remember, Remembered, UnchangedSince
<1>5. TableTypes'
  BY <1>1, <1>3, <1>4 DEF TableTypes, balances
<1>6. OneWriter' /\ Explained'
  BY <1>1, <1>3, BalanceFrame DEF At, Idle, balances
<1>7. \A u \in Threads : call'[u] = IF u = t THEN Idle ELSE call[u]
  BY <1>1
<1>8. \A j : Pending(j) => Pending(j)'
  BY <1>1, <1>7 DEF Pending, At
<1>9. \A j \in Nodes : (cache[j] # None /\ cache[j] # row[j] => Pending(j))'
  BY <1>1, <1>4, <1>8 DEF Current
<1>10. \A u \in Threads : (At(u, "select") \/ At(u, "remember") => call[u].generation <= generation)'
  BY <1>1, <1>7 DEF Current, At, Idle
<1>11. ASSUME NEW u \in Threads,
              (At(u, "remember") /\ call[u].generation = generation /\ call[u].value # row[call[u].key])'
       PROVE  Pending(call[u].key)'
  <2>1. call'[u] = call[u] /\ At(u, "remember")
    BY <1>7, <1>11 DEF At, Idle
  <2>2. Pending(call[u].key)
    BY <1>1, <1>11, <2>1 DEF Current
  <2>3. Pending(call[u].key) => Pending(call[u].key)'
    BY <2>1, <1>7, <1>1 DEF Pending, At
  <2> QED BY <2>2, <2>3
<1> QED BY <1>5, <1>6, <1>9, <1>10, <1>11 DEF Current

(* Both writers invalidate before their statement. *)
LEMMA WriteStep ==
  ASSUME TableInv, NEW t \in Threads, NEW op, NEW keys \in SUBSET Nodes,
         op = "update" \/ (op = "expire" /\ keys = Nodes), WriteLuminance(t, op, keys)
  PROVE  TableInv'
<1> USE DEF TableInv
<1> DEFINE c == [step |-> "write", op |-> op, keys |-> keys]
<1>1. /\ call[t] = Idle /\ call' = [call EXCEPT ![t] = c] /\ UNCHANGED <<row, old, balances>>
      /\ generation' = generation + 1
      /\ cache' = [k \in Nodes |-> IF k \in keys THEN None ELSE cache[k]]
  BY DEF WriteLuminance, Begins, Free, Invalidate
<1>2. c \in Calls
  BY DEF Calls, ReputationCalls
<1>3. c.step = "write" /\ call[t].step = "idle" /\ call \in [Threads -> Calls] /\ generation \in Nat
  BY <1>1 DEF Idle, TableTypes
<1> HIDE DEF c
<1>4. TableTypes'
  BY <1>1, <1>2, <1>3 DEF TableTypes, balances
<1>5. OneWriter' /\ Explained'
  BY <1>1, <1>2, <1>3, BalanceFrame DEF balances
<1>6. \A u \in Threads : call'[u] = IF u = t THEN c ELSE call[u]
  BY <1>1, <1>3
<1>7. \A j : Pending(j) => Pending(j)'
  BY <1>3, <1>6 DEF Pending, At
<1>8. \A j \in Nodes : (cache[j] # None /\ cache[j] # row[j] => Pending(j))'
  BY <1>1, <1>7 DEF Current
<1>9. \A u \in Threads : (At(u, "select") \/ At(u, "remember"))' =>
         call'[u].generation \in Nat /\ call'[u].generation < generation'
  <2> SUFFICES ASSUME NEW u \in Threads, (At(u, "select") \/ At(u, "remember"))'
               PROVE  call'[u].generation \in Nat /\ call'[u].generation < generation'
    OBVIOUS
  <2>1. call'[u] = call[u] /\ (At(u, "select") \/ At(u, "remember"))
    BY <1>3, <1>6 DEF At
  <2>2. call[u].generation \in Nat
    BY <1>3, <2>1, Shapes DEF At
  <2> QED BY <1>1, <1>3, <2>1, <2>2 DEF Current
<1> QED BY <1>1, <1>3, <1>4, <1>5, <1>8, <1>9 DEF Current, At

LEMMA QueryStep ==
  ASSUME TableInv, NEW t \in Threads, Query(t)
  PROVE  TableInv'
<1> USE DEF TableInv
<1> DEFINE c == [step |-> "invalidate", keys |-> call[t].keys]
<1>1. /\ At(t, "write") /\ call' = [call EXCEPT ![t] = c] /\ call \in [Threads -> Calls]
      /\ UNCHANGED <<cache, generation, balances>>
  BY DEF Query, Moves, TableTypes
<1>2. call[t].keys \subseteq Nodes /\ (call[t].op = "expire" => call[t].keys = Nodes)
  BY <1>1, Shapes DEF At
<1>3. c \in Calls
  BY <1>2 DEF Calls, ReputationCalls
<1>4. /\ row' \in [Nodes -> Values \union {None}] /\ old' \subseteq Nodes
      /\ \A k \in Nodes \ call[t].keys : row'[k] = row[k]
  <2>0. row \in [Nodes -> Values \union {None}] /\ old \subseteq Nodes
    BY DEF TableTypes
  <2>1. CASE UNCHANGED <<row, old>>
    BY <2>0, <2>1
  <2>2. CASE /\ call[t].op = "update"
             /\ \E k \in call[t].keys : \E v \in Updated(row[k]) \intersect Values :
                  row' = [row EXCEPT ![k] = v]
             /\ old' = old \ call[t].keys
    BY <2>0, <2>2, <1>2
  <2>3. CASE /\ call[t].op = "expire"
             /\ row' = [k \in Nodes |-> IF k \in old THEN None ELSE row[k]]
             /\ old' = {}
    BY <2>0, <2>3, <1>2
  <2> QED BY <2>1, <2>2, <2>3 DEF Query
<1>5. c.step = "invalidate" /\ c.keys = call[t].keys
  OBVIOUS
<1> HIDE DEF c
<1>6. TableTypes'
  BY <1>1, <1>3, <1>4 DEF TableTypes, balances
<1>7. OneWriter' /\ Explained'
  BY <1>1, <1>3, <1>5, BalanceFrame DEF At, balances
<1>8. \A u \in Threads : call'[u] = IF u = t THEN c ELSE call[u]
  BY <1>1
<1>9. /\ \A j : Pending(j) => Pending(j)'
      /\ \A j \in call[t].keys : Pending(j)'
  BY <1>1, <1>5, <1>8 DEF Pending, At
<1>10. \A j \in Nodes : (cache[j] # None /\ cache[j] # row[j] => Pending(j))'
  BY <1>1, <1>4, <1>9 DEF Current
<1>11. \A u \in Threads : (At(u, "select") \/ At(u, "remember") => call[u].generation <= generation)'
  BY <1>1, <1>5, <1>8 DEF Current, At
<1>12. ASSUME NEW u \in Threads,
              (At(u, "remember") /\ call[u].generation = generation /\ call[u].value # row[call[u].key])'
       PROVE  Pending(call[u].key)'
  <2>1. call'[u] = call[u] /\ At(u, "remember")
    BY <1>5, <1>8, <1>12 DEF At
  <2> DEFINE j == call[u].key
  <2>2. j \in Nodes
    BY <1>1, <2>1, Shapes DEF At
  <2>3. Pending(j) \/ j \in call[t].keys
    BY <1>1, <1>4, <1>12, <2>1, <2>2 DEF Current
  <2>4. \E s \in Threads : call'[s].step = "invalidate" /\ j \in call'[s].keys
    BY <2>3, <1>1, <1>5, <1>8 DEF Pending, At
  <2> QED BY <2>1, <2>4 DEF Pending, At
<1> QED BY <1>6, <1>7, <1>10, <1>11, <1>12 DEF Current

(* Whoever selected before is not believed after. *)
LEMMA InvalidateStep ==
  ASSUME TableInv, NEW t \in Threads, InvalidateAgain(t)
  PROVE  TableInv'
<1> USE DEF TableInv
<1>1. /\ At(t, "invalidate") /\ call' = [call EXCEPT ![t] = Idle] /\ UNCHANGED <<row, old, balances>>
      /\ generation' = generation + 1
      /\ cache' = [k \in Nodes |-> IF k \in call[t].keys THEN None ELSE cache[k]]
      /\ call \in [Threads -> Calls] /\ generation \in Nat
  BY DEF InvalidateAgain, Moves, Invalidate, TableTypes
<1>2. Idle \in Calls
  BY DEF Calls
<1>3. TableTypes'
  BY <1>1, <1>2 DEF TableTypes, balances
<1>4. OneWriter' /\ Explained'
  BY <1>1, <1>2, BalanceFrame DEF At, Idle, balances
<1>5. \A u \in Threads : call'[u] = IF u = t THEN Idle ELSE call[u]
  BY <1>1
<1>6. \A j : Pending(j) /\ j \notin call[t].keys => Pending(j)'
  BY <1>5 DEF Pending, At
<1>7. \A j \in Nodes : (cache[j] # None /\ cache[j] # row[j] => Pending(j))'
  BY <1>1, <1>6 DEF Current
<1>8. \A u \in Threads : (At(u, "select") \/ At(u, "remember"))' =>
         call'[u].generation \in Nat /\ call'[u].generation < generation'
  <2> SUFFICES ASSUME NEW u \in Threads, (At(u, "select") \/ At(u, "remember"))'
               PROVE  call'[u].generation \in Nat /\ call'[u].generation < generation'
    OBVIOUS
  <2>1. call'[u] = call[u] /\ (At(u, "select") \/ At(u, "remember"))
    BY <1>5 DEF At, Idle
  <2>2. call[u].generation \in Nat
    BY <1>1, <2>1, Shapes DEF At
  <2> QED BY <1>1, <2>1, <2>2 DEF Current
<1> QED BY <1>1, <1>3, <1>4, <1>7, <1>8 DEF Current, At

------------------------------------------------------------------------------
(* Balances: the calls before mutex_ is taken. *)
LEMMA WaitingStep ==
  ASSUME TableInv, NEW t \in Threads, NEW c \in WaitingCalls, call' = [call EXCEPT ![t] = c],
         call[t] = Idle \/ call[t] \in WaitingCalls,
         UNCHANGED <<reputation, mutex, balance, section, behind>>
  PROVE  TableInv'
<1>1. /\ call[t].step \notin {"invalidate", "balances"} /\ c \in Calls
      /\ c.step \notin {"select", "remember", "balances"}
  BY DEF WaitingCalls, Calls, Idle
<1>2. TableTypes'
  BY <1>1 DEF TableInv, TableTypes, reputation
<1>3. OneWriter' /\ Explained'
  BY <1>1, BalanceFrame
<1>4. Current'
  BY <1>1, ReputationFrame
<1> QED BY <1>2, <1>3, <1>4 DEF TableInv

LEMMA BeginBalanceCalls ==
  ASSUME TableInv, NEW t \in Threads, NEW s \in Sections, UpdateCache(t, s) \/ LightData(t, s)
  PROVE  TableInv'
<1>1. PICK c \in WaitingCalls : call' = [call EXCEPT ![t] = c]
  BY DEF UpdateCache, LightData, Begins, WaitingCalls, Whats
<1> QED BY <1>1, WaitingStep DEF UpdateCache, LightData, Begins, Free, balances

LEMMA DatabaseSteps ==
  ASSUME TableInv, NEW t \in Threads, ResetDb(t) \/ InitDb(t)
  PROVE  TableInv'
<1>1. call[t] \in Calls
  BY DEF TableInv, TableTypes
<1>2. call[t] \in WaitingCalls
  BY <1>1, Shapes DEF ResetDb, InitDb, At
<1>3. \A step \in {"init", "mutex"} : [call[t] EXCEPT !.step = step] \in WaitingCalls
  BY <1>2 DEF WaitingCalls
<1>4. PICK c \in WaitingCalls : call' = [call EXCEPT ![t] = c]
  BY <1>3 DEF ResetDb, InitDb, Goes, Moves
<1>5. UNCHANGED <<reputation, mutex, balance, section, behind>>
  BY DEF ResetDb, InitDb
<1> QED BY <1>2, <1>4, <1>5, WaitingStep

(* BEGIN under mutex_: light data below the cached section ends the promise. *)
LEMMA BeginStep ==
  ASSUME TableInv, NEW t \in Threads, BeginBalances(t)
  PROVE  TableInv'
<1> USE DEF TableInv
<1>1. /\ At(t, "mutex") /\ mutex = None /\ call \in [Threads -> Calls]
      /\ UNCHANGED <<reputation, balance, section>>
  BY DEF BeginBalances, Guarded, TableTypes
<1>2. call[t] \in WaitingCalls
  BY <1>1, Shapes DEF At
<1>3. CASE ~connector
  <2>1. UNCHANGED <<reputation, mutex, balance, section, behind, call>>
    BY <1>1, <1>3 DEF BeginBalances
  <2>2. call' = [call EXCEPT ![t] = call[t]]
    BY <1>1, <2>1
  <2> QED BY <1>2, <2>1, <2>2, WaitingStep
<1>4. CASE connector
  <2> DEFINE c == [step |-> "balances", what |-> call[t].what, to |-> call[t].to,
                   todo |-> IF NothingNew(call[t]) THEN {} ELSE Pairs,
                   base |-> balance, from |-> section]
  <2>1. /\ call' = [call EXCEPT ![t] = c] /\ mutex' = t
        /\ behind' = (behind \/ (call[t].what = "light" /\ call[t].to < section))
    BY <1>4 DEF BeginBalances, Guarded, Moves
  <2>2. /\ call[t].what \in Whats /\ call[t].to \in Sections
        /\ section \in 0 .. MaxSection /\ balance \in [Pairs -> 0 .. Wrong]
    BY <1>2 DEF WaitingCalls, TableTypes
  <2>3. c \in Calls
    BY <2>2 DEF Calls, WritingCalls
  <2>4. c.step = "balances" /\ call[t].step = "mutex"
    BY <1>1 DEF At
  <2>5. Current'
    BY <1>1, <2>1, <2>3, <2>4, ReputationFrame
  <2>6. TableTypes'
    BY <1>1, <2>1, <2>3 DEF TableTypes, reputation
  <2>7. \A u \in Threads : call'[u] = IF u = t THEN c ELSE call[u]
    BY <1>1, <2>1
  <2>8. \A u \in Threads : ~At(u, "balances")
    BY <1>1, DatabaseAssumption DEF OneWriter
  <2>9. OneWriter'
    BY <2>1, <2>4, <2>7, <2>8 DEF OneWriter, At
  <2>10. ASSUME ~behind' PROVE Writes(call[t])'
    <3>1. ~behind /\ ~(call[t].what = "light" /\ call[t].to < section)
      BY <2>1, <2>10 DEF TableTypes
    <3>2. \A p \in Pairs : balance[p] = section
      BY <1>1, <3>1 DEF Explained
    <3>3. call[t].what = "update" /\ ~NothingNew(call[t]) => call[t].to > section
      BY <2>2 DEF NothingNew, Sections
    <3>4. call[t].to \in Nat /\ section \in Nat /\ MaxSection \in Nat
      BY <2>2, DatabaseAssumption DEF Sections
    <3>5. c.todo # {} => c.to >= section
      BY <2>2, <3>1, <3>3, <3>4 DEF Whats
    <3>6. \A p \in Pairs \ c.todo : call[t].to <= section
      BY DEF NothingNew
    <3>7. \A p \in Pairs \ c.todo : balance[p] = Later(c.to)
      BY <3>2, <3>4, <3>6 DEF Later
    <3>8. section' = section /\ balance' = balance
      BY <1>1
    <3>9. c.from = section /\ \A p \in Pairs : c.base[p] = section
      BY <3>2
    <3>10. call'[t] = c
      BY <2>7
    <3> HIDE DEF c
    <3> QED BY <3>5, <3>7, <3>8, <3>9, <3>10 DEF Writes, Later
  <2>11. Explained'
    <3>1. t # None
      BY DatabaseAssumption
    <3> HIDE DEF c
    <3>2. mutex' # None
      BY <2>1, <3>1
    <3>3. ASSUME NEW u \in Threads, At(u, "balances")' PROVE u = t
      BY <2>7, <2>8, <3>3 DEF At
    <3> QED BY <2>10, <3>2, <3>3 DEF Explained
  <2> QED BY <2>5, <2>6, <2>9, <2>11
<1> QED BY <1>3, <1>4

LEMMA WriteBalanceStep ==
  ASSUME TableInv, NEW t \in Threads, WriteBalance(t)
  PROVE  TableInv'
<1> USE DEF TableInv
<1>1. /\ At(t, "balances") /\ call \in [Threads -> Calls] /\ mutex = t
      /\ UNCHANGED <<reputation, mutex, section, behind>>
  BY DEF WriteBalance, TableTypes, OneWriter
<1>2. PICK p \in call[t].todo :
        /\ balance' = [balance EXCEPT ![p] = NewBalance(call[t], p)]
        /\ call' = [call EXCEPT ![t] = [call[t] EXCEPT !.todo = @ \ {p}]]
  BY DEF WriteBalance, Moves
<1> DEFINE c == [call[t] EXCEPT !.todo = @ \ {p}]
<1>3. call[t] \in WritingCalls
  BY <1>1, Shapes DEF At
<1>4. /\ c \in WritingCalls /\ c.step = "balances" /\ c.todo = call[t].todo \ {p}
      /\ c.what = call[t].what /\ c.to = call[t].to /\ c.base = call[t].base
      /\ c.from = call[t].from
  BY <1>3 DEF WritingCalls
<1>5. c \in Calls /\ call[t].step = "balances"
  BY <1>1, <1>4 DEF Calls, At
<1>6. \A u \in Threads : call'[u] = IF u = t THEN c ELSE call[u]
  BY <1>1, <1>2
<1>7. /\ p \in Pairs /\ call[t].to \in Sections /\ section \in 0 .. MaxSection
      /\ call[t].todo \subseteq Pairs /\ call[t].what \in Whats /\ MaxSection \in Nat
  BY <1>2, <1>3, DatabaseAssumption DEF WritingCalls, TableTypes
<1> HIDE DEF c
<1>8. balance' \in [Pairs -> 0 .. Wrong]
  <2>1. NewBalance(call[t], p) \in 0 .. Wrong
    BY <1>7 DEF NewBalance, Wrong, Sections
  <2> QED BY <1>2, <2>1 DEF TableTypes
<1>9. TableTypes'
  BY <1>1, <1>2, <1>5, <1>8 DEF TableTypes, reputation, c
<1>10. Current'
  BY <1>1, <1>2, <1>4, <1>5, ReputationFrame DEF c
<1>11. OneWriter'
  BY <1>1, <1>4, <1>6 DEF OneWriter, At
<1>12. ASSUME ~behind' PROVE Writes(call[t])'
  <2>1. Writes(call[t])
    BY <1>1, <1>12 DEF Explained
  <2>2. call[t].to >= section
    BY <1>2, <2>1 DEF Writes
  <2>3. NewBalance(call[t], p) = call[t].to
    BY <1>7, <2>1 DEF NewBalance, Writes
  <2>4. Later(call[t].to) = call[t].to
    BY <1>7, <2>2 DEF Later, Sections
  <2>5. /\ balance'[p] = call[t].to /\ \A q \in Pairs \ {p} : balance'[q] = balance[q]
    BY <1>2, <1>7, <2>3 DEF TableTypes
  <2>6. \A q \in Pairs \ c.todo : balance'[q] = Later(call[t].to)
    BY <1>4, <2>1, <2>4, <2>5 DEF Writes
  <2>7. call'[t] = c /\ section' = section
    BY <1>1, <1>6
  <2> QED BY <1>4, <2>1, <2>2, <2>6, <2>7 DEF Writes, Later
<1>13. Explained'
  <2>1. mutex' = t /\ t # None
    BY <1>1, DatabaseAssumption
  <2>2. ASSUME NEW u \in Threads, At(u, "balances")' PROVE u = t
    BY <1>11, <2>1, <2>2 DEF OneWriter
  <2> QED BY <1>12, <2>1, <2>2 DEF Explained
<1> QED BY <1>9, <1>10, <1>11, <1>13

LEMMA CommitStep ==
  ASSUME TableInv, NEW t \in Threads, CommitBalances(t)
  PROVE  TableInv'
<1> USE DEF TableInv
<1>1. /\ At(t, "balances") /\ call[t].todo = {} /\ call \in [Threads -> Calls] /\ mutex = t
      /\ call' = [call EXCEPT ![t] = Idle] /\ mutex' = None
      /\ section' = Later(call[t].to)
      /\ UNCHANGED <<reputation, balance, behind>>
  BY DEF CommitBalances, TableTypes, OneWriter, Moves, Later
<1>2. call[t] \in WritingCalls
  BY <1>1, Shapes DEF At
<1>3. call[t].step = "balances" /\ Idle \in Calls /\ Idle.step = "idle"
  BY <1>1 DEF Calls, Idle, At
<1>4. section' \in 0 .. MaxSection
  BY <1>1, <1>2, DatabaseAssumption DEF Later, WritingCalls, Sections, TableTypes
<1>5. TableTypes'
  BY <1>1, <1>3, <1>4 DEF TableTypes, reputation
<1>6. Current'
  BY <1>1, <1>3, ReputationFrame
<1>7. \A u \in Threads : call'[u] = IF u = t THEN Idle ELSE call[u]
  BY <1>1
<1>8. \A u \in Threads : ~At(u, "balances")'
  BY <1>1, <1>3, <1>7 DEF OneWriter, At
<1>9. OneWriter'
  BY <1>1, <1>8, DatabaseAssumption DEF OneWriter
<1>10. ASSUME ~behind' PROVE \A p \in Pairs : balance'[p] = section'
  BY <1>1, <1>10 DEF Explained, Writes
<1>11. Explained'
  BY <1>8, <1>10 DEF Explained
<1> QED BY <1>5, <1>6, <1>9, <1>11

(* A step of a call keeps the invariant of the tables; so does a step that
   leaves the tables and the calls alone. *)
LEMMA TableStep ==
  ASSUME TableInv, NEW t \in Threads, Begin(t) \/ Continue(t)
  PROVE  TableInv'
<1>1. ASSUME NEW k \in Nodes, ReadLuminance(t, k) PROVE TableInv'
  BY <1>1, ReadStep
<1>2. ASSUME NEW k \in Nodes, WriteLuminance(t, "update", {k}) PROVE TableInv'
  <2>1. {k} \in SUBSET Nodes
    OBVIOUS
  <2> QED BY <1>2, <2>1, WriteStep
<1>3. ASSUME WriteLuminance(t, "expire", Nodes) PROVE TableInv'
  <2>1. Nodes \in SUBSET Nodes
    OBVIOUS
  <2> QED BY <1>3, <2>1, WriteStep
<1>4. ASSUME NEW s \in 1 .. MaxSection, UpdateCache(t, s) \/ LightData(t, s) PROVE TableInv'
  BY <1>4, BeginBalanceCalls DEF Sections
<1>5. CASE Continue(t)
  BY <1>5, SelectStep, RememberStep, QueryStep, InvalidateStep, DatabaseSteps, BeginStep,
     WriteBalanceStep, CommitStep DEF Continue
<1> QED BY <1>1, <1>2, <1>3, <1>4, <1>5 DEF Begin

LEMMA TableFrame ==
  ASSUME TableInv, UNCHANGED <<reputation, balances, call>>
  PROVE  TableInv'
<1>1. TableTypes'
  BY DEF TableInv, TableTypes, reputation, balances
<1>2. Current'
  BY DEF TableInv, Current, Pending, At, reputation
<1>3. OneWriter'
  BY DEF TableInv, OneWriter, At, balances
<1>4. Explained'
  BY DEF TableInv, Explained, Writes, Later, At, balances
<1> QED BY <1>1, <1>2, <1>3, <1>4 DEF TableInv

------------------------------------------------------------------------------
(* The tables inside the process. *)
LEMMA TablesOrNot ==
  ASSUME ProcessNext
  PROVE  \/ \E t \in Threads : Begin(t) \/ Continue(t)
         \/ UNCHANGED <<reputation, balances, call>>
<1> USE DEF tables
<1>1. CASE LoopStep
  BY <1>1 DEF LoopStep, SetUp, RunCall, EndBody, LeaveLoop, ClearFlags, StopPools, JoinPools,
              DeleteNode, Finish
<1>2. CASE StartMain \/ RunEvent \/ ShutdownInCallback
  BY <1>2 DEF StartMain, RunEvent, ShutdownInCallback
<1>3. ASSUME NEW c \in Callers, Call(c, "call") \/ Call(c, "shutdown") \/ CallerStep(c)
      PROVE  UNCHANGED <<reputation, balances, call>>
  BY <1>3 DEF Call, CallerStep, StartReturns, FindApp, PostCall, QuitMain, WaitForLoop, DeleteLoop
<1>4. ASSUME NEW c \in Apps, Start(c) PROVE UNCHANGED <<reputation, balances, call>>
  BY <1>4 DEF Start
<1>5. ASSUME NEW t \in Threads, PostJob(t) \/ TakeJob(t) \/ EndJob(t)
      PROVE  UNCHANGED <<reputation, balances, call>>
  BY <1>5 DEF PostJob, TakeJob, EndJob
<1>6. ASSUME NEW t \in Threads, UseDatabase(t) PROVE Begin(t) \/ Continue(t)
  BY <1>6 DEF UseDatabase
<1> QED BY <1>1, <1>2, <1>3, <1>4, <1>5, <1>6 DEF ProcessNext

LEMMA TablesInvariant == ProcessSpec => []TableInv
<1>1. ProcessInit => TableInv
  BY InitTables DEF ProcessInit
<1>2. TableInv /\ [ProcessNext]_processVars => TableInv'
  <2> SUFFICES ASSUME TableInv, [ProcessNext]_processVars PROVE TableInv'
    OBVIOUS
  <2>1. CASE ProcessNext
    BY <2>1, TablesOrNot, TableStep, TableFrame
  <2>2. CASE UNCHANGED processVars
    <3>1. UNCHANGED <<reputation, balances, call>>
      BY <2>2 DEF processVars, vars
    <3> QED BY <3>1, TableFrame
  <2> QED BY <2>1, <2>2
<1> QED BY <1>1, <1>2, PTL DEF ProcessSpec

(* LuminanceManager (luminance_manager.cpp), in a process that runs calls,
   events and jobs on several threads, for every number of threads, nodes and
   cache entries: what the cache answers is the committed value, unless the
   writer of that key is between its statement and its second invalidation. *)
THEOREM CacheNeverStale == ProcessSpec => []NoStaleValue
<1>1. TableInv => NoStaleValue
  BY DEF TableInv, Current, Pending, NoStaleValue, Cached
<1> QED BY <1>1, TablesInvariant, PTL

(* DagCache (dag_cache.cpp): an update to a genesis section and light data,
   each on its own thread, leave all cached balances at one section. *)
THEOREM OneSection == ProcessSpec => []BalancesOfSection
<1>1. TableInv => BalancesOfSection
  <2> SUFFICES ASSUME TableInv, ~behind, ~(\E t \in Threads : At(t, "balances"))
               PROVE  \A p \in Pairs : balance[p] = section
    BY DEF BalancesOfSection
  <2>1. mutex = None
    BY DEF TableInv, TableTypes, OneWriter
  <2> QED BY <2>1 DEF TableInv, Explained
<1> QED BY <1>1, TablesInvariant, PTL

------------------------------------------------------------------------------
(* The node and its users. *)

(* A step of a call moves no other call, and revives no process. *)
LEMMA CallSteps ==
  ASSUME TableInv, NEW t \in Threads, Begin(t) \/ Continue(t)
  PROVE  /\ \A u \in Threads : u # t => call'[u] = call[u]
         /\ crashed => crashed'
<1>1. DOMAIN call = Threads
  BY DEF TableInv, TableTypes
<1>2. CASE Begin(t)
  BY <1>1, <1>2 DEF Begin, ReadLuminance, WriteLuminance, UpdateCache, LightData, Begins, Free
<1>3. CASE Select(t) \/ Remember(t) \/ Query(t) \/ InvalidateAgain(t)
  BY <1>1, <1>3 DEF Select, Remember, Query, InvalidateAgain, Moves
<1>4. CASE ResetDb(t) \/ InitDb(t) \/ WriteBalance(t) \/ CommitBalances(t)
  BY <1>1, <1>4 DEF ResetDb, InitDb, WriteBalance, CommitBalances, Goes, Moves
<1>5. CASE BeginBalances(t)
  <2>1. CASE connector
    BY <1>1, <1>5, <2>1 DEF BeginBalances, Moves
  <2>2. CASE ~connector
    BY <1>5, <2>2 DEF BeginBalances
  <2> QED BY <2>1, <2>2
<1> QED BY <1>2, <1>3, <1>4, <1>5 DEF Continue

LEMMA Continued ==
  ASSUME NEW t \in Threads, Continue(t)
  PROVE  call[t] # Idle
<1>1. call[t].step # "idle"
  BY DEF Continue, Select, Remember, Query, InvalidateAgain, ResetDb, InitDb, BeginBalances,
         WriteBalance, CommitBalances, At
<1> QED BY <1>1 DEF Idle

LEMMA LifeStep ==
  ASSUME TableInv, LifeInv, [ProcessNext]_processVars
  PROVE  LifeInv'
<1> SUFFICES ASSUME ~crashed' PROVE Users'
  BY DEF LifeInv, Users
<1> USE DEF tables
<1>1. CASE LoopStep
  <2>1. Users /\ UNCHANGED <<call, working>>
    BY <1>1 DEF LifeInv, Users, LoopStep, SetUp, RunCall, EndBody, LeaveLoop, ClearFlags, StopPools,
                JoinPools, DeleteNode, Finish, pools
  <2>2. CASE SetUp \/ RunCall
    BY <2>1, <2>2 DEF Users, SetUp, RunCall, LoopGoes, calling, lifecycle
  <2>3. CASE EndBody
    BY <2>1, <2>3 DEF Users, EndBody
  <2>4. CASE LeaveLoop \/ ClearFlags \/ StopPools
    BY <2>1, <2>4 DEF Users, LeaveLoop, ClearFlags, StopPools, LoopGoes, calling
  <2>5. CASE JoinPools \/ DeleteNode \/ Finish
    BY <2>1, <2>5 DEF Users, JoinPools, PoolsJoined, DeleteNode, Finish, LoopGoes, calling
  <2> QED BY <1>1, <2>2, <2>3, <2>4, <2>5 DEF LoopStep
<1>2. CASE StartMain
  BY <1>2 DEF LifeInv, Users, StartMain, calling, pools
<1>3. CASE RunEvent \/ ShutdownInCallback
  BY <1>3, ProcessAssumption DEF LifeInv, Users, RunEvent, ShutdownInCallback, lifecycle, calling, pools
<1>4. ASSUME NEW c \in Callers, Call(c, "call") \/ Call(c, "shutdown") \/ CallerStep(c) PROVE Users'
  <2>1. UNCHANGED <<call, body, working>> /\ loop' = loop /\ ~crashed
    BY <1>4 DEF Call, CallerStep, StartReturns, FindApp, PostCall, QuitMain, WaitForLoop, DeleteLoop,
                Enters, lifecycle, pools
  <2> QED BY <2>1 DEF LifeInv, Users
<1>5. ASSUME NEW c \in Apps, Start(c) PROVE Users'
  <2>1. loop = "none" /\ ~crashed /\ UNCHANGED <<call, body, working>> /\ loop' = "setup"
    BY <1>5 DEF Start, Enters, pools
  <2> QED BY <2>1 DEF LifeInv, Users
<1>6. ASSUME NEW t \in Threads, PostJob(t) PROVE Users'
  BY <1>6 DEF LifeInv, Users, PostJob, lifecycle, calling
<1>7. ASSUME NEW t \in Threads, TakeJob(t) PROVE Users'
  BY <1>7 DEF LifeInv, Users, TakeJob, lifecycle, calling
<1>8. ASSUME NEW t \in Threads, EndJob(t) PROVE Users'
  BY <1>8 DEF LifeInv, Users, EndJob, lifecycle, calling
<1>9. ASSUME NEW t \in Threads, UseDatabase(t) PROVE Users'
  <2>1. Begin(t) \/ Continue(t)
    BY <1>9 DEF UseDatabase
  <2>2. Users /\ UNCHANGED <<loop, body, working>>
    BY <1>9, <2>1, CallSteps DEF LifeInv, Users, UseDatabase, lifecycle, calling, pools
  <2>3. (t = Loop /\ body # None) \/ t \in working
    BY <1>9, <2>2, Continued DEF UseDatabase, Busy, Users
  <2> QED BY <2>1, <2>2, <2>3, CallSteps DEF Users
<1>10. CASE UNCHANGED processVars
  BY <1>10 DEF LifeInv, Users, processVars, vars, lifecycle, calling, pools
<1> QED BY <1>1, <1>2, <1>3, <1>4, <1>5, <1>6, <1>7, <1>8, <1>9, <1>10 DEF ProcessNext

(* ~ExtraChainNodeWrapper (exc_internal.h), for every number of threads, jobs
   and calls: no job of a pool, no body and no statement of a call runs before
   the node exists or once it has been deleted. *)
THEOREM NodeIsThere == ProcessSpec => []NodeOutlivesUsers
<1>1. ProcessInit => LifeInv
  BY DEF ProcessInit, Init, LifeInv, Users
<1>2. LifeInv => NodeOutlivesUsers
  BY DEF LifeInv, Users, NodeOutlivesUsers, NodeAlive
<1>3. ProcessSpec => ProcessInit /\ [][ProcessNext]_processVars
  BY PTL DEF ProcessSpec
<1> QED BY <1>1, <1>2, <1>3, TablesInvariant, LifeStep, PTL
===============================================================================
