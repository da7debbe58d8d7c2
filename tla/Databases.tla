------------------------------ MODULE Databases ------------------------------
(***************************************************************************)
(* DbConnector and two of its users, called by several threads:            *)
(*   - LuminanceManager: a table of reputations and a cache of it;         *)
(*   - DagCache: the rows of the cached balances, the section they are of, *)
(*     and a connector that light data replaces.                           *)
(*                                                                         *)
(* A statement of DbConnector runs under the recursive mutex of its        *)
(* connector, so it is one step; what a caller does between two            *)
(* statements is not covered by that mutex.  A statement may fail.         *)
(***************************************************************************)
EXTENDS Naturals, FiniteSets

CONSTANTS
    Threads,
    Nodes,       \* keys of the reputation table
    Pairs,       \* actor and token of a balance
    CacheEntries,\* entries of the cache of reputations
    MaxValue,    \* bound: reputations
    MaxSection,  \* bound: sections
    MaxCalls,    \* bound: calls
    None

ASSUME DatabaseAssumption ==
    /\ CacheEntries \in Nat \ {0}
    /\ {MaxValue, MaxSection, MaxCalls} \subseteq Nat
    /\ None \notin Threads \union Nodes \union Nat

VARIABLES
    row,        \* row[k]: committed reputation of k, None without a row
    old,        \* rows that were not touched for AUTOREMOVE_MS
    cache,      \* cache_: [k -> value], None when absent
    generation, \* cache_generation_
    mutex,      \* thread that holds mutex_ of DagCache
    connector,  \* cache_db_ is set
    ready,      \* db_initialized_ of DagCache
    balance,    \* balance[p]: the last section that the row of p counts
    section,    \* cached_section_
    call,       \* call[t]: where the call of t is
    calls,      \* calls so far
    crashed,    \* a null connector was used: the process has ended
    behind      \* history: light data of a section below the cached one was written

reputation == <<row, old, cache, generation>>
balances == <<mutex, connector, ready, balance, section, behind>>
vars == <<reputation, balances, call, calls, crashed>>

Idle == [step |-> "idle"]
Values == 0 .. MaxValue
Wrong == MaxSection + 1  \* a balance that no section explains

Free(t) == call[t] = Idle /\ calls < MaxCalls /\ ~crashed
Begins(t, c) == Free(t) /\ calls' = calls + 1 /\ call' = [call EXCEPT ![t] = c]
Moves(t, c) == ~crashed /\ call' = [call EXCEPT ![t] = c] /\ calls' = calls
At(t, step) == call[t].step = step

TypeOK ==
    /\ row \in [Nodes -> Values \union {None}] /\ old \subseteq Nodes
    /\ cache \in [Nodes -> Values \union {None}] /\ generation \in Nat
    /\ mutex \in Threads \union {None}
    /\ balance \in [Pairs -> 0 .. Wrong] /\ section \in 0 .. MaxSection
    /\ {connector, ready, crashed, behind} \subseteq BOOLEAN
    /\ calls \in 0 .. MaxCalls

Init ==
    /\ row \in [Nodes -> {0, None}] /\ old \in SUBSET {k \in Nodes : row[k] # None}
    /\ cache = [k \in Nodes |-> None] /\ generation = 0
    /\ mutex = None /\ connector = TRUE /\ ready = TRUE
    /\ balance = [p \in Pairs |-> 0] /\ section = 0
    /\ call = [t \in Threads |-> Idle] /\ calls = 0
    /\ crashed = FALSE /\ behind = FALSE

------------------------------------------------------------------------------
(* LuminanceManager.                                                        *)

Cached == {k \in Nodes : cache[k] # None}

(* read_luminance without an entry in the cache. *)
ReadLuminance(t, k) ==
    /\ k \notin Cached
    /\ Begins(t, [step |-> "select", key |-> k, generation |-> generation])
    /\ UNCHANGED <<reputation, balances, crashed>>

(* select: without a row there is nothing to remember. *)
Select(t) ==
    /\ At(t, "select")
    /\ LET c == call[t]
       IN  \/ /\ row[c.key] # None
              /\ Moves(t, [step |-> "remember", key |-> c.key, generation |-> c.generation,
                           value |-> row[c.key]])
           \/ Moves(t, Idle)
    /\ UNCHANGED <<reputation, balances, crashed>>

(* Mutant: the generation is not compared. *)
UnchangedSinceNot(g) == TRUE

UnchangedSince(g) == g = generation

(* A full cache is emptied first. *)
Remembered(k, v) ==
    [j \in Nodes |-> IF j = k THEN v
                     ELSE IF Cardinality(Cached) >= CacheEntries THEN None ELSE cache[j]]

Remember(t) ==
    /\ At(t, "remember")
    /\ cache' = IF UnchangedSince(call[t].generation) THEN Remembered(call[t].key, call[t].value)
                ELSE cache
    /\ Moves(t, Idle)
    /\ UNCHANGED <<row, old, generation, balances, crashed>>

(* invalidate_cache. *)
Invalidate(keys) ==
    /\ generation' = generation + 1
    /\ cache' = [k \in Nodes |-> IF k \in keys THEN None ELSE cache[k]]

(* update_luminance, remove_old: invalidation, statement, invalidation. *)
WriteLuminance(t, op, keys) ==
    /\ Begins(t, [step |-> "write", op |-> op, keys |-> keys])
    /\ Invalidate(keys)
    /\ UNCHANGED <<row, old, balances, crashed>>

(* The values that the INSERT .. ON CONFLICT may leave: increment, decrement,
   write_luminance. *)
Updated(v) ==
    {IF v = None THEN 1 ELSE v + 1, IF v = None \/ v = 0 THEN 0 ELSE v - 1} \union Values

(* query: the statement commits, or fails and changes nothing. *)
Query(t) ==
    /\ At(t, "write")
    /\ LET c == call[t]
       IN  /\ Moves(t, [step |-> "invalidate", keys |-> c.keys])
           /\ \/ UNCHANGED <<row, old>>
              \/ /\ c.op = "update"
                 /\ \E k \in c.keys : \E v \in Updated(row[k]) \intersect Values :
                       row' = [row EXCEPT ![k] = v]
                 /\ old' = old \ c.keys
              \/ /\ c.op = "expire"
                 /\ row' = [k \in Nodes |-> IF k \in old THEN None ELSE row[k]]
                 /\ old' = {}
    /\ UNCHANGED <<cache, generation, balances, crashed>>

InvalidateAgain(t) ==
    /\ At(t, "invalidate")
    /\ Invalidate(call[t].keys)
    /\ Moves(t, Idle)
    /\ UNCHANGED <<row, old, balances, crashed>>

------------------------------------------------------------------------------
(* DagCache.                                                                *)

(* update_to_genesis_section, of sections up to s. *)
UpdateCache(t, s) ==
    /\ s > section
    /\ Begins(t, [step |-> "init", what |-> "update", to |-> s])
    /\ UNCHANGED <<reputation, balances, crashed>>

(* network_response_light, with the balances of section s. *)
LightData(t, s) ==
    /\ Begins(t, [step |-> "reset", what |-> "light", to |-> s])
    /\ UNCHANGED <<reputation, balances, crashed>>

Goes(t, step) == Moves(t, [call[t] EXCEPT !.step = step])

(* reset_db; the file stays. *)
ResetDb(t) ==
    /\ At(t, "reset") /\ mutex = None
    /\ ready' = FALSE /\ connector' = FALSE
    /\ Goes(t, "init")
    /\ UNCHANGED <<reputation, mutex, balance, section, behind, crashed>>

(* init_db. *)
InitDb(t) ==
    /\ At(t, "init") /\ (ready \/ mutex = None)
    /\ ready' = TRUE /\ connector' = (connector \/ ~ready)
    /\ Goes(t, "mutex")
    /\ UNCHANGED <<reputation, mutex, balance, section, behind, crashed>>

(* Mutant: write_cached_balances does not take mutex_. *)
GuardedUpdates(t) == call[t].what = "update"

(* Both writers take mutex_. *)
Guarded(t) == TRUE

(* An update finds the sections already counted. *)
NothingNew(c) == c.what = "update" /\ c.to <= section

(* BEGIN, and the balances that the new ones are computed from; without a
   connector the process ends. *)
BeginBalances(t) ==
    /\ At(t, "mutex") /\ (Guarded(t) => mutex = None)
    /\ IF connector
       THEN /\ Moves(t, [step |-> "balances", what |-> call[t].what, to |-> call[t].to,
                         todo |-> IF NothingNew(call[t]) THEN {} ELSE Pairs,
                         base |-> balance, from |-> section])
            /\ mutex' = IF Guarded(t) THEN t ELSE mutex
            /\ behind' = (behind \/ (call[t].what = "light" /\ call[t].to < section))
            /\ crashed' = crashed
       ELSE /\ crashed' = TRUE /\ UNCHANGED <<call, calls, mutex, behind>>
    /\ UNCHANGED <<reputation, connector, ready, balance, section>>

(* A row of light data, or of the cached balance and the sections after it. *)
NewBalance(c, p) ==
    IF c.what = "light" \/ c.base[p] = c.from THEN c.to ELSE Wrong

(* write_cached_balance. *)
WriteBalance(t) ==
    /\ At(t, "balances")
    /\ \E p \in call[t].todo :
          /\ balance' = [balance EXCEPT ![p] = NewBalance(call[t], p)]
          /\ Moves(t, [call[t] EXCEPT !.todo = @ \ {p}])
    /\ UNCHANGED <<reputation, mutex, connector, ready, section, behind, crashed>>

(* COMMIT and set_section, which never lowers the section. *)
CommitBalances(t) ==
    /\ At(t, "balances") /\ call[t].todo = {}
    /\ section' = IF call[t].to > section THEN call[t].to ELSE section
    /\ mutex' = IF mutex = t THEN None ELSE mutex
    /\ Moves(t, Idle)
    /\ UNCHANGED <<reputation, connector, ready, balance, behind, crashed>>

(* What a thread calls, and the statements of a call. *)
Begin(t) ==
    \/ \E k \in Nodes : ReadLuminance(t, k) \/ WriteLuminance(t, "update", {k})
    \/ WriteLuminance(t, "expire", Nodes)
    \/ \E s \in 1 .. MaxSection : UpdateCache(t, s) \/ LightData(t, s)

Continue(t) ==
    \/ Select(t) \/ Remember(t) \/ Query(t) \/ InvalidateAgain(t)
    \/ ResetDb(t) \/ InitDb(t) \/ BeginBalances(t) \/ WriteBalance(t) \/ CommitBalances(t)

Next == \E t \in Threads : Begin(t) \/ Continue(t)

Spec == Init /\ [][Next]_vars

------------------------------------------------------------------------------

(* What cached_luminance answers without asking the database is the committed
   value: it may differ only while a writer of the key is between its statement
   and its second invalidation.  A reader that selected an older row does not
   bring it back into the cache. *)
NoStaleValue ==
    \A k \in Cached : cache[k] # row[k] =>
        \E t \in Threads : At(t, "invalidate") /\ k \in call[t].keys

(* When no thread is inside DagCache, all balances are those of the cached
   section: an update on the node thread and light data on a pool thread do not
   mix their rows, in the file or in what they start from.  (Light data of an
   older section leaves the newer section number behind.) *)
BalancesOfSection ==
    ~behind /\ ~(\E t \in Threads : At(t, "balances")) => \A p \in Pairs : balance[p] = section
=============================================================================
