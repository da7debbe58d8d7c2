----------------------------- MODULE DagLedger -----------------------------
(***************************************************************************)
(* The ledger of a full node that is Ready (class Dag in                   *)
(* sources/chain/dag.cpp, class DagCache in sources/chain/dag_cache.cpp):  *)
(* section files, the balance cache (an SQLite table), the range file and  *)
(* the control hashes.  Transactions arrive from the network, are proved   *)
(* against the balances, and saved into the section they name; every save  *)
(* may first move the balance cache up to a newer section, drop the        *)
(* transactions that overdraw an account, and generate controls.           *)
(*                                                                         *)
(* All of it runs on the node thread, so a save is one job; its steps are  *)
(* the points between two writes to the disk where the process may die.    *)
(*                                                                         *)
(* Abstraction.  One token is followed; a conversion appears as its effect *)
(* on that token (ConversionIn, ConversionOut).  A transaction is a record *)
(* of a fixed set: hash, signature, token and existence of the actors are  *)
(* valid.  A control hash is the content it hashes, section by section     *)
(* (hashes do not collide).  A file write and an SQL COMMIT are atomic.    *)
(***************************************************************************)
EXTENDS Integers, FiniteSets, FiniteSetsExt

CONSTANTS
    Actors,     \* accounts, the network's own one included
    Network,    \* the account that opens the ledger
    Minter,     \* minting_owner
    Nobody,     \* the zero actor, receiver of a Burn
    Txs,        \* transactions that may arrive
    Opening,    \* the Balance transactions of section 1
    Own,        \* transactions of Txs that this node sends itself
    Top,        \* bound: the last section of a transaction
    Interval,   \* CONTROL_INTERVAL and CONSTRUCT_GENESIS_EVERY_BLOCKS (20)
    Lag,        \* CACHE_LAG_SECTIONS (15)
    Diff,       \* sections a transaction may be away from the current one (15)
    LookBack,   \* sections find_last_control passes without a control (37)
    MaxReward,  \* largest reward (3)
    Crashes     \* bound: restarts of the process

Types == {"Balance", "Regular", "Reward", "InitContract", "Burn", "Minting",
          "ConversionIn", "ConversionOut"}

(* operator< of Transaction orders by section, then time stamp: the ids    *)
(* stand for that order.                                                   *)
ASSUME LedgerAssumption ==
    /\ IsFiniteSet(Txs) /\ IsFiniteSet(Actors)
    /\ {Network, Minter} \subseteq Actors /\ Nobody \notin Actors
    /\ {Top, Interval, Lag, Diff, LookBack, MaxReward, Crashes} \subseteq Nat
    /\ 0 < Lag /\ Lag < Interval /\ Diff <= Lag /\ Top > 1
    /\ Opening \subseteq Txs /\ Own \subseteq Txs
    /\ \A t \in Txs :
         /\ t.id \in 1..Cardinality(Txs) /\ t.type \in Types
         /\ t.section \in 1..Top /\ t.amount \in Nat \ {0}
         /\ t.sender \in Actors /\ t.receiver \in Actors \union {Nobody}
         /\ t \in Opening => t.type = "Balance" /\ t.section = 1
         /\ \A u \in Txs : /\ t.id = u.id => t = u
                           /\ t.id < u.id => t.section <= u.section

VARIABLES
    present,    \* disk: the section files
    txs,        \* disk: the transactions of each section
    control,    \* disk: the control of each aligned section
    balances,   \* disk: table balance_cache
    range,      \* disk: the range file (last section, last cached section)
    current,    \* current_section_
    cached,     \* cached_section_
    recent,     \* senders whose entry of last_txs_ is younger than 4500 ms
    own,        \* sended_transactions_ and failed_transactions_
    step,       \* where the running save_transaction is
    job,        \* the transaction being saved
    copy,       \* the section as save_transaction read it
    approved,   \* history: transactions that passed prove_transaction
    crashes     \* restarts so far

disk   == <<present, txs, control, balances, range>>
memory == <<current, cached, recent, own>>
saving == <<step, job, copy>>
vars   == <<disk, memory, saving, approved, crashes>>

Sections == 0..Top
Aligned(s) == s % Interval = 0
Checkpoints == {s \in Sections : Aligned(s)}
Later(a, b) == IF a < b THEN b ELSE a

-----------------------------------------------------------------------------
(* Balances. *)

(* process_transaction: what transaction t adds to the balance of actor a. *)
Effect(t, a) ==
    LET gain(who) == IF who = a THEN t.amount ELSE 0
    IN  CASE t.type = "Minting" -> gain(t.receiver)
          [] t.type \in {"Reward", "InitContract", "ConversionIn"} -> gain(t.sender)
          [] t.type = "ConversionOut" -> -gain(t.sender)
          [] OTHER -> gain(t.receiver) - gain(t.sender)

(* reverse_transaction takes a Minting for a transfer. *)
Reversal(t, a) ==
    LET gain(who) == IF who = a THEN t.amount ELSE 0
    IN  IF t.type = "Minting" THEN gain(t.sender) - gain(t.receiver) ELSE -Effect(t, a)

Total(S, a) == MapThenSumSet(LAMBDA t : Effect(t, a), S)
Between(content, from, to) == UNION {content[s] : s \in {i \in Sections : from <= i /\ i <= to}}

(* calculate_balances: the cached balance plus the sections above it. *)
CalculatedBalance(a, to) == balances[a] + Total(Between(txs, cached + 1, to), a)

(* The loop of prove_transaction over the section of the transaction; it   *)
(* skips conversions out of the token (their token is the other one) and   *)
(* takes a Minting for a transfer.                                         *)
SectionEffect(t, a) ==
    LET gain(who) == IF who = a THEN t.amount ELSE 0
    IN  CASE t.type \in {"Reward", "InitContract", "ConversionIn"} -> gain(t.sender)
          [] t.type = "ConversionOut" -> 0
          [] OTHER -> gain(t.receiver) - gain(t.sender)

SenderBalance(t) ==
    CalculatedBalance(t.sender, t.section)
        + MapThenSumSet(LAMBDA u : SectionEffect(u, t.sender), txs[t.section] \ {t})

(* Mutant: a transaction may be one section further away. *)
NearOffByOne(t) == Diff + 1 >= IF t.section < current THEN current - t.section ELSE t.section - current

Near(t) == Diff >= IF t.section < current THEN current - t.section ELSE t.section - current

(* search_duplicate_by_hash. *)
Duplicate(t) == t \in Between(txs, 0, current + 1)

(* Who may send what to whom, and what with. *)
Permitted(t) ==
    CASE t.type = "Burn" -> t.receiver = Nobody
      [] t.type = "Minting" -> t.sender = Minter /\ t.receiver \in Actors \ {t.sender}
      [] t.type = "Reward" -> t.receiver = t.sender /\ t.amount <= MaxReward
      [] t.type \in {"ConversionIn", "ConversionOut"} -> t.receiver = t.sender
      [] t.type = "InitContract" -> t.receiver \in Actors \ {t.sender}
      [] OTHER -> t.receiver \in Actors \ {t.sender} /\ SenderBalance(t) >= t.amount

Proved(t) ==
    \/ t.type = "Balance" /\ t.section = 1
    \/ t.type # "Balance" /\ Near(t) /\ ~Duplicate(t) /\ Permitted(t)

-----------------------------------------------------------------------------
(* The balance cache. *)

(* Mutant: the cache reaches up to the current section. *)
SafeUnlagged == (current \div Interval) * Interval

Safe == ((current - Lag) \div Interval) * Interval

CacheDue ==
    /\ current >= Lag
    /\ cached = -1 \/ (Safe > cached /\ Safe - cached >= Lag)

(* Mutant: nothing is dropped. *)
ExorcisedNone == {}

(* What local_clear_less_balances never drops. *)
Exempt(t) == t.section = 1 \/ t.type \in {"Reward", "ConversionIn", "ConversionOut"}

(* One transaction: it is dropped when it leaves its sender below zero. *)
Processed(before, t) ==
    LET sum == [a \in Actors |-> before.sum[a] + Effect(t, a)]
    IN  IF ~Exempt(t) /\ sum[t.sender] < 0
        THEN [sum  |-> [a \in Actors |-> sum[a] + Reversal(t, a)],
              gone |-> before.gone \union {t}]
        ELSE [before EXCEPT !.sum = sum]

(* The balances, and what is dropped, after the transactions up to each id. *)
Cleared(passed) ==
    LET after[n \in 0..Cardinality(Txs)] ==
          IF n = 0 THEN [sum |-> balances, gone |-> {}]
          ELSE IF \E t \in passed : t.id = n
          THEN Processed(after[n - 1], CHOOSE t \in passed : t.id = n)
          ELSE after[n - 1]
    IN  after

(* local_clear_less_balances: the sections from the cached one on, in order. *)
Exorcised ==
    LET passed == Between(txs, cached, current)
    IN  {t \in passed : ~Exempt(t) /\ t \in Cleared(passed)[Cardinality(Txs)].gone}

-----------------------------------------------------------------------------
(* Controls. *)

NoControl == [s \in Sections |-> {Nobody}]

LastControl(from) ==
    {c \in Checkpoints : /\ from - LookBack <= c /\ c <= from
                         /\ control[c] # NoControl
                         /\ \A d \in Checkpoints : c < d /\ d <= from => control[d] = NoControl}

(* generate_hash_from_section: the ends of the intervals that get a        *)
(* control; interval e covers the sections e - Interval + 1 .. e.          *)
IntervalEnds(start, top) ==
    {e \in Checkpoints : LET first == e - Interval + 1
                         IN  /\ start <= first
                             /\ first + Interval <= current
                             /\ first <= top}

(* Mutant: the interval starts one section late. *)
ChainedOffByOne(base, start, end) ==
    [s \in Sections |-> IF s < start THEN base[s] ELSE IF s \in start + 1..end THEN txs[s] ELSE {}]

(* hash_interval: the content of the interval, chained to the last control. *)
Chained(base, start, end) ==
    [s \in Sections |-> IF s < start THEN base[s] ELSE IF s <= end THEN txs[s] ELSE {}]

(* A control is written into the file of its section, which is created     *)
(* when it does not exist yet (write_control).                             *)
GenerateControls(start, top) ==
    \/ /\ start = 0
       /\ control' = [control EXCEPT ![0] = Chained(NoControl, 0, 0)]
       /\ UNCHANGED present
    \/ /\ start > 0
       /\ LastControl(start - 1) # {}
       /\ \E c \in LastControl(start - 1) :
            control' = [e \in Checkpoints |->
                          IF e \in IntervalEnds(start, top)
                          THEN Chained(control[c], start, e) ELSE control[e]]
       /\ present' = present \union IntervalEnds(start, top)
    \/ /\ start > 0
       /\ LastControl(start - 1) = {}
       /\ UNCHANGED <<present, control>>

-----------------------------------------------------------------------------
(* Actions. *)

(* generate_hash from section 0, when a chain is created: no interval above *)
(* that section is complete yet.                                           *)
FirstControls ==
    [s \in Checkpoints |-> IF s = 0 THEN [i \in Sections |-> {}] ELSE NoControl]

Init ==
    /\ present = {0, 1}
    /\ txs = [s \in Sections |-> IF s = 1 THEN Opening ELSE {}]
    /\ control = FirstControls
    /\ balances = [a \in Actors |-> 0]
    /\ range = [last |-> 1, cached |-> -1]
    /\ current = 1 /\ cached = -1
    /\ recent = {} /\ own = [t \in Own |-> "new"]
    /\ step = "idle" /\ job = {} /\ copy = {}
    /\ approved = {} /\ crashes = 0

(* save_transaction: read the section, raise current_section_ if it is new. *)
StartSave(t) ==
    /\ step' = "cache" /\ job' = {t} /\ copy' = txs[t.section]
    /\ current' = Later(current, t.section)

TooOften(t) == t.type = "Regular" /\ t.sender \in recent
Remember(t) == recent' = IF t.type = "Regular" THEN recent \union {t.sender} ELSE recent

(* network_transaction of a transaction that passes prove_transaction. *)
NetworkTransaction(t) ==
    /\ step = "idle" /\ t \notin Own
    /\ ~TooOften(t) /\ Proved(t)
    /\ StartSave(t) /\ Remember(t)
    /\ approved' = approved \union {t}
    /\ UNCHANGED <<disk, cached, own, crashes>>

(* network_transaction of one that does not: the refusal is broadcast. *)
TransactionRefused(t) ==
    /\ step = "idle" /\ t \notin Own
    /\ ~TooOften(t) /\ ~Proved(t)
    /\ Remember(t)
    /\ UNCHANGED <<disk, current, cached, own, saving, approved, crashes>>

(* 4500 ms pass since the last transactions. *)
TimePasses ==
    /\ step = "idle" /\ recent # {}
    /\ recent' = {}
    /\ UNCHANGED <<disk, current, cached, own, saving, approved, crashes>>

(* send_transaction: a transaction for the section after the current one. *)
SendTransaction(t) ==
    /\ step = "idle" /\ own[t] = "new"
    /\ t.section = current + 1 /\ current \in present
    /\ own' = [own EXCEPT ![t] = "sent"]
    /\ UNCHANGED <<disk, current, cached, recent, saving, approved, crashes>>

(* network_transaction_result: the first answer of a peer decides. *)
TransactionApproved(t) ==
    /\ step = "idle" /\ own[t] = "sent"
    /\ own' = [own EXCEPT ![t] = "approved"]
    /\ StartSave(t)
    /\ UNCHANGED <<disk, cached, recent, approved, crashes>>

TransactionFailed(t) ==
    /\ step = "idle" /\ own[t] = "sent"
    /\ own' = [own EXCEPT ![t] = "failed"]
    /\ UNCHANGED <<disk, current, cached, recent, saving, approved, crashes>>

(* local_remove_transaction: each rewrites its section. *)
Without(gone) == [s \in Sections |-> txs[s] \ gone]

(* update_to_genesis_section up to the COMMIT: drop what overdraws, then   *)
(* add the sections above the cached one to the balances.  Every dropped   *)
(* transaction rewrites its section and the range file.                    *)
UpdateCache ==
    /\ step = "cache" /\ CacheDue
    /\ txs' = Without(Exorcised)
    /\ balances' = [a \in Actors |-> balances[a] + Total(Between(txs', cached + 1, Safe), a)]
    /\ range' = IF txs' = txs THEN range ELSE [last |-> current, cached |-> cached]
    /\ step' = "publish"
    /\ UNCHANGED <<present, control, memory, job, copy, approved, crashes>>

CacheNotDue ==
    /\ step = "cache" /\ ~CacheDue
    /\ step' = "range"
    /\ UNCHANGED <<disk, memory, job, copy, approved, crashes>>

(* set_section, update_range and the controls of the newly cached part. *)
PublishCache ==
    /\ step = "publish"
    /\ cached' = Later(cached, Safe)
    /\ range' = [last |-> current, cached |-> cached']
    /\ GenerateControls(cached + 1, cached')
    /\ step' = "range"
    /\ UNCHANGED <<txs, balances, current, recent, own, job, copy, approved, crashes>>

(* Mutant: the range file is only written after the section. *)
UpdateRangeAfterwards ==
    /\ step = "range"
    /\ step' = "write"
    /\ UNCHANGED <<disk, memory, job, copy, approved, crashes>>

UpdateRange ==
    /\ step = "range"
    /\ range' = [last |-> current, cached |-> cached]
    /\ step' = "write"
    /\ UNCHANGED <<present, txs, control, balances, memory, job, copy, approved, crashes>>

(* write_section: the section as it was read, with the transaction, without a control. *)
WriteSection ==
    /\ step = "write"
    /\ \E t \in job :
         /\ present' = present \union {t.section}
         /\ txs' = [txs EXCEPT ![t.section] = copy \union {t}]
         /\ control' = [c \in Checkpoints |-> IF c = t.section THEN NoControl ELSE control[c]]
    /\ step' = "answer"
    /\ UNCHANGED <<balances, range, memory, job, copy, approved, crashes>>

(* The range file once more, and the result is broadcast. *)
Answer ==
    /\ step = "answer"
    /\ range' = [last |-> current, cached |-> cached]
    /\ step' = "idle" /\ job' = {} /\ copy' = {}
    /\ UNCHANGED <<present, txs, control, balances, memory, approved, crashes>>

(* The process dies at any point; Dag::Dag reads the range file again. *)
Crash ==
    /\ crashes < Crashes
    /\ crashes' = crashes + 1
    /\ current' = range.last /\ cached' = range.cached
    /\ recent' = {}
    /\ own' = [t \in Own |-> IF own[t] = "sent" THEN "forgotten" ELSE own[t]]
    /\ step' = "idle" /\ job' = {} /\ copy' = {}
    /\ UNCHANGED <<disk, approved>>

Next ==
    \/ \E t \in Txs : NetworkTransaction(t) \/ TransactionRefused(t)
    \/ \E t \in Own : SendTransaction(t) \/ TransactionApproved(t) \/ TransactionFailed(t)
    \/ TimePasses \/ UpdateCache \/ CacheNotDue \/ PublishCache
    \/ UpdateRange \/ WriteSection \/ Answer \/ Crash

Spec == Init /\ [][Next]_vars

-----------------------------------------------------------------------------
(* Properties. *)

(* Types of the variables.  The cached section is a checkpoint, which      *)
(* generate_hash_for_interval requires ("DAG ERROR" aborts the process).   *)
TypeOK ==
    /\ present \subseteq Sections
    /\ txs \in [Sections -> SUBSET Txs]
    /\ DOMAIN control = Checkpoints
    /\ balances \in [Actors -> Int]
    /\ range.last \in Sections /\ range.cached \in Checkpoints \union {-1}
    /\ current \in Sections /\ cached \in Checkpoints \union {-1}
    /\ recent \subseteq Actors
    /\ own \in [Own -> {"new", "sent", "approved", "failed", "forgotten"}]
    /\ step \in {"idle", "cache", "publish", "range", "write", "answer"}
    /\ job \in SUBSET Txs /\ Cardinality(job) <= 1 /\ copy \subseteq Txs
    /\ approved \subseteq Txs /\ crashes \in 0..Crashes

(* No transaction was approved into a checkpoint section, the only section *)
(* that can be cached and still accept one (Lag = Diff).                   *)
OffCheckpoints == \A t \in approved : ~Aligned(t.section)

(* Nor was an own transaction saved on a late answer, nor did the process  *)
(* die: in each of these cases a section may be counted late, twice or     *)
(* never, or skipped by the chain of controls.                             *)
Undisturbed ==
    /\ OffCheckpoints
    /\ \A t \in Own : own[t] # "approved"
    /\ crashes = 0

(* The cached balances are those of the section files up to section top. *)
Exact(top) == \A a \in Actors : balances[a] = Total(Between(txs, 0, top), a)

(* calculate_balances may start from the cache: the cached balances are    *)
(* those of the section files up to the cached section, whatever the order *)
(* in which transactions reached the sections still open.                  *)
CacheExact == Undisturbed /\ step # "publish" => Exact(cached)

(* local_clear_less_balances: although two transactions may be approved    *)
(* that spend the same coins, none of the cached balances is below zero.   *)
NotOverdrawn ==
    Undisturbed /\ (\A t \in approved : t.type # "ConversionOut")
        => \A a \in Actors \ {Network} : balances[a] >= 0

(* A restart finds every section: at no point between two writes is there  *)
(* a section file above the last section of the range file, nor a cached   *)
(* section above the one the balances were committed for.                  *)
SectionsRecorded ==
    /\ \A s \in present : s <= range.last
    /\ range.cached <= cached

(* A control is compared with the peers' instead of the sections it covers: *)
(* as long as the node was not disturbed, it hashes exactly what the files  *)
(* of those sections hold.                                                 *)
ControlsExact ==
    Undisturbed =>
        \A c \in Checkpoints : control[c] # NoControl =>
            \A s \in 0..c : control[c][s] = txs[s]

=============================================================================
