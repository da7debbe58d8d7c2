--------------------------- MODULE DagLedgerProofs ---------------------------
(***************************************************************************)
(* Proofs about DagLedger for every set of transactions and every value of *)
(* the interval, the lag, the acceptance distance and the number of        *)
(* crashes.                                                                *)
(*                                                                         *)
(* SectionsRecorded is not inductive: that writing a section file keeps it *)
(* below the last section of the range file needs the fact that the range  *)
(* file was brought up to current_section_ before the write, and that in   *)
(* turn needs the section of the running save to be at most                *)
(* current_section_.                                                       *)
(*                                                                         *)
(* ControlsExact needs to know where the cache may be for the current      *)
(* section (CachePlace) and where the running save may go (SaveAbove):     *)
(* both come from the bounds between the lag, the interval and the         *)
(* acceptance distance (LedgerAssumption: 15, 20 and 15 in the code).      *)
(*                                                                         *)
(* CacheExact and NotOverdrawn are about sums over sets of transactions.   *)
(* That such a sum exists, and what adding a transaction or a set of them  *)
(* does to it, is proved first, each time from a smallest counterexample.  *)
(* While a save publishes the cache, its balances are already those of the *)
(* section it is about to reach (Sums). The clearing pass leaves nobody    *)
(* below zero after each id it has passed (PassedTo), and what the cache   *)
(* leaves out of account is in credit (CreditInv).                         *)
(***************************************************************************)
EXTENDS DagLedger, FiniteSetTheorems, WellFoundedInduction, TLAPS

Numbers ==
    /\ current \in Int /\ cached \in Int
    /\ range \in [last : Int, cached : Int]
    /\ present \subseteq Int

(* What has been recorded so far. *)
Recorded ==
    /\ range.last <= current
    /\ range.cached <= cached
    /\ \A s \in present : s <= range.last

(* What the running save has done so far. *)
Job ==
    /\ job \subseteq Txs
    /\ \A t \in job : t.section <= current
    /\ step = "write" => range.last = current

IInv == Numbers /\ Recorded /\ Job

(* A transaction names a section. *)
LEMMA TxSection == \A t \in Txs : t.section \in Int
  BY LedgerAssumption

(* The safe section is a number. *)
LEMMA SafeInt == current \in Int => Safe \in Int
  <1> SUFFICES ASSUME current \in Int PROVE Safe \in Int
    OBVIOUS
  <1>1. Interval \in Nat /\ Lag \in Nat /\ Interval > 0
    BY LedgerAssumption
  <1>2. current - Lag \in Int
    BY <1>1
  <1>3. (current - Lag) \div Interval \in Int
    BY <1>1, <1>2
  <1> QED
    BY <1>1, <1>3 DEF Safe

LEMMA InitIInv == Init => IInv
  BY DEF Init, IInv, Numbers, Recorded, Job

LEMMA StepIInv == IInv /\ [Next]_vars => IInv'
  <1> SUFFICES ASSUME IInv, [Next]_vars PROVE IInv'
    OBVIOUS
  <1> USE DEF IInv, Numbers, Recorded, Job
  <1>1. ASSUME NEW t \in Txs, NetworkTransaction(t) PROVE IInv'
    <2>1. t.section \in Int
      BY TxSection
    <2>2. current' \in Int /\ current' >= current /\ current' >= t.section
      BY <1>1, <2>1 DEF NetworkTransaction, StartSave, Later
    <2> QED
      BY <1>1, <2>2 DEF NetworkTransaction, StartSave, disk
  <1>2. ASSUME NEW t \in Txs, TransactionRefused(t) PROVE IInv'
    BY <1>2 DEF TransactionRefused, disk, saving
  <1>3. ASSUME NEW t \in Own, SendTransaction(t) PROVE IInv'
    BY <1>3 DEF SendTransaction, disk, saving
  <1>4. ASSUME NEW t \in Own, TransactionApproved(t) PROVE IInv'
    <2>1. t \in Txs
      BY LedgerAssumption
    <2>2. t.section \in Int
      BY <2>1, TxSection
    <2>3. current' \in Int /\ current' >= current /\ current' >= t.section
      BY <1>4, <2>2 DEF TransactionApproved, StartSave, Later
    <2> QED
      BY <1>4, <2>1, <2>3 DEF TransactionApproved, StartSave, disk
  <1>5. ASSUME NEW t \in Own, TransactionFailed(t) PROVE IInv'
    BY <1>5 DEF TransactionFailed, disk, saving
  <1>6. CASE TimePasses
    BY <1>6 DEF TimePasses, disk, saving
  <1>7. CASE UpdateCache
    BY <1>7 DEF UpdateCache, memory
  <1>8. CASE CacheNotDue
    BY <1>8 DEF CacheNotDue, disk, memory
  <1>9. CASE PublishCache
    <2>1. Safe \in Int
      BY SafeInt
    <2>2. cached' \in Int /\ cached' >= cached
      BY <1>9, <2>1 DEF PublishCache, Later
    <2>3. GenerateControls(cached + 1, cached')
      BY <1>9 DEF PublishCache
    <2>4. /\ IntervalEnds(cached + 1, cached') \subseteq Int
          /\ \A e \in IntervalEnds(cached + 1, cached') : e <= current
      <3>1. cached + 1 \in Int
        OBVIOUS
      <3> QED
        BY <2>2, <3>1, LedgerAssumption DEF IntervalEnds, Checkpoints, Sections
    <2>5. present' \subseteq present \union IntervalEnds(cached + 1, cached')
      BY <2>3 DEF GenerateControls
    <2>6. present' \subseteq Int /\ \A s \in present' : s <= current
      BY <2>4, <2>5
    <2> QED
      BY <1>9, <2>2, <2>6 DEF PublishCache
  <1>10. CASE UpdateRange
    BY <1>10 DEF UpdateRange, memory
  <1>11. CASE WriteSection
    BY <1>11, TxSection DEF WriteSection, memory
  <1>12. CASE Answer
    BY <1>12 DEF Answer, memory
  <1>13. CASE Crash
    BY <1>13 DEF Crash, disk
  <1>14. CASE UNCHANGED vars
    BY <1>14 DEF vars, disk, memory, saving
  <1> QED
    BY <1>1, <1>2, <1>3, <1>4, <1>5, <1>6, <1>7, <1>8, <1>9, <1>10, <1>11,
       <1>12, <1>13, <1>14 DEF Next

(* Whatever the transactions, their order, and the points at which the     *)
(* process dies, a restart finds every section that was ever written       *)
(* (update_range precedes write_section in save_transaction).              *)
THEOREM RestartFindsSections == Spec => []SectionsRecorded
  <1>1. IInv => SectionsRecorded
    BY DEF IInv, Recorded, SectionsRecorded
  <1> QED
    BY <1>1, InitIInv, StepIInv, PTL DEF Spec

------------------------------------------------------------------------------
(* Controls. *)

(* The network signs its opening transactions when it creates the chain,   *)
(* and no others for that section: prove_transaction would take one at any *)
(* time.                                                                   *)
OpeningOnly == \A t \in Txs : t.type = "Balance" /\ t.section = 1 => t \in Opening

Reached == Later(cached, 0)
Saving == step \in {"cache", "publish", "range", "write"}

(* Where the cache is, for the current section. *)
CachePlace ==
    /\ current \in Nat \ {0} /\ current <= Top /\ cached \in Checkpoints \union {-1}
    /\ cached # -1 => current >= Lag /\ cached <= Safe
    /\ cached = -1 => current < Lag + Interval
    /\ cached = -1 /\ step \notin {"cache", "publish"} => current <= Lag
    /\ step = "publish" => CacheDue

(* A section holds its own transactions; a checkpoint has none. *)
Placed ==
    /\ txs \in [Sections -> SUBSET Txs]
    /\ \A s \in Sections : \A t \in txs[s] : t.section = s
    /\ \A c \in Checkpoints : txs[c] = {}
    /\ Opening \subseteq txs[1]

(* The running save goes above what will be cached, or changes nothing. *)
SaveAbove ==
    Saving => \A t \in job :
        /\ t \in approved /\ t \in Txs
        /\ copy \subseteq {u \in Txs : u.section = t.section}
        /\ t.section = 1 => Opening \subseteq copy
        /\ \/ current >= Lag => t.section > Safe
           \/ t \in Opening /\ copy = txs[1]

Controlled ==
    /\ DOMAIN control = Checkpoints
    /\ \A c \in Checkpoints :
         IF c <= Reached THEN \A s \in 0..c : control[c][s] = txs[s] ELSE control[c] = NoControl

ControlInv ==
    /\ crashes \in Nat
    /\ own \in [Own -> {"new", "sent", "approved", "failed", "forgotten"}]
    /\ Undisturbed => CachePlace /\ Placed /\ SaveAbove /\ Controlled

(* Checkpoints are multiples of the interval. *)
LEMMA MultiplesBelow ==
  ASSUME NEW x \in Nat, NEW i \in Nat \ {0}
  PROVE  /\ x \div i \in Nat /\ (x \div i) * i \in Nat
         /\ (x \div i) * i <= x /\ x < (x \div i) * i + i
         /\ ((x \div i) * i) % i = 0
         /\ x < i => (x \div i) * i = 0
<1>1. x \div i \in Nat
  OBVIOUS
<1>2. (x \div i) * i <= x /\ x - (x \div i) * i < i
  OBVIOUS
<1>3. ASSUME NEW q \in Nat PROVE q * i \in Nat /\ (q * i) % i = 0
  OBVIOUS
<1>4. x < i => x \div i = 0
  OBVIOUS
<1>5. ASSUME NEW q \in Nat, q * i <= x, x - q * i < i PROVE x < q * i + i
  BY <1>5, <1>3
<1> QED BY <1>1, <1>2, <1>3, <1>4, <1>5

LEMMA MultiplesApart ==
  ASSUME NEW x \in Nat, NEW y \in Nat, NEW i \in Nat \ {0}, x % i = 0, y % i = 0, x < y
  PROVE  x + i <= y
<1> DEFINE p == x \div i
           q == y \div i
<1>1. x = p * i /\ y = q * i /\ p \in Nat /\ q \in Nat
  OBVIOUS
<1> HIDE DEF p, q
<1>2. p < q
  BY <1>1
<1>3. p + 1 <= q
  BY <1>1, <1>2
<1>4. (p + 1) * i <= q * i
  BY <1>1, <1>3
<1> QED BY <1>1, <1>4

(* The section up to which the cache may go when section n is the current one. *)
SafeAt(n) == ((n - Lag) \div Interval) * Interval

LEMMA SafeFacts ==
  ASSUME NEW n \in Nat, n >= Lag
  PROVE  /\ SafeAt(n) \in Nat /\ SafeAt(n) % Interval = 0
         /\ SafeAt(n) + Lag <= n /\ n < SafeAt(n) + Lag + Interval
         /\ n < Lag + Interval => SafeAt(n) = 0
<1>1. Interval \in Nat \ {0} /\ Lag \in Nat
  BY LedgerAssumption
<1> DEFINE x == n - Lag
<1>2. x \in Nat
  BY <1>1
<1>3. SafeAt(n) = (x \div Interval) * Interval
  BY DEF SafeAt
<1> HIDE DEF x
<1>4. /\ SafeAt(n) \in Nat /\ SafeAt(n) % Interval = 0 /\ SafeAt(n) <= x /\ x < SafeAt(n) + Interval
      /\ x < Interval => SafeAt(n) = 0
  BY <1>1, <1>2, <1>3, MultiplesBelow
<1> QED BY <1>1, <1>4 DEF x

(* It never goes back. *)
LEMMA SafeGrows ==
  ASSUME NEW m \in Nat, NEW n \in Nat, Lag <= m, m <= n
  PROVE  SafeAt(m) <= SafeAt(n)
<1> DEFINE a == SafeAt(m)
           b == SafeAt(n)
<1>1. Interval \in Nat \ {0} /\ Lag \in Nat
  BY LedgerAssumption
<1>2. a \in Nat /\ a % Interval = 0 /\ a + Lag <= m
  BY SafeFacts
<1>3. n >= Lag
  BY <1>1
<1>4. b \in Nat /\ b % Interval = 0 /\ n < b + Lag + Interval
  BY <1>3, SafeFacts
<1> HIDE DEF a, b
<1>5. ASSUME b < a PROVE FALSE
  <2>1. b + Interval <= a
    BY <1>1, <1>2, <1>4, <1>5, MultiplesApart
  <2> QED BY <1>1, <1>2, <1>4, <2>1
<1>6. a <= b
  BY <1>2, <1>4, <1>5
<1> QED BY <1>6 DEF a, b

LEMMA InitControl == Init => ControlInv
<1> SUFFICES ASSUME Init PROVE ControlInv
  OBVIOUS
<1>1. /\ Interval \in Nat /\ Lag \in Nat \ {0} /\ Interval > 1 /\ Top \in Nat /\ Top > 1
      /\ Opening \subseteq Txs /\ \A t \in Opening : t.section = 1
      /\ Lag < Interval
  BY LedgerAssumption
<1>2. crashes \in Nat /\ own \in [Own -> {"new", "sent", "approved", "failed", "forgotten"}]
  BY DEF Init
<1>3. CachePlace
  BY <1>1 DEF Init, CachePlace
<1>4. 1 % Interval # 0 /\ 0 % Interval = 0 /\ 0 \in Checkpoints /\ 1 \in Sections
        /\ 1 \notin Checkpoints
  BY <1>1 DEF Checkpoints, Aligned, Sections
<1>5. Placed
  BY <1>1, <1>4 DEF Init, Placed, Checkpoints
<1>6. SaveAbove
  BY DEF Init, SaveAbove
<1>7. Controlled
  <2>1. Reached = 0
    BY DEF Init, Reached, Later
  <2>2. \A c \in Checkpoints : c \in Nat
    BY <1>1 DEF Checkpoints, Sections
  <2>3. \A c \in Checkpoints : c <= 0 => c = 0
    BY <2>2
  <2>4. control[0] = [j \in Sections |-> {}] /\ txs[0] = {}
    BY <1>4, <1>5 DEF Init, FirstControls, Placed
  <2>5. \A j \in 0..0 : control[0][j] = txs[j]
    BY <2>4, <1>1 DEF Sections
  <2>6. \A c \in Checkpoints : c # 0 => control[c] = NoControl
    BY DEF Init, FirstControls
  <2>7. DOMAIN control = Checkpoints
    BY DEF Init, FirstControls
  <2> QED BY <2>1, <2>3, <2>5, <2>6, <2>7 DEF Controlled
<1> QED BY <1>2, <1>3, <1>5, <1>6, <1>7 DEF ControlInv

(* What disturbs the ledger cannot be undone. *)
LEMMA StaysDisturbed ==
  ASSUME ControlInv, [Next]_vars
  PROVE  /\ crashes' \in Nat
         /\ own' \in [Own -> {"new", "sent", "approved", "failed", "forgotten"}]
         /\ Undisturbed' => Undisturbed /\ ~Crash /\ \A t \in Own : ~TransactionApproved(t)
<1> DEFINE Kept == UNCHANGED crashes /\ approved \subseteq approved'
<1>1. crashes \in Nat /\ own \in [Own -> {"new", "sent", "approved", "failed", "forgotten"}]
  BY DEF ControlInv
<1>2. ASSUME NEW t \in Txs, NetworkTransaction(t) \/ TransactionRefused(t)
      PROVE  Kept /\ UNCHANGED own
  BY <1>2 DEF NetworkTransaction, TransactionRefused
<1>3. ASSUME NEW t \in Own, SendTransaction(t) \/ TransactionFailed(t)
      PROVE  Kept /\ own[t] \in {"new", "sent"}
                  /\ \E o \in {"sent", "failed"} : own' = [own EXCEPT ![t] = o]
  BY <1>3 DEF SendTransaction, TransactionFailed
<1>4. ASSUME NEW t \in Own, TransactionApproved(t)
      PROVE  Kept /\ own' = [own EXCEPT ![t] = "approved"]
  BY <1>4 DEF TransactionApproved
<1>5. ASSUME \/ TimePasses \/ UpdateCache \/ CacheNotDue \/ PublishCache \/ UpdateRange
             \/ WriteSection \/ Answer \/ UNCHANGED vars
      PROVE  Kept /\ UNCHANGED own
  BY <1>5 DEF TimePasses, UpdateCache, CacheNotDue, PublishCache, UpdateRange, WriteSection,
              Answer, vars, memory
<1>6. ASSUME Crash
      PROVE  crashes' = crashes + 1 /\ own' = [t \in Own |-> IF own[t] = "sent" THEN "forgotten" ELSE own[t]]
  BY <1>6 DEF Crash
<1> HIDE DEF Kept
<1>7. \/ \E t \in Txs : NetworkTransaction(t) \/ TransactionRefused(t)
      \/ \E t \in Own : SendTransaction(t) \/ TransactionFailed(t)
      \/ \E t \in Own : TransactionApproved(t)
      \/ TimePasses \/ UpdateCache \/ CacheNotDue \/ PublishCache \/ UpdateRange
      \/ WriteSection \/ Answer \/ UNCHANGED vars
      \/ Crash
  BY DEF Next
<1>8. crashes' \in Nat
  BY <1>1, <1>2, <1>3, <1>4, <1>5, <1>6, <1>7 DEF Kept
<1>9. own' \in [Own -> {"new", "sent", "approved", "failed", "forgotten"}]
  BY <1>1, <1>2, <1>3, <1>4, <1>5, <1>6, <1>7
<1>10. Undisturbed' => ~Crash
  BY <1>1, <1>6 DEF Undisturbed
<1>11. Undisturbed' => \A t \in Own : ~TransactionApproved(t)
  BY <1>1, <1>4 DEF Undisturbed
<1>12. Undisturbed' => Kept
  BY <1>2, <1>3, <1>5, <1>7, <1>10, <1>11
<1>13. Undisturbed' => \A t \in Own : own[t] # "approved"
  <2>1. ASSUME Undisturbed', NEW t \in Own, own[t] = "approved" PROVE own'[t] = "approved"
    BY <1>1, <1>2, <1>3, <1>5, <1>7, <1>10, <1>11, <2>1
  <2> QED BY <2>1 DEF Undisturbed
<1>14. Undisturbed' => Undisturbed
  BY <1>12, <1>13 DEF Undisturbed, OffCheckpoints, Kept
<1> QED BY <1>8, <1>9, <1>10, <1>11, <1>14

(* The parts of the invariant, and the numbers they are about. *)
LEMMA Bounds ==
  /\ Interval \in Nat \ {0, 1} /\ Lag \in Nat \ {0} /\ Top \in Nat \ {0, 1}
  /\ Diff \in Nat /\ LookBack \in Nat
  /\ Lag < Interval /\ Diff <= Lag
  /\ \A c \in Checkpoints : c \in Nat /\ c <= Top /\ c % Interval = 0
  /\ 0 \in Checkpoints /\ 1 \notin Checkpoints /\ 1 \in Sections
  /\ \A t \in Txs : t.section \in Nat /\ t.section >= 1 /\ t.section <= Top
                       /\ t.section \in Sections
  /\ \A t \in Opening : t \in Txs /\ t.section = 1
<1>1. /\ Interval \in Nat \ {0, 1} /\ Lag \in Nat \ {0} /\ Top \in Nat \ {0, 1}
      /\ Diff \in Nat /\ LookBack \in Nat
      /\ Lag < Interval /\ Diff <= Lag
  BY LedgerAssumption
<1>2. 1 % Interval # 0 /\ 0 % Interval = 0
  BY <1>1
<1>3. \A t \in Txs : t.section \in 1..Top
  BY LedgerAssumption
<1>4. \A t \in Opening : t \in Txs /\ t.section = 1
  BY LedgerAssumption
<1> QED BY <1>1, <1>2, <1>3, <1>4 DEF Checkpoints, Sections, Aligned

(* The transaction that starts to be saved, and where. *)
LEMMA NetworkStep ==
  ASSUME OpeningOnly, CachePlace, Placed, SaveAbove, Controlled, OffCheckpoints',
         NEW t \in Txs, NetworkTransaction(t)
  PROVE  CachePlace' /\ Placed' /\ SaveAbove' /\ Controlled'
<1>1. /\ step = "idle" /\ Proved(t) /\ step' = "cache" /\ job' = {t} /\ copy' = txs[t.section]
      /\ current' = Later(current, t.section) /\ approved' = approved \union {t}
      /\ UNCHANGED <<txs, control, cached>>
  BY DEF NetworkTransaction, StartSave, disk
<1>2. t.section \in Nat /\ t.section >= 1 /\ t.section \in Sections /\ ~Aligned(t.section)
  BY <1>1, Bounds DEF OffCheckpoints
<1>3. current \in Nat \ {0} /\ cached \in Checkpoints \union {-1}
  BY DEF CachePlace
<1>4. \/ t \in Opening /\ t.section = 1
      \/ t.section + Diff >= current /\ t.section <= current + Diff
  <2>1. CASE t.type = "Balance" /\ t.section = 1
    BY <2>1 DEF OpeningOnly
  <2>2. CASE Near(t)
    BY <2>2, <1>2, <1>3, Bounds DEF Near
  <2> QED BY <1>1, <2>1, <2>2 DEF Proved
<1>5. /\ current' \in Nat \ {0} /\ current' >= current /\ current' >= t.section
      /\ current' = current \/ current' = t.section
  BY <1>1, <1>2, <1>3 DEF Later
<1>6. Safe = SafeAt(current) /\ Safe' = SafeAt(current')
  BY DEF Safe, SafeAt
<1>7. CachePlace'
  <2>1. ASSUME cached # -1 PROVE current' >= Lag /\ cached <= Safe'
    <3>1. current >= Lag /\ cached <= SafeAt(current) /\ cached \in Nat
      BY <1>3, <1>6, <2>1, Bounds DEF CachePlace
    <3>2. current' >= Lag /\ SafeAt(current) <= SafeAt(current')
      BY <1>3, <1>5, <3>1, SafeGrows, Bounds
    <3>3. SafeAt(current) \in Nat /\ SafeAt(current') \in Nat
      BY <1>3, <1>5, <3>1, <3>2, SafeFacts
    <3> QED BY <1>6, <3>1, <3>2, <3>3
  <2>2. ASSUME cached = -1 PROVE current' < Lag + Interval
    <3>1. current <= Lag
      BY <1>1, <2>2 DEF CachePlace
    <3>2. t.section <= current + Lag \/ t.section = 1
      BY <1>2, <1>3, <1>4, Bounds
    <3> QED BY <1>2, <1>3, <1>5, <3>1, <3>2, Bounds
  <2>3. current' <= Top
    BY <1>5, Bounds DEF CachePlace
  <2> QED BY <1>1, <1>3, <1>5, <2>1, <2>2, <2>3 DEF CachePlace
<1>8. SaveAbove'
  <2>1. /\ copy' \subseteq {u \in Txs : u.section = t.section}
        /\ t.section = 1 => Opening \subseteq copy'
    BY <1>1, <1>2 DEF Placed
  <2>2. \/ current' >= Lag => t.section > Safe'
        \/ t \in Opening /\ copy' = txs[1]
    <3>1. CASE t \in Opening /\ t.section = 1
      BY <1>1, <3>1
    <3>2. CASE t.section + Diff >= current /\ t.section <= current + Diff
      <4> SUFFICES ASSUME current' >= Lag PROVE t.section > Safe'
        OBVIOUS
      <4> DEFINE b == SafeAt(current')
      <4>1. b \in Nat /\ b % Interval = 0 /\ b + Lag <= current'
        BY <1>5, SafeFacts
      <4>2. t.section % Interval # 0
        BY <1>2 DEF Aligned
      <4> HIDE DEF b
      <4>3. t.section + Lag >= current'
        BY <1>2, <1>3, <1>5, <3>2, Bounds
      <4>4. t.section >= b /\ t.section # b
        BY <1>2, <1>5, <4>1, <4>2, <4>3, Bounds
      <4>5. t.section > b
        BY <1>2, <4>1, <4>4
      <4> QED BY <4>5, <1>6 DEF b
    <3> QED BY <1>4, <3>1, <3>2
  <2> QED BY <1>1, <2>1, <2>2 DEF SaveAbove
<1>9. Placed' /\ Controlled'
  BY <1>1 DEF Placed, Controlled, Reached
<1> QED BY <1>7, <1>8, <1>9

(* Steps that touch neither the sections, nor the controls, nor the cache. *)
LEMMA QuietStep ==
  ASSUME CachePlace, Placed, SaveAbove, Controlled,
         UNCHANGED <<txs, control, current, cached>>, approved \subseteq approved',
         \/ UNCHANGED <<step, job, copy>>
         \/ step = "cache" /\ ~CacheDue /\ step' = "range" /\ UNCHANGED <<job, copy>>
         \/ step = "range" /\ step' = "write" /\ UNCHANGED <<job, copy>>
         \/ step = "answer" /\ step' = "idle"
  PROVE  CachePlace' /\ Placed' /\ SaveAbove' /\ Controlled'
<1>1. Safe' = Safe /\ CacheDue' = CacheDue
  BY DEF Safe, CacheDue
<1>2. ~CacheDue /\ cached = -1 => current <= Lag
  BY Bounds DEF CacheDue, CachePlace
<1>3. CachePlace'
  BY <1>1, <1>2 DEF CachePlace
<1>4. SaveAbove'
  BY <1>1 DEF SaveAbove, Saving
<1> QED BY <1>3, <1>4 DEF Placed, Controlled, Reached

(* Of section 1, and of what the cache covers, nothing is dropped. *)
LEMMA ExorcisedAbove ==
  ASSUME Placed, CachePlace, NEW t \in Exorcised
  PROVE  t \in Txs /\ t.section # 1 /\ t.section > Reached
<1>1. t \in Between(txs, cached, current) /\ t.section # 1
  BY DEF Exorcised, Exempt
<1>2. PICK s \in Sections : cached <= s /\ t \in txs[s]
  BY <1>1 DEF Between
<1>3. t \in Txs /\ t.section = s /\ s \notin Checkpoints
  BY <1>2 DEF Placed
<1>4. t.section \in Nat /\ t.section >= 1
  BY <1>3, Bounds
<1>5. cached \in Checkpoints \union {-1} /\ cached \in Int
  BY Bounds DEF CachePlace
<1>6. cached # s
  BY <1>3, <1>4, <1>5
<1> QED BY <1>1, <1>2, <1>3, <1>4, <1>5, <1>6 DEF Reached, Later

(* The cache moves up: what it drops is above what has a control. *)
LEMMA CacheStep ==
  ASSUME CachePlace, Placed, SaveAbove, Controlled, UpdateCache
  PROVE  CachePlace' /\ Placed' /\ SaveAbove' /\ Controlled'
<1>1. /\ step = "cache" /\ CacheDue /\ step' = "publish" /\ txs' = Without(Exorcised)
      /\ UNCHANGED <<control, current, cached, job, copy, approved>>
  BY DEF UpdateCache, memory
<1>2. \A s \in Sections : txs'[s] = txs[s] \ Exorcised
  BY <1>1 DEF Without
<1> HIDE DEF Exorcised
<1>3. \A s \in Sections : s = 1 \/ s <= Reached => txs'[s] = txs[s]
  <2>1. ASSUME NEW s \in Sections, s = 1 \/ s <= Reached, NEW t \in txs[s] PROVE t \notin Exorcised
    <3>1. t.section = s
      BY DEF Placed
    <3>2. cached \in Int /\ s \in Int
      BY Bounds DEF CachePlace, Sections
    <3>3. Reached \in Int
      BY <3>2 DEF Reached, Later
    <3> QED BY <2>1, <3>1, <3>2, <3>3, ExorcisedAbove
  <2> QED BY <1>2, <2>1
<1>4. Placed'
  <2>1. txs' \in [Sections -> SUBSET Txs]
    BY <1>1 DEF Without, Placed
  <2> QED BY <1>2, <1>3, <2>1, Bounds DEF Placed, Checkpoints
<1>5. Controlled'
  <2>1. Reached' = Reached
    BY <1>1 DEF Reached
  <2>2. ASSUME NEW c \in Checkpoints, c <= Reached, NEW s \in 0..c
        PROVE  s \in Sections /\ s <= Reached
    <3>1. Reached \in Int
      BY Bounds DEF Reached, Later, CachePlace
    <3> QED BY <2>2, <3>1, Bounds DEF Sections
  <2> QED BY <1>1, <1>3, <2>1, <2>2 DEF Controlled
<1>6. Safe' = Safe /\ CacheDue' = CacheDue
  BY <1>1 DEF Safe, CacheDue
<1>7. CachePlace'
  BY <1>1, <1>6 DEF CachePlace
<1>8. SaveAbove'
  BY <1>1, <1>3, <1>6, Bounds DEF SaveAbove, Saving
<1> QED BY <1>4, <1>5, <1>7, <1>8

(* A section is written above what has a control, or as it already is. *)
LEMMA WriteAbove ==
  ASSUME CachePlace, Placed, SaveAbove, OffCheckpoints, WriteSection
  PROVE  \A s \in Sections : s <= Reached => txs'[s] = txs[s]
<1>1. PICK t \in job :
        /\ txs' = [txs EXCEPT ![t.section] = copy \union {t}]
        /\ control' = [c \in Checkpoints |-> IF c = t.section THEN NoControl ELSE control[c]]
  BY DEF WriteSection
<1>2. step = "write" /\ step' = "answer" /\ UNCHANGED <<current, cached, job, copy, approved>>
  BY DEF WriteSection, memory
<1>3. /\ t \in approved /\ t \in Txs
      /\ copy \subseteq {u \in Txs : u.section = t.section}
      /\ t.section = 1 => Opening \subseteq copy
      /\ (current >= Lag => t.section > Safe) \/ (t \in Opening /\ copy = txs[1])
  BY <1>2 DEF SaveAbove, Saving
<1>4. t.section \in Sections /\ t.section \in Nat /\ t.section >= 1 /\ t.section \notin Checkpoints
  BY <1>3, Bounds DEF OffCheckpoints, Checkpoints
<1>5. \/ t.section > Reached
      \/ t.section = 1 /\ txs'[1] = txs[1]
  <2>1. CASE t \in Opening /\ copy = txs[1]
    BY <1>1, <2>1, Bounds DEF Placed
  <2>2. CASE current >= Lag => t.section > Safe
    <3>1. CASE cached = -1
      BY <1>4, <3>1 DEF Reached, Later
    <3>2. CASE cached # -1
      <4>1. current >= Lag /\ cached <= Safe /\ cached \in Nat
        BY <3>2, Bounds DEF CachePlace
      <4>2. Safe = SafeAt(current) /\ current \in Nat
        BY DEF Safe, SafeAt, CachePlace
      <4>3. Safe \in Nat
        BY <4>1, <4>2, SafeFacts
      <4>4. t.section > cached
        BY <1>4, <2>2, <4>1, <4>3
      <4> QED BY <1>4, <4>1, <4>4 DEF Reached, Later
    <3> QED BY <3>1, <3>2
  <2> QED BY <1>3, <2>1, <2>2
<1>6. \A s \in Sections : s # t.section => txs'[s] = txs[s]
  BY <1>1 DEF Placed
<1>7. ASSUME NEW s \in Sections, s <= Reached PROVE txs'[s] = txs[s]
  <2>1. Reached \in Int /\ s \in Int
    BY Bounds DEF Reached, Later, CachePlace, Sections
  <2>2. s # t.section \/ (s = 1 /\ txs'[1] = txs[1])
    BY <1>4, <1>5, <1>7, <2>1
  <2> QED BY <1>6, <2>2
<1> QED BY <1>7

LEMMA WriteStep ==
  ASSUME CachePlace, Placed, SaveAbove, Controlled, OffCheckpoints, WriteSection
  PROVE  CachePlace' /\ Placed' /\ SaveAbove' /\ Controlled'
<1>1. PICK t \in job :
        /\ txs' = [txs EXCEPT ![t.section] = copy \union {t}]
        /\ control' = [c \in Checkpoints |-> IF c = t.section THEN NoControl ELSE control[c]]
  BY DEF WriteSection
<1>2. step = "write" /\ step' = "answer" /\ UNCHANGED <<current, cached, job, copy, approved>>
  BY DEF WriteSection, memory
<1>3. /\ t \in approved /\ t \in Txs
      /\ copy \subseteq {u \in Txs : u.section = t.section}
      /\ t.section = 1 => Opening \subseteq copy
      /\ (current >= Lag => t.section > Safe) \/ (t \in Opening /\ copy = txs[1])
  BY <1>2 DEF SaveAbove, Saving
<1>4. t.section \in Sections /\ t.section \in Nat /\ t.section >= 1 /\ t.section \notin Checkpoints
  BY <1>3, Bounds DEF OffCheckpoints, Checkpoints
<1>5. \A s \in Sections : s # t.section => txs'[s] = txs[s]
  BY <1>1 DEF Placed
<1>6. txs'[t.section] = copy \union {t}
  BY <1>1, <1>4 DEF Placed
<1>7. Placed'
  <2>1. txs' \in [Sections -> SUBSET Txs]
    BY <1>1, <1>3 DEF Placed
  <2>2. ASSUME NEW s \in Sections, NEW u \in txs'[s] PROVE u.section = s
    BY <1>3, <1>5, <1>6, <2>2 DEF Placed
  <2>3. \A c \in Checkpoints : c \in Sections /\ c # t.section
    BY <1>4 DEF Checkpoints
  <2>4. \A c \in Checkpoints : txs'[c] = {}
    BY <1>5, <2>3 DEF Placed
  <2>5. Opening \subseteq txs'[1]
    <3>1. CASE t.section # 1
      BY <1>5, <3>1, Bounds DEF Placed
    <3>2. CASE t.section = 1
      BY <1>3, <1>6, <3>2
    <3> QED BY <3>1, <3>2
  <2> QED BY <2>1, <2>2, <2>4, <2>5 DEF Placed
<1>8. Controlled'
  <2>1. Reached' = Reached /\ Reached \in Int
    BY <1>2, Bounds DEF Reached, Later, CachePlace
  <2>2. \A c \in Checkpoints : control'[c] = control[c] /\ DOMAIN control' = Checkpoints
    BY <1>1, <1>4
  <2>3. ASSUME NEW c \in Checkpoints, c <= Reached, NEW s \in 0..c PROVE txs'[s] = txs[s]
    <3>1. s \in Sections /\ s <= Reached
      BY <2>1, <2>3, Bounds DEF Sections
    <3> QED BY <3>1, WriteAbove
  <2>4. DOMAIN control' = Checkpoints
    BY <1>1
  <2> QED BY <2>1, <2>2, <2>3, <2>4 DEF Controlled
<1>9. Safe' = Safe /\ CacheDue' = CacheDue
  BY <1>2 DEF Safe, CacheDue
<1>10. CachePlace'
  BY <1>2, <1>9 DEF CachePlace
<1>11. SaveAbove'
  BY <1>2 DEF SaveAbove, Saving
<1> QED BY <1>7, <1>8, <1>10, <1>11

(* The new part of the cache gets its controls, chained to the last one. *)
LEMMA PublishStep ==
  ASSUME CachePlace, Placed, SaveAbove, Controlled, PublishCache
  PROVE  CachePlace' /\ Placed' /\ SaveAbove' /\ Controlled'
<1>1. /\ step = "publish" /\ step' = "range" /\ cached' = Later(cached, Safe)
      /\ GenerateControls(cached + 1, cached')
      /\ UNCHANGED <<txs, current, job, copy, approved>>
  BY DEF PublishCache
<1>2. CacheDue /\ current \in Nat /\ cached \in Checkpoints \union {-1}
  BY <1>1 DEF CachePlace
<1>3. /\ Safe \in Nat /\ Safe % Interval = 0 /\ Safe + Lag <= current
      /\ current < Lag + Interval => Safe = 0
      /\ current >= Lag
  BY <1>2, SafeFacts DEF Safe, SafeAt, CacheDue
<1>4. cached' = Safe /\ Safe' = Safe /\ Safe \in Checkpoints
  <2>1. current <= Top
    BY DEF CachePlace
  <2>2. Safe \in Sections
    BY <1>2, <1>3, <2>1, Bounds DEF Sections
  <2>3. cached \in Int
    BY <1>2, Bounds
  <2> QED BY <1>1, <1>2, <1>3, <2>2, <2>3 DEF CacheDue, Later, Safe, Checkpoints, Aligned
<1>5. CachePlace'
  BY <1>1, <1>2, <1>3, <1>4, Bounds DEF CachePlace
<1>6. SaveAbove'
  BY <1>1, <1>4 DEF SaveAbove, Saving
<1>7. Placed'
  BY <1>1 DEF Placed
<1>8. Reached' = Safe
  BY <1>3, <1>4 DEF Reached, Later
<1>9. ASSUME cached = -1 PROVE Controlled'
  <2>1. Safe = 0 /\ Reached = 0 /\ cached + 1 = 0
    BY <1>3, <1>9 DEF CachePlace, Reached, Later
  <2>2. control' = [control EXCEPT ![0] = Chained(NoControl, 0, 0)]
    BY <1>1, <2>1 DEF GenerateControls
  <2>3. 0 \in Sections
    BY Bounds DEF Sections
  <2>4. \A s \in 0..0 : Chained(NoControl, 0, 0)[s] = txs[s]
    BY <2>3 DEF Chained
  <2>5. control'[0] = Chained(NoControl, 0, 0)
          /\ \A c \in Checkpoints : c # 0 => control'[c] = control[c]
    BY <2>2, Bounds DEF Controlled
  <2>6. \A c \in Checkpoints : c <= 0 => c = 0
    BY Bounds
  <2>7. DOMAIN control' = Checkpoints
    BY <2>2 DEF Controlled
  <2> QED BY <1>1, <1>8, <2>1, <2>4, <2>5, <2>6, <2>7 DEF Controlled
<1>10. ASSUME cached # -1 PROVE Controlled'
  <2>1. cached \in Checkpoints /\ cached \in Nat /\ cached < Safe /\ Reached = cached
          /\ cached % Interval = 0
        /\ cached \in Sections
    BY <1>2, <1>3, <1>10, Bounds DEF CacheDue, Reached, Later, Checkpoints
  <2>2. control[cached] # NoControl
    <3>1. control[cached][cached] = txs[cached] /\ txs[cached] = {}
      BY <2>1 DEF Controlled, Placed
    <3>2. NoControl[cached] = {Nobody}
      BY <2>1 DEF NoControl
    <3> QED BY <3>1, <3>2
  <2>3. \A c \in Checkpoints : c \in LastControl(cached) <=> c = cached
    BY <2>1, <2>2, Bounds DEF LastControl
  <2>4. LastControl(cached) \subseteq Checkpoints
    BY DEF LastControl
  <2> DEFINE ends == IntervalEnds(cached + 1, Safe)
  <2>5. \A e \in Checkpoints : e \in ends <=> cached < e /\ e <= Safe
    <3> SUFFICES ASSUME NEW e \in Checkpoints PROVE e \in ends <=> cached < e /\ e <= Safe
      OBVIOUS
    <3>1. e \in Nat /\ e % Interval = 0 /\ Interval \in Nat \ {0} /\ Lag \in Nat \ {0}
      BY Bounds
    <3>2. e \in ends <=> /\ cached + 1 <= e - Interval + 1
                         /\ e - Interval + 1 + Interval <= current
                         /\ e - Interval + 1 <= Safe
      BY DEF IntervalEnds
    <3>3. cached < e => cached + Interval <= e
      BY <2>1, <3>1, MultiplesApart
    <3> DEFINE b == Safe
    <3>4. b \in Nat /\ b % Interval = 0 /\ b + Lag <= current
      BY <1>3
    <3> HIDE DEF b
    <3>5. b < e => b + Interval <= e
      BY <3>1, <3>4, MultiplesApart
    <3> QED BY <1>2, <2>1, <3>1, <3>2, <3>3, <3>4, <3>5 DEF b
  <2> HIDE DEF ends
  <2>6. cached + 1 > 0 /\ cached + 1 # 0 /\ (cached + 1) - 1 = cached
    BY <2>1
  <2>7. control' = [e \in Checkpoints |->
                      IF e \in ends THEN Chained(control[cached], cached + 1, e) ELSE control[e]]
    BY <1>1, <1>4, <2>1, <2>3, <2>4, <2>6 DEF GenerateControls, ends
  <2>8. ASSUME NEW c \in Checkpoints, c <= Safe, NEW s \in 0..c PROVE control'[c][s] = txs[s]
    <3>1. s \in Sections /\ s \in Nat /\ c \in Nat
      BY <2>8, Bounds DEF Sections
    <3>2. CASE c \in ends
      <4>1. control'[c][s] = Chained(control[cached], cached + 1, c)[s]
        BY <2>7, <3>2
      <4>2. CASE s < cached + 1
        <5>1. s \in 0..cached
          BY <2>1, <3>1, <4>2
        <5> QED BY <2>1, <3>1, <4>1, <4>2, <5>1 DEF Chained, Controlled
      <4>3. CASE ~(s < cached + 1)
        BY <3>1, <4>1, <4>3 DEF Chained
      <4> QED BY <4>2, <4>3
    <3>3. CASE c \notin ends
      <4>1. c <= cached
        BY <2>1, <2>5, <2>8, <3>1, <3>3
      <4>2. control'[c] = control[c]
        BY <2>7, <3>3
      <4> QED BY <2>1, <4>1, <4>2 DEF Controlled
    <3> QED BY <3>2, <3>3
  <2>9. ASSUME NEW c \in Checkpoints, ~(c <= Safe) PROVE control'[c] = NoControl
    <3>1. c \notin ends /\ ~(c <= cached)
      BY <1>3, <2>1, <2>5, <2>9, Bounds
    <3> QED BY <2>1, <2>7, <3>1 DEF Controlled
  <2>10. DOMAIN control' = Checkpoints
    BY <2>7
  <2> QED BY <1>1, <1>8, <2>8, <2>9, <2>10 DEF Controlled
<1> QED BY <1>5, <1>6, <1>7, <1>9, <1>10

LEMMA StepControl == OpeningOnly /\ ControlInv /\ [Next]_vars => ControlInv'
<1> SUFFICES ASSUME OpeningOnly, ControlInv, [Next]_vars PROVE ControlInv'
  OBVIOUS
<1>1. /\ crashes' \in Nat
      /\ own' \in [Own -> {"new", "sent", "approved", "failed", "forgotten"}]
      /\ Undisturbed' => Undisturbed /\ ~Crash /\ \A t \in Own : ~TransactionApproved(t)
  BY StaysDisturbed
<1>2. ASSUME Undisturbed' PROVE CachePlace' /\ Placed' /\ SaveAbove' /\ Controlled'
  <2>1. /\ Undisturbed /\ ~Crash /\ \A t \in Own : ~TransactionApproved(t)
        /\ OffCheckpoints' /\ OffCheckpoints
        /\ CachePlace /\ Placed /\ SaveAbove /\ Controlled
    BY <1>1, <1>2 DEF ControlInv, Undisturbed
  <2>2. ASSUME NEW t \in Txs, NetworkTransaction(t)
        PROVE  CachePlace' /\ Placed' /\ SaveAbove' /\ Controlled'
    BY <2>1, <2>2, NetworkStep
  <2>3. ASSUME NEW t \in Txs, TransactionRefused(t)
        PROVE  CachePlace' /\ Placed' /\ SaveAbove' /\ Controlled'
    BY <2>1, <2>3, QuietStep DEF TransactionRefused, disk, saving
  <2>4. ASSUME NEW t \in Own, SendTransaction(t)
        PROVE  CachePlace' /\ Placed' /\ SaveAbove' /\ Controlled'
    BY <2>1, <2>4, QuietStep DEF SendTransaction, disk, saving
  <2>5. ASSUME NEW t \in Own, TransactionFailed(t)
        PROVE  CachePlace' /\ Placed' /\ SaveAbove' /\ Controlled'
    BY <2>1, <2>5, QuietStep DEF TransactionFailed, disk, saving
  <2>6. CASE TimePasses
    BY <2>1, <2>6, QuietStep DEF TimePasses, disk, saving
  <2>7. CASE UpdateCache
    BY <2>1, <2>7, CacheStep
  <2>8. CASE CacheNotDue
    BY <2>1, <2>8, QuietStep DEF CacheNotDue, disk, memory
  <2>9. CASE PublishCache
    BY <2>1, <2>9, PublishStep
  <2>10. CASE UpdateRange
    BY <2>1, <2>10, QuietStep DEF UpdateRange, memory
  <2>11. CASE WriteSection
    BY <2>1, <2>11, WriteStep
  <2>12. CASE Answer
    BY <2>1, <2>12, QuietStep DEF Answer, memory
  <2>13. CASE UNCHANGED vars
    BY <2>1, <2>13, QuietStep DEF vars, disk, memory, saving
  <2> QED
    BY <2>1, <2>2, <2>3, <2>4, <2>5, <2>6, <2>7, <2>8, <2>9, <2>10, <2>11, <2>12, <2>13 DEF Next
<1> QED BY <1>1, <1>2 DEF ControlInv

(* Of a node on which Undisturbed holds: a control it has generated hashes *)
(* what the files of the sections it covers still hold, whatever the       *)
(* transactions and the order they arrive in (generate_hash_from_section,  *)
(* write_control).  A save, or a drop of local_clear_less_balances, only   *)
(* changes sections above the last control, and the next control is        *)
(* chained to that one.  Nothing is said once the process died, an own     *)
(* transaction was approved, or one was approved into a checkpoint.        *)
THEOREM ControlsHash == OpeningOnly => (Spec => []ControlsExact)
<1> SUFFICES ASSUME OpeningOnly PROVE Spec => []ControlsExact
  OBVIOUS
<1>1. ControlInv => ControlsExact
  <2> SUFFICES ASSUME ControlInv, Undisturbed, NEW c \in Checkpoints, control[c] # NoControl
               PROVE  \A s \in 0..c : control[c][s] = txs[s]
    BY DEF ControlsExact
  <2> QED BY DEF ControlInv, Controlled
<1>2. OpeningOnly /\ ControlInv /\ [Next]_vars => ControlInv'
  BY StepControl
<1>3. ControlInv /\ [Next]_vars => ControlInv'
  BY <1>2
<1> QED BY <1>1, <1>3, InitControl, PTL DEF Spec

------------------------------------------------------------------------------
(* Sums of balances.  Total adds up a finite set in the order in which      *)
(* CHOOSE takes its elements; the order does not matter.                    *)

Chosen(s) == CHOOSE x \in s : TRUE
IsSum(g, a, S) ==
  g = [s \in SUBSET S |-> IF s = {} THEN 0 ELSE Effect(Chosen(s), a) + g[s \ {Chosen(s)}]]

(* The fold that defines Total, as a function on the subsets. *)
LEMMA TotalIs ==
  ASSUME NEW S, NEW a
  PROVE  Total(S, a) = (CHOOSE g : IsSum(g, a, S))[S]
BY DEF Total, MapThenSumSet, MapThenFoldSet, IsSum, Chosen

(* Every nonempty set of numbers has a least element. *)
LEMMA LeastNumber ==
  ASSUME NEW S, S \subseteq Nat, S # {}
  PROVE  \E m \in S : \A k \in S : m <= k
<1> DEFINE R == OpToRel(<, Nat)
<1>1. IsWellFoundedOn(R, Nat)
  BY NatLessThanWellFounded
<1>2. \A x, y \in Nat : x < y => <<x, y>> \in R
  BY DEF OpToRel
<1> HIDE DEF R
<1>3. PICK m \in S : \A k \in S : ~(<<k, m>> \in R)
  BY <1>1, WFMin
<1>4. ASSUME NEW k \in S PROVE m <= k
  <2>1. k \in Nat /\ m \in Nat /\ ~(k < m)
    BY <1>2, <1>3
  <2> QED BY <2>1
<1> QED BY <1>4

(* A nonempty family of sets of transactions has a smallest one. *)
LEMMA SmallestSet ==
  ASSUME NEW C, C \subseteq SUBSET Txs, C # {}
  PROVE  \E S \in C : \A T \in C : T \subseteq S => T = S
<1> DEFINE R == StrictSubsetOrdering(Txs)
<1>1. IsWellFoundedOn(R, FiniteSubsetsOf(Txs))
  BY FS_StrictSubsetOrderingWellFounded
<1>2. C \subseteq FiniteSubsetsOf(Txs)
  BY FS_Subset, LedgerAssumption DEF FiniteSubsetsOf
<1>3. \A S, T \in SUBSET Txs : T \subseteq S /\ T # S => <<T, S>> \in R
  BY DEF StrictSubsetOrdering
<1> HIDE DEF R
<1>4. PICK S \in C : \A T \in C : ~(<<T, S>> \in R)
  BY <1>1, <1>2, WFMin
<1> QED BY <1>3, <1>4

LEMMA ChosenIn ==
  ASSUME NEW s, s # {}
  PROVE  Chosen(s) \in s
BY DEF Chosen

LEMMA EffectInt ==
  ASSUME NEW t \in Txs, NEW a
  PROVE  Effect(t, a) \in Int
<1>1. t.amount \in Int
  BY LedgerAssumption
<1> QED BY <1>1 DEF Effect

(* The fold does not depend on the set it is asked for. *)
LEMMA SumUnique ==
  ASSUME NEW a, NEW S, NEW T, NEW g, NEW h, IsSum(g, a, S), IsSum(h, a, T),
         NEW U, U \subseteq S, U \subseteq T, U \subseteq Txs
  PROVE  g[U] = h[U]
<1> DEFINE C == {V \in SUBSET U : g[V] # h[V]}
<1>1. SUFFICES ASSUME C # {} PROVE FALSE
  OBVIOUS
<1>2. PICK V \in C : \A W \in C : W \subseteq V => W = V
  <2>1. C \subseteq SUBSET Txs
    OBVIOUS
  <2> HIDE DEF C
  <2> QED BY <1>1, <2>1, SmallestSet
<1>3. V \in SUBSET S /\ V \in SUBSET T /\ V \subseteq U /\ g[V] # h[V]
  BY <1>2
<1>4. CASE V = {}
  BY <1>3, <1>4 DEF IsSum
<1>5. CASE V # {}
  <2> DEFINE c == Chosen(V)
  <2>1. c \in V
    BY <1>5, ChosenIn
  <2>2. g[V] = Effect(c, a) + g[V \ {c}] /\ h[V] = Effect(c, a) + h[V \ {c}]
    BY <1>3, <1>5 DEF IsSum
  <2> HIDE DEF c
  <2>3. V \ {c} \notin C /\ V \ {c} \in SUBSET U
    BY <1>2, <1>3, <2>1
  <2>4. g[V \ {c}] = h[V \ {c}]
    BY <2>3
  <2> QED BY <1>3, <2>2, <2>4
<1> QED BY <1>4, <1>5

(* There is such a function: a smallest set without one has one, made of    *)
(* those of its subsets.                                                    *)
LEMMA SumExists ==
  ASSUME NEW a, NEW S0 \in SUBSET Txs
  PROVE  \E g : IsSum(g, a, S0)
<1> DEFINE C == {S \in SUBSET Txs : ~\E g : IsSum(g, a, S)}
<1>1. SUFFICES ASSUME C # {} PROVE FALSE
  OBVIOUS
<1>2. PICK S \in C : \A T \in C : T \subseteq S => T = S
  <2>1. C \subseteq SUBSET Txs
    OBVIOUS
  <2> HIDE DEF C
  <2> QED BY <1>1, <2>1, SmallestSet
<1>3. S \in SUBSET Txs /\ ~\E g : IsSum(g, a, S)
  BY <1>2
<1>4. \A T \in SUBSET S : T # S => \E g : IsSum(g, a, T)
  BY <1>2, <1>3
<1> HIDE DEF C
<1> DEFINE G(T) == CHOOSE g : IsSum(g, a, T)
           h == [s \in SUBSET S |-> IF s = {} THEN 0 ELSE Effect(Chosen(s), a) + Total(s \ {Chosen(s)}, a)]
<1>5. \A T \in SUBSET S : T # S => IsSum(G(T), a, T) /\ Total(T, a) = G(T)[T]
  BY <1>4, TotalIs
<1>6. ASSUME NEW T \in SUBSET S, T # S PROVE h[T] = Total(T, a)
  <2>1. IsSum(G(T), a, T) /\ Total(T, a) = G(T)[T] /\ T \in SUBSET T
    BY <1>5, <1>6
  <2>2. CASE T = {}
    <3>1. G(T)[T] = 0
      BY <2>1, <2>2 DEF IsSum
    <3> QED BY <2>1, <2>2, <3>1
  <2>3. CASE T # {}
    <3> DEFINE c == Chosen(T)
    <3>1. c \in T
      BY <2>3, ChosenIn
    <3>2. T \ {c} \in SUBSET S /\ T \ {c} # S /\ T \ {c} \in SUBSET T /\ T \ {c} \subseteq Txs
      BY <1>3, <1>6, <3>1
    <3>3. IsSum(G(T \ {c}), a, T \ {c}) /\ Total(T \ {c}, a) = G(T \ {c})[T \ {c}]
      BY <1>5, <3>2
    <3>4. G(T)[T] = Effect(c, a) + G(T)[T \ {c}]
      <4> HIDE DEF G
      <4> QED BY <2>1, <2>3 DEF IsSum
    <3>5. h[T] = Effect(c, a) + Total(T \ {c}, a)
      BY <1>6, <2>3
    <3> HIDE DEF c, G, h
    <3>6. G(T)[T \ {c}] = G(T \ {c})[T \ {c}]
      BY <2>1, <3>2, <3>3, SumUnique
    <3> QED BY <2>1, <3>3, <3>4, <3>5, <3>6
  <2> QED BY <2>2, <2>3
<1>7. \A s \in SUBSET S : s # {} =>
        Chosen(s) \in s /\ s \ {Chosen(s)} \in SUBSET S /\ s \ {Chosen(s)} # S
  BY ChosenIn
<1>8. h = [s \in SUBSET S |-> IF s = {} THEN 0 ELSE Effect(Chosen(s), a) + h[s \ {Chosen(s)}]]
  <2> DEFINE k == [s \in SUBSET S |-> IF s = {} THEN 0 ELSE Effect(Chosen(s), a) + h[s \ {Chosen(s)}]]
  <2>1. ASSUME NEW s \in SUBSET S PROVE h[s] = k[s]
    <3>1. CASE s = {}
      BY <3>1
    <3>2. CASE s # {}
      <4>1. h[s \ {Chosen(s)}] = Total(s \ {Chosen(s)}, a)
        <5> HIDE DEF h
        <5> QED BY <1>6, <1>7, <3>2
      <4>2. h[s] = Effect(Chosen(s), a) + Total(s \ {Chosen(s)}, a)
        BY <3>2
      <4>3. k[s] = Effect(Chosen(s), a) + h[s \ {Chosen(s)}]
        <5> HIDE DEF h
        <5> QED BY <3>2
      <4> HIDE DEF h, k
      <4> QED BY <4>1, <4>2, <4>3
    <3> QED BY <3>1, <3>2
  <2>2. DOMAIN h = SUBSET S /\ DOMAIN k = SUBSET S /\ h = [s \in SUBSET S |-> h[s]] /\ k = [s \in SUBSET S |-> k[s]]
    OBVIOUS
  <2> HIDE DEF h
  <2>3. h = k
    <3> HIDE DEF k
    <3> QED BY <2>1, <2>2
  <2> QED BY <2>3
<1> HIDE DEF h
<1>9. IsSum(h, a, S)
  BY <1>8 DEF IsSum
<1> QED BY <1>3, <1>9

LEMMA TotalStep ==
  ASSUME NEW a
  PROVE  /\ Total({}, a) = 0
         /\ \A S \in SUBSET Txs : S # {} =>
              Chosen(S) \in S /\ Total(S, a) = Effect(Chosen(S), a) + Total(S \ {Chosen(S)}, a)
<1> DEFINE G(T) == CHOOSE g : IsSum(g, a, T)
<1>1. \A T \in SUBSET Txs : IsSum(G(T), a, T) /\ Total(T, a) = G(T)[T]
  BY SumExists, TotalIs
<1>2. Total({}, a) = 0
  <2>1. {} \in SUBSET Txs
    OBVIOUS
  <2>2. IsSum(G({}), a, {}) /\ Total({}, a) = G({})[{}]
    BY <1>1, <2>1
  <2> HIDE DEF G
  <2> QED BY <2>2 DEF IsSum
<1>3. ASSUME NEW S \in SUBSET Txs, S # {}
      PROVE  Chosen(S) \in S /\ Total(S, a) = Effect(Chosen(S), a) + Total(S \ {Chosen(S)}, a)
  <2> DEFINE c == Chosen(S)
  <2>1. c \in S
    BY <1>3, ChosenIn
  <2> HIDE DEF c
  <2>2. S \ {c} \in SUBSET Txs /\ S \ {c} \subseteq S
    OBVIOUS
  <2>3. /\ IsSum(G(S), a, S) /\ Total(S, a) = G(S)[S]
        /\ IsSum(G(S \ {c}), a, S \ {c}) /\ Total(S \ {c}, a) = G(S \ {c})[S \ {c}]
    BY <1>1, <1>3, <2>2
  <2> HIDE DEF G
  <2>4. G(S)[S] = Effect(c, a) + G(S)[S \ {c}]
    BY <1>3, <2>3 DEF IsSum, c
  <2>5. G(S)[S \ {c}] = G(S \ {c})[S \ {c}]
    BY <2>2, <2>3, SumUnique
  <2> QED BY <2>1, <2>3, <2>4, <2>5 DEF c
<1> QED BY <1>2, <1>3

LEMMA TotalInt ==
  ASSUME NEW a, NEW S0 \in SUBSET Txs
  PROVE  Total(S0, a) \in Int
<1> DEFINE C == {S \in SUBSET Txs : Total(S, a) \notin Int}
<1>1. SUFFICES ASSUME C # {} PROVE FALSE
  OBVIOUS
<1>2. PICK S \in C : \A T \in C : T \subseteq S => T = S
  <2>1. C \subseteq SUBSET Txs
    OBVIOUS
  <2> HIDE DEF C
  <2> QED BY <1>1, <2>1, SmallestSet
<1>3. S \in SUBSET Txs /\ Total(S, a) \notin Int
  BY <1>2
<1>4. \A T \in SUBSET Txs : T \subseteq S /\ T # S => Total(T, a) \in Int
  BY <1>2
<1> HIDE DEF C
<1>5. S # {}
  BY <1>3, TotalStep
<1> DEFINE c == Chosen(S)
<1>6. c \in S /\ Total(S, a) = Effect(c, a) + Total(S \ {c}, a)
  BY <1>3, <1>5, TotalStep
<1> HIDE DEF c
<1>7. Total(S \ {c}, a) \in Int /\ Effect(c, a) \in Int
  BY <1>3, <1>4, <1>6, EffectInt
<1> QED BY <1>3, <1>6, <1>7

(* Whichever element is added last: by the smallest set where it is not so. *)
LEMMA TotalAdd ==
  ASSUME NEW a, NEW S0 \in SUBSET Txs, NEW x0 \in Txs, x0 \notin S0
  PROVE  Total(S0 \union {x0}, a) = Total(S0, a) + Effect(x0, a)
<1> DEFINE C == {U \in SUBSET Txs :
                   \E x \in U : Total(U, a) # Total(U \ {x}, a) + Effect(x, a)}
<1>1. SUFFICES ASSUME C # {} PROVE FALSE
  <2>1. S0 \union {x0} \in SUBSET Txs /\ (S0 \union {x0}) \ {x0} = S0
    OBVIOUS
  <2>2. ASSUME C = {} PROVE Total(S0 \union {x0}, a) = Total((S0 \union {x0}) \ {x0}, a) + Effect(x0, a)
    BY <2>1, <2>2
  <2> HIDE DEF C
  <2> QED BY <1>1, <2>1, <2>2
<1>2. PICK U \in C : \A T \in C : T \subseteq U => T = U
  <2>1. C \subseteq SUBSET Txs
    OBVIOUS
  <2> HIDE DEF C
  <2> QED BY <1>1, <2>1, SmallestSet
<1>3. U \in SUBSET Txs
  BY <1>2
<1>4. PICK x \in U : Total(U, a) # Total(U \ {x}, a) + Effect(x, a)
  BY <1>2
<1>5. ASSUME NEW T \in SUBSET Txs, T \subseteq U, T # U, NEW y \in T
      PROVE  Total(T, a) = Total(T \ {y}, a) + Effect(y, a)
  BY <1>2, <1>5
<1> HIDE DEF C
<1> DEFINE c == Chosen(U)
<1>6. c \in U /\ Total(U, a) = Effect(c, a) + Total(U \ {c}, a)
  BY <1>3, <1>4, TotalStep
<1> HIDE DEF c
<1>7. c # x
  <2>1. Total(U \ {x}, a) \in Int /\ Effect(x, a) \in Int
    BY <1>3, <1>4, TotalInt, EffectInt
  <2>2. Effect(x, a) + Total(U \ {x}, a) = Total(U \ {x}, a) + Effect(x, a)
    BY <2>1
  <2> QED BY <1>4, <1>6, <2>2
<1>8. Total(U \ {c}, a) = Total((U \ {c}) \ {x}, a) + Effect(x, a)
  BY <1>3, <1>4, <1>5, <1>6, <1>7
<1>9. Total(U \ {x}, a) = Total((U \ {x}) \ {c}, a) + Effect(c, a)
  BY <1>3, <1>4, <1>5, <1>6, <1>7
<1>10. (U \ {x}) \ {c} = (U \ {c}) \ {x}
  OBVIOUS
<1>11. /\ Total((U \ {c}) \ {x}, a) \in Int /\ Effect(x, a) \in Int /\ Effect(c, a) \in Int
  BY <1>3, <1>4, <1>6, TotalInt, EffectInt
<1> DEFINE i == Total((U \ {c}) \ {x}, a)
           j == Effect(x, a)
           k == Effect(c, a)
<1>12. i \in Int /\ j \in Int /\ k \in Int
  BY <1>11
<1>13. Total(U, a) = k + (i + j) /\ Total(U \ {x}, a) + Effect(x, a) = (i + k) + j
  BY <1>6, <1>8, <1>9, <1>10
<1> HIDE DEF i, j, k
<1>14. k + (i + j) = (i + k) + j
  BY <1>12
<1> QED BY <1>4, <1>13, <1>14

LEMMA TotalUnion ==
  ASSUME NEW a, NEW S \in SUBSET Txs, NEW T0 \in SUBSET Txs, S \cap T0 = {}
  PROVE  Total(S \union T0, a) = Total(S, a) + Total(T0, a)
<1> DEFINE C == {T \in SUBSET T0 : Total(S \union T, a) # Total(S, a) + Total(T, a)}
<1>1. SUFFICES ASSUME C # {} PROVE FALSE
  OBVIOUS
<1>2. PICK T \in C : \A V \in C : V \subseteq T => V = T
  <2>1. C \subseteq SUBSET Txs
    OBVIOUS
  <2> HIDE DEF C
  <2> QED BY <1>1, <2>1, SmallestSet
<1>3. T \in SUBSET T0 /\ Total(S \union T, a) # Total(S, a) + Total(T, a)
  BY <1>2
<1>4. \A V \in SUBSET T : V # T => Total(S \union V, a) = Total(S, a) + Total(V, a)
  BY <1>2, <1>3
<1> HIDE DEF C
<1>5. Total(S, a) \in Int /\ Total(T, a) \in Int
  BY <1>3, TotalInt
<1>6. PICK x : x \in T
  <2>1. T # {}
    <3>1. Total({}, a) = 0 /\ S \union {} = S
      BY TotalStep
    <3>2. Total(S, a) = Total(S, a) + 0
      BY <1>5
    <3> QED BY <1>3, <3>1, <3>2
  <2> QED BY <2>1
<1> DEFINE V == T \ {x}
<1>7. /\ V \in SUBSET T /\ V # T /\ V \in SUBSET Txs /\ x \notin V /\ x \in Txs
      /\ x \notin S \union V
      /\ T = V \union {x} /\ S \union T = (S \union V) \union {x} /\ S \union V \in SUBSET Txs
  BY <1>3, <1>6
<1> HIDE DEF V
<1>8. Total(S \union T, a) = Total(S \union V, a) + Effect(x, a)
        /\ Total(T, a) = Total(V, a) + Effect(x, a)
  BY <1>7, TotalAdd
<1>9. Total(S \union V, a) = Total(S, a) + Total(V, a)
  BY <1>4, <1>7
<1>10. Total(V, a) \in Int /\ Effect(x, a) \in Int
  BY <1>7, TotalInt, EffectInt
<1> QED BY <1>3, <1>5, <1>8, <1>9, <1>10

(* The sections of a range, and their transactions. *)
LEMMA BetweenSplit ==
  ASSUME NEW c \in [Sections -> SUBSET Txs], NEW m \in Int, NEW n \in Int, -1 <= m, m <= n
  PROVE  /\ Between(c, 0, n) = Between(c, 0, m) \union Between(c, m + 1, n)
         /\ Between(c, 0, n) \in SUBSET Txs /\ Between(c, 0, m) \in SUBSET Txs
         /\ Between(c, m + 1, n) \in SUBSET Txs
         /\ (\A s \in Sections : \A t \in c[s] : t.section = s)
              => Between(c, 0, m) \cap Between(c, m + 1, n) = {}
<1>1. \A s \in Sections : s \in Nat
  BY Bounds DEF Sections
<1>2. \A s \in Sections : 0 <= s /\ s <= n <=> (0 <= s /\ s <= m) \/ (m + 1 <= s /\ s <= n)
  BY <1>1
<1>3. \A s \in Sections : ~(s <= m /\ m + 1 <= s)
  BY <1>1
<1>4. \A x, y : \A t : t \in Between(c, x, y) <=> \E s \in Sections : x <= s /\ s <= y /\ t \in c[s]
  BY DEF Between
<1>5. Between(c, 0, n) = Between(c, 0, m) \union Between(c, m + 1, n)
  BY <1>2, <1>4
<1>6. \A x, y : Between(c, x, y) \in SUBSET Txs
  BY <1>4
<1>7. ASSUME \A s \in Sections : \A t \in c[s] : t.section = s
      PROVE  Between(c, 0, m) \cap Between(c, m + 1, n) = {}
  BY <1>3, <1>4, <1>7
<1> QED BY <1>5, <1>6, <1>7

(* It depends on these sections only. *)
LEMMA BetweenSame ==
  ASSUME NEW c, NEW d, NEW m, NEW n, \A s \in Sections : m <= s /\ s <= n => c[s] = d[s]
  PROVE  Between(c, m, n) = Between(d, m, n)
<1>1. \A t : t \in Between(c, m, n) <=> \E s \in Sections : m <= s /\ s <= n /\ t \in c[s]
  BY DEF Between
<1>2. \A t : t \in Between(d, m, n) <=> \E s \in Sections : m <= s /\ s <= n /\ t \in d[s]
  BY DEF Between
<1> QED BY <1>1, <1>2

------------------------------------------------------------------------------
(* The cached balances. *)

(* CacheExact, and during an update the balances of the section it goes to. *)
Sums ==
    /\ balances \in [Actors -> Int]
    /\ Exact(IF step = "publish" THEN Later(cached, Safe) ELSE cached)

SumsInv == ControlInv /\ (Undisturbed => Sums)

LEMMA InitSums == Init => Sums
<1> SUFFICES ASSUME Init PROVE Sums
  OBVIOUS
<1>1. balances \in [Actors -> Int] /\ \A a \in Actors : balances[a] = 0
  BY DEF Init
<1>2. Between(txs, 0, -1) = {}
  <2>1. \A s \in Sections : ~(0 <= s /\ s <= -1)
    BY Bounds DEF Sections
  <2> QED BY <2>1 DEF Between
<1>3. step # "publish" /\ cached = -1
  BY DEF Init
<1>4. \A a \in Actors : Total({}, a) = 0
  BY TotalStep
<1> QED BY <1>1, <1>2, <1>3, <1>4 DEF Sums, Exact

LEMMA SumsKept ==
  ASSUME Sums, UNCHANGED <<txs, balances, cached>>,
         (step # "publish" /\ step' # "publish") \/ UNCHANGED <<step, current>>
  PROVE  Sums'
<1>1. UNCHANGED current => Safe' = Safe
  BY DEF Safe
<1> QED BY <1>1 DEF Sums, Exact

(* What the cache adds, and what was there. *)
LEMMA SumsCache ==
  ASSUME CachePlace, Placed, Placed', Sums, UpdateCache
  PROVE  Sums'
<1>1. /\ step = "cache" /\ CacheDue /\ step' = "publish" /\ txs' = Without(Exorcised)
      /\ UNCHANGED <<current, cached>>
      /\ balances' = [a \in Actors |-> balances[a] + Total(Between(txs', cached + 1, Safe), a)]
  BY DEF UpdateCache, memory
<1>2. cached \in Int /\ -1 <= cached /\ Safe \in Int /\ Later(cached, Safe) = Safe /\ cached <= Safe
  <2>1. current \in Nat /\ current >= Lag /\ cached \in Checkpoints \union {-1}
    BY <1>1 DEF CachePlace, CacheDue
  <2>2. SafeAt(current) \in Nat /\ Safe = SafeAt(current)
    BY <2>1, SafeFacts DEF Safe, SafeAt
  <2>3. cached = -1 \/ Safe > cached
    BY <1>1 DEF CacheDue
  <2>4. cached \in Int /\ -1 <= cached
    BY <2>1, Bounds
  <2> QED BY <2>2, <2>3, <2>4 DEF Later
<1>3. Safe' = Safe /\ Later(cached, Safe)' = Safe
  BY <1>1, <1>2 DEF Safe
<1>4. \A s \in Sections : 0 <= s /\ s <= cached => txs'[s] = txs[s]
  <2>1. \A s \in Sections : txs'[s] = txs[s] \ Exorcised
    BY <1>1 DEF Without
  <2>2. ASSUME NEW s \in Sections, 0 <= s, s <= cached, NEW t \in txs[s] PROVE t \notin Exorcised
    <3>1. t.section = s /\ s \in Int /\ Reached = cached
      BY <1>2, <2>2, Bounds DEF Placed, Sections, Reached, Later
    <3>2. ~(s > Reached)
      BY <1>2, <2>2, <3>1
    <3> QED BY <3>1, <3>2, ExorcisedAbove
  <2> HIDE DEF Exorcised
  <2> QED BY <2>1, <2>2
<1>5. Between(txs', 0, cached) = Between(txs, 0, cached)
  BY <1>4, BetweenSame
<1> DEFINE S == Between(txs', 0, cached)
           T == Between(txs', cached + 1, Safe)
           U == Between(txs', 0, Safe)
<1>6. U = S \union T /\ S \in SUBSET Txs /\ T \in SUBSET Txs /\ S \cap T = {}
  <2>1. txs' \in [Sections -> SUBSET Txs] /\ \A s \in Sections : \A t \in txs'[s] : t.section = s
    BY DEF Placed
  <2> QED BY <1>2, <2>1, BetweenSplit
<1>7. \A a \in Actors : balances[a] = Total(S, a) /\ balances'[a] = balances[a] + Total(T, a)
  BY <1>1, <1>5 DEF Sums, Exact
<1>8. balances' \in [Actors -> Int]
  <2> HIDE DEF T
  <2>1. \A a \in Actors : Total(T, a) \in Int
    BY <1>6, TotalInt
  <2> QED BY <1>1, <2>1 DEF Sums, T
<1> HIDE DEF S, T
<1>9. \A a \in Actors : balances'[a] = Total(U, a)
  <2> HIDE DEF U
  <2> QED BY <1>6, <1>7, TotalUnion
<1> QED BY <1>1, <1>3, <1>8, <1>9 DEF Sums, Exact

(* A section is written above the cache, or as it was. *)
LEMMA SumsWrite ==
  ASSUME CachePlace, Placed, SaveAbove, OffCheckpoints, Sums, WriteSection
  PROVE  Sums'
<1>1. step = "write" /\ step' = "answer" /\ UNCHANGED <<balances, cached>>
  BY DEF WriteSection, memory
<1>2. \A s \in Sections : 0 <= s /\ s <= cached => txs'[s] = txs[s]
  <2>1. ASSUME NEW s \in Sections, s <= cached PROVE s <= Reached
    <3>1. s \in Nat /\ cached \in Int
      BY Bounds DEF CachePlace, Sections
    <3> QED BY <2>1, <3>1 DEF Reached, Later
  <2> QED BY <2>1, WriteAbove
<1>3. Between(txs', 0, cached) = Between(txs, 0, cached)
  BY <1>2, BetweenSame
<1> QED BY <1>1, <1>3 DEF Sums, Exact

LEMMA SumsPublish ==
  ASSUME CachePlace, Sums, PublishCache
  PROVE  Sums'
<1>1. step = "publish" /\ step' = "range" /\ cached' = Later(cached, Safe)
        /\ UNCHANGED <<txs, balances>>
  BY DEF PublishCache
<1> QED BY <1>1 DEF Sums, Exact

LEMMA StepSums == OpeningOnly /\ SumsInv /\ [Next]_vars => SumsInv'
<1> SUFFICES ASSUME OpeningOnly, SumsInv, [Next]_vars PROVE SumsInv'
  OBVIOUS
<1>1. ControlInv /\ ControlInv'
  BY StepControl DEF SumsInv
<1>2. Undisturbed' => Undisturbed /\ ~Crash /\ \A t \in Own : ~TransactionApproved(t)
  BY <1>1, StaysDisturbed
<1>3. ASSUME Undisturbed' PROVE Sums'
  <2>1. /\ Undisturbed /\ ~Crash /\ \A t \in Own : ~TransactionApproved(t)
        /\ OffCheckpoints /\ CachePlace /\ Placed /\ SaveAbove /\ Placed' /\ Sums
    BY <1>1, <1>2, <1>3 DEF ControlInv, SumsInv, Undisturbed
  <2>2. ASSUME NEW t \in Txs, NetworkTransaction(t) \/ TransactionRefused(t) PROVE Sums'
    BY <2>1, <2>2, SumsKept DEF NetworkTransaction, TransactionRefused, StartSave, disk, saving
  <2>3. ASSUME NEW t \in Own, SendTransaction(t) \/ TransactionFailed(t) PROVE Sums'
    BY <2>1, <2>3, SumsKept DEF SendTransaction, TransactionFailed, disk, saving
  <2>4. CASE UpdateCache
    BY <2>1, <2>4, SumsCache
  <2>5. CASE WriteSection
    BY <2>1, <2>5, SumsWrite
  <2>6. CASE PublishCache
    BY <2>1, <2>6, SumsPublish
  <2>7. CASE TimePasses \/ CacheNotDue \/ UpdateRange \/ Answer
    BY <2>1, <2>7, SumsKept DEF TimePasses, CacheNotDue, UpdateRange, Answer, disk, memory, saving
  <2>8. CASE UNCHANGED vars
    BY <2>1, <2>8, SumsKept DEF vars, disk, memory, saving
  <2> QED BY <2>1, <2>2, <2>3, <2>4, <2>5, <2>6, <2>7, <2>8 DEF Next
<1> QED BY <1>1, <1>3 DEF SumsInv

(* Of a node on which Undisturbed holds: the balances of the cache are     *)
(* those of the section files up to the cached section (calculate_balances *)
(* and update_to_genesis_section): what comes late goes above the cache,   *)
(* what the clearing pass drops lies above it, and each section is added   *)
(* once.                                                                   *)
THEOREM CacheAddsUp == OpeningOnly => (Spec => []CacheExact)
<1> SUFFICES ASSUME OpeningOnly PROVE Spec => []CacheExact
  OBVIOUS
<1>1. SumsInv => CacheExact
  BY DEF SumsInv, CacheExact, Sums
<1>2. SumsInv /\ [Next]_vars => SumsInv'
  BY StepSums
<1>3. Init => SumsInv
  BY InitControl, InitSums DEF SumsInv
<1> QED BY <1>1, <1>2, <1>3, PTL DEF Spec

------------------------------------------------------------------------------
(* Overdrafts. *)

(* Section 1 is not cleared: it has the opening balances, which the network *)
(* pays.  A node sends for the section after its current one, never for it; *)
(* while the chain is young a peer may, and a Burn there, for which no      *)
(* balance is asked, can leave its sender below zero for good.              *)
FirstSection == \A t \in Txs : t.section = 1 => t \in Opening /\ t.sender = Network

(* Only its sender can lose by a transaction, and what is taken back is      *)
(* what it did, but for the sender of a Minting.                            *)
LEMMA EffectFacts ==
  ASSUME NEW t \in Txs, NEW a
  PROVE  /\ Effect(t, a) \in Int /\ Reversal(t, a) \in Int
         /\ a # t.sender => Effect(t, a) >= 0
         /\ t.type \in {"Minting", "Reward", "ConversionIn"} => Effect(t, a) >= 0
         /\ t.type # "Minting" \/ a # t.sender => Effect(t, a) + Reversal(t, a) = 0
<1>1. t.amount \in Nat
  BY LedgerAssumption
<1> DEFINE s == IF t.sender = a THEN t.amount ELSE 0
           r == IF t.receiver = a THEN t.amount ELSE 0
<1>2. s \in Nat /\ r \in Nat /\ (a # t.sender => s = 0)
  BY <1>1
<1>3. /\ Effect(t, a) = CASE t.type = "Minting" -> r
                          [] t.type \in {"Reward", "InitContract", "ConversionIn"} -> s
                          [] t.type = "ConversionOut" -> -s
                          [] OTHER -> r - s
      /\ Reversal(t, a) = IF t.type = "Minting" THEN s - r ELSE -Effect(t, a)
  BY DEF Effect, Reversal
<1> HIDE DEF s, r
<1>4. CASE t.type = "Minting"
  BY <1>2, <1>3, <1>4
<1>5. CASE t.type \in {"Reward", "InitContract", "ConversionIn"}
  BY <1>2, <1>3, <1>5
<1>6. CASE t.type = "ConversionOut"
  BY <1>2, <1>3, <1>6
<1>7. CASE t.type \notin {"Minting", "Reward", "InitContract", "ConversionIn", "ConversionOut"}
  BY <1>2, <1>3, <1>7
<1> QED BY <1>4, <1>5, <1>6, <1>7

(* One transaction of the clearing pass. *)
LEMMA ProcessedFacts ==
  ASSUME FirstSection, NEW t \in Txs, t.type # "ConversionOut",
         NEW sum \in [Actors -> Int], NEW gone, \A a \in Actors \ {Network} : sum[a] >= 0,
         NEW r, r = Processed([sum |-> sum, gone |-> gone], t)
  PROVE  /\ r = [sum |-> r.sum, gone |-> r.gone] /\ r.sum \in [Actors -> Int]
         /\ \A a \in Actors \ {Network} : r.sum[a] >= 0
         /\ \/ r.gone = gone /\ \A a \in Actors : r.sum[a] = sum[a] + Effect(t, a)
            \/ /\ r.gone = gone \union {t} /\ ~Exempt(t)
               /\ \A a \in Actors \ {Network} : r.sum[a] = sum[a]
<1> DEFINE before == [sum |-> sum, gone |-> gone]
           new == [a \in Actors |-> sum[a] + Effect(t, a)]
<1>1. t.sender \in Actors
  BY LedgerAssumption
<1>2. new \in [Actors -> Int] /\ \A a \in Actors : new[a] = sum[a] + Effect(t, a)
  BY EffectFacts
<1>3. CASE ~Exempt(t) /\ new[t.sender] < 0
  <2>1. r = [sum |-> [a \in Actors |-> new[a] + Reversal(t, a)], gone |-> gone \union {t}]
    BY <1>3 DEF Processed
  <2> DEFINE back == [a \in Actors |-> new[a] + Reversal(t, a)]
  <2> HIDE DEF new
  <2>2. back \in [Actors -> Int]
    BY <1>2, EffectFacts
  <2>3. ASSUME NEW a \in Actors \ {Network} PROVE back[a] = sum[a]
    <3>1. t.type # "Minting" \/ a # t.sender
      <4> SUFFICES ASSUME t.type = "Minting", a = t.sender PROVE FALSE
        OBVIOUS
      <4>1. sum[a] >= 0 /\ Effect(t, a) >= 0 /\ Effect(t, a) \in Int /\ sum[a] \in Int
        BY EffectFacts
      <4> QED BY <1>2, <1>3, <4>1
    <3>2. Effect(t, a) + Reversal(t, a) = 0 /\ Effect(t, a) \in Int /\ Reversal(t, a) \in Int
      BY <3>1, EffectFacts
    <3>3. back[a] = (sum[a] + Effect(t, a)) + Reversal(t, a) /\ sum[a] \in Int
      BY <1>2
    <3> HIDE DEF back
    <3> QED BY <3>2, <3>3
  <2> HIDE DEF back
  <2>4. r = [sum |-> back, gone |-> gone \union {t}]
    BY <2>1 DEF back
  <2> QED BY <1>3, <2>2, <2>3, <2>4
<1>4. CASE Exempt(t) \/ ~(new[t.sender] < 0)
  <2>1. r = [sum |-> new, gone |-> gone]
    <3>1. r = [before EXCEPT !.sum = new]
      BY <1>4 DEF Processed
    <3> QED BY <3>1
  <2> HIDE DEF new
  <2>2. ASSUME NEW a \in Actors \ {Network} PROVE new[a] >= 0
    <3>1. sum[a] \in Int /\ sum[a] >= 0 /\ Effect(t, a) \in Int /\ new[a] = sum[a] + Effect(t, a)
      BY <1>2, EffectFacts
    <3>2. CASE Effect(t, a) >= 0
      BY <3>1, <3>2
    <3>3. CASE Effect(t, a) < 0
      <4>1. a = t.sender /\ t.type \notin {"Minting", "Reward", "ConversionIn"}
        BY <3>1, <3>3, EffectFacts
      <4>2. ~Exempt(t)
        BY <4>1 DEF Exempt, FirstSection
      <4> QED BY <1>2, <1>4, <3>1, <4>1, <4>2
    <3> QED BY <3>1, <3>2, <3>3
  <2> QED BY <1>2, <2>1, <2>2
<1> QED BY <1>3, <1>4

(* The clearing pass, one id after the other. *)
ClearStart == [sum |-> balances, gone |-> {}]
ClearNext(passed, n, before) ==
  IF \E t \in passed : t.id = n THEN Processed(before, CHOOSE t \in passed : t.id = n) ELSE before
IsCleared(g, passed, k) ==
  g = [n \in 0..k |-> IF n = 0 THEN ClearStart ELSE ClearNext(passed, n, g[n - 1])]

(* Cleared is defined by recursion; the function exists. *)
LEMMA ClearedIs ==
  ASSUME NEW passed
  PROVE  Cleared(passed) = CHOOSE g : IsCleared(g, passed, Cardinality(Txs))
BY DEF Cleared, IsCleared, ClearStart, ClearNext

LEMMA ClearedExists ==
  ASSUME NEW passed, NEW k0 \in Nat
  PROVE  \E g : IsCleared(g, passed, k0)
<1> DEFINE C == {k \in Nat : ~\E g : IsCleared(g, passed, k)}
<1>1. SUFFICES ASSUME C # {} PROVE FALSE
  OBVIOUS
<1>2. PICK k \in C : \A j \in C : k <= j
  <2>1. C \subseteq Nat
    OBVIOUS
  <2> HIDE DEF C
  <2> QED BY <1>1, <2>1, LeastNumber
<1>3. k \in Nat /\ ~\E g : IsCleared(g, passed, k)
  BY <1>2
<1>4. k > 0 => \E g : IsCleared(g, passed, k - 1)
  <2>1. k > 0 => k - 1 \in Nat /\ ~(k <= k - 1)
    BY <1>3
  <2> QED BY <1>2, <2>1
<1> HIDE DEF C
<1>5. CASE k = 0
  <2> DEFINE g == [n \in 0..k |-> ClearStart]
  <2>1. \A n \in 0..k : n = 0
    BY <1>5
  <2>2. g = [n \in 0..k |-> IF n = 0 THEN ClearStart ELSE ClearNext(passed, n, g[n - 1])]
    BY <2>1
  <2> HIDE DEF g
  <2>3. IsCleared(g, passed, k)
    BY <2>2 DEF IsCleared
  <2> QED BY <1>3, <2>3
<1>6. CASE k > 0
  <2>1. PICK g : IsCleared(g, passed, k - 1)
    BY <1>4, <1>6
  <2> DEFINE h == [n \in 0..k |-> IF n = k THEN ClearNext(passed, k, g[k - 1]) ELSE g[n]]
             F(n) == IF n = 0 THEN ClearStart ELSE ClearNext(passed, n, h[n - 1])
  <2>2. \A n \in 0..(k - 1) : n \in 0..k /\ n # k
    BY <1>3, <1>6
  <2>3. \A n \in 0..(k - 1) : h[n] = g[n]
    BY <2>2
  <2>4. h[k] = ClearNext(passed, k, g[k - 1])
    <3>1. k \in 0..k
      BY <1>3
    <3> QED BY <3>1
  <2>5. h = [n \in 0..k |-> h[n]] /\ DOMAIN h = 0..k
    OBVIOUS
  <2> HIDE DEF h
  <2>6. \A n \in 0..(k - 1) : n # 0 => n - 1 \in 0..(k - 1)
    BY <1>3
  <2>7. \A n \in 0..(k - 1) : g[n] = IF n = 0 THEN ClearStart ELSE ClearNext(passed, n, g[n - 1])
    BY <2>1 DEF IsCleared
  <2>8. ASSUME NEW n \in 0..k PROVE h[n] = F(n)
    <3>1. CASE n = k
      <4>1. k - 1 \in 0..(k - 1) /\ n # 0
        BY <1>3, <1>6, <3>1
      <4> QED BY <2>3, <2>4, <3>1, <4>1
    <3>2. CASE n # k
      <4>1. n \in 0..(k - 1)
        BY <1>3, <3>2
      <4>2. n # 0 => h[n - 1] = g[n - 1]
        BY <2>3, <2>6, <4>1
      <4> QED BY <2>3, <2>7, <4>1, <4>2
    <3> QED BY <3>1, <3>2
  <2>9. [n \in 0..k |-> h[n]] = [n \in 0..k |-> F(n)]
    <3> HIDE DEF F
    <3> QED BY <2>8
  <2>10. IsCleared(h, passed, k)
    BY <2>5, <2>9 DEF IsCleared
  <2> QED BY <1>3, <2>10
<1>7. k = 0 \/ k > 0
  BY <1>3
<1> QED BY <1>5, <1>6, <1>7

LEMMA ClearedStep ==
  ASSUME NEW passed
  PROVE  /\ Cleared(passed)[0] = ClearStart
         /\ \A n \in 1..Cardinality(Txs) :
              Cleared(passed)[n] = ClearNext(passed, n, Cleared(passed)[n - 1])
<1>1. Cardinality(Txs) \in Nat
  BY FS_CardinalityType, LedgerAssumption
<1> DEFINE g == Cleared(passed)
<1>2. IsCleared(g, passed, Cardinality(Txs))
  BY <1>1, ClearedIs, ClearedExists
<1> HIDE DEF g
<1>3. 0 \in 0..Cardinality(Txs) /\ \A n \in 1..Cardinality(Txs) : n \in 0..Cardinality(Txs) /\ n # 0
  BY <1>1
<1>4. g[0] = ClearStart /\ \A n \in 1..Cardinality(Txs) : g[n] = ClearNext(passed, n, g[n - 1])
  BY <1>2, <1>3 DEF IsCleared
<1> QED BY <1>4 DEF g

(* The transactions of passed with ids up to n. *)
Upto(passed, n) == {t \in passed : t.id <= n}

(* What the pass has kept adds up to balances that nobody but the network   *)
(* overdraws, and what it has dropped stays dropped.                        *)
PassedTo(passed, n) ==
  LET c == Cleared(passed)
  IN  /\ c[n] = [sum |-> c[n].sum, gone |-> c[n].gone] /\ c[n].sum \in [Actors -> Int]
      /\ c[n].gone \subseteq Upto(passed, n) /\ \A t \in c[n].gone : ~Exempt(t)
      /\ \A k \in 0..n : c[n].gone \cap Upto(passed, k) = c[k].gone
      /\ \A a \in Actors \ {Network} :
           /\ c[n].sum[a] >= 0
           /\ c[n].sum[a] = balances[a] + Total(Upto(passed, n) \ c[n].gone, a)

Sound(passed) ==
  /\ passed \in SUBSET Txs /\ \A t \in passed : t.type # "ConversionOut"
  /\ balances \in [Actors -> Int] /\ \A a \in Actors \ {Network} : balances[a] >= 0

LEMMA PassedStart ==
  ASSUME NEW passed, Sound(passed)
  PROVE  PassedTo(passed, 0)
<1> DEFINE c == Cleared(passed)
<1>1. c[0] = [sum |-> balances, gone |-> {}]
  BY ClearedStep DEF ClearStart
<1>2. Upto(passed, 0) = {}
  <2>1. \A t \in passed : t.id \in Nat /\ t.id > 0
    <3>1. \A t \in Txs : t.id \in 1..Cardinality(Txs)
      BY LedgerAssumption
    <3>2. Cardinality(Txs) \in Nat
      BY FS_CardinalityType, LedgerAssumption
    <3> QED BY <3>1, <3>2 DEF Sound
  <2> QED BY <2>1 DEF Upto
<1> HIDE DEF c
<1>3. \A a \in Actors : balances[a] = balances[a] + Total({}, a)
  <2>1. \A a \in Actors : balances[a] \in Int
    BY DEF Sound
  <2>2. \A a \in Actors : Total({}, a) = 0
    BY TotalStep
  <2> QED BY <2>1, <2>2
<1>4. \A k \in 0..0 : k = 0
  OBVIOUS
<1> QED BY <1>1, <1>2, <1>3, <1>4 DEF PassedTo, Sound, c

LEMMA PassedNext ==
  ASSUME FirstSection, NEW passed, Sound(passed), NEW n \in 1..Cardinality(Txs), PassedTo(passed, n - 1)
  PROVE  PassedTo(passed, n)
<1> DEFINE c == Cleared(passed)
           b == c[n - 1]
           r == c[n]
           U == Upto(passed, n - 1)
           V == Upto(passed, n)
<1>1. n \in Nat /\ n > 0 /\ n - 1 \in Nat /\ \A k \in 0..n : k = n \/ k \in 0..(n - 1)
  <2>1. Cardinality(Txs) \in Nat
    BY FS_CardinalityType, LedgerAssumption
  <2> QED BY <2>1
<1>2. r = ClearNext(passed, n, b)
  BY ClearedStep
<1>3. /\ b = [sum |-> b.sum, gone |-> b.gone] /\ b.sum \in [Actors -> Int]
      /\ b.gone \subseteq U /\ \A t \in b.gone : ~Exempt(t)
      /\ \A k \in 0..(n - 1) : b.gone \cap Upto(passed, k) = c[k].gone
      /\ \A a \in Actors \ {Network} :
            b.sum[a] >= 0 /\ b.sum[a] = balances[a] + Total(U \ b.gone, a)
  BY DEF PassedTo
<1>4. /\ U \in SUBSET Txs /\ V \in SUBSET Txs
      /\ \A t \in Txs : t.id \in Int
      /\ \A t, u \in Txs : t.id = u.id => t = u
  BY LedgerAssumption DEF Sound, Upto
<1>5. V = U \union {t \in passed : t.id = n} /\ \A t \in U : t.id # n
  <2>1. \A t \in passed : t.id <= n <=> t.id <= n - 1 \/ t.id = n
    BY <1>1, <1>4 DEF Sound
  <2>2. \A t \in passed : t.id = n => ~(t.id <= n - 1)
    BY <1>1
  <2> QED BY <2>1, <2>2 DEF Upto
<1>6. \A k \in 0..(n - 1) : \A t \in Upto(passed, k) : t.id # n
  BY <1>1, <1>4 DEF Upto, Sound
<1>7. CASE ~\E t \in passed : t.id = n
  <2>1. r = b /\ V = U
    BY <1>2, <1>5, <1>7 DEF ClearNext
  <2> HIDE DEF c, U, V
  <2>2. \A k \in 0..n : b.gone \cap Upto(passed, k) = c[k].gone
    <3>1. b.gone \cap V = b.gone
      BY <1>3, <2>1
    <3> QED BY <1>1, <1>3, <2>1, <3>1 DEF V
  <2> QED BY <1>3, <2>1, <2>2 DEF PassedTo, c, U, V
<1>8. CASE \E t \in passed : t.id = n
  <2> DEFINE t == CHOOSE u \in passed : u.id = n
  <2>1. t \in passed /\ t.id = n /\ r = Processed(b, t)
    BY <1>2, <1>8 DEF ClearNext
  <2> HIDE DEF t
  <2>2. t \in Txs /\ t.type # "ConversionOut" /\ V = U \union {t} /\ t \notin U
    BY <1>4, <1>5, <2>1 DEF Sound
  <2> DEFINE sum == b.sum
             gone == b.gone
  <2>3. b = [sum |-> sum, gone |-> gone]
    BY <1>3
  <2>4. /\ sum \in [Actors -> Int]
        /\ \A a \in Actors \ {Network} : sum[a] >= 0 /\ sum[a] = balances[a] + Total(U \ gone, a)
        /\ gone \subseteq U /\ \A u \in gone : ~Exempt(u)
        /\ \A k \in 0..(n - 1) : gone \cap Upto(passed, k) = c[k].gone
    BY <1>3
  <2>5. r = Processed([sum |-> sum, gone |-> gone], t)
    BY <2>1, <2>3
  <2> HIDE DEF sum, gone, c, U, V
  <2>6. /\ r = [sum |-> r.sum, gone |-> r.gone] /\ r.sum \in [Actors -> Int]
        /\ \A a \in Actors \ {Network} : r.sum[a] >= 0
        /\ \/ r.gone = gone /\ \A a \in Actors : r.sum[a] = sum[a] + Effect(t, a)
           \/ /\ r.gone = gone \union {t} /\ ~Exempt(t)
              /\ \A a \in Actors \ {Network} : r.sum[a] = sum[a]
    BY <2>2, <2>4, <2>5, ProcessedFacts
  <2> HIDE DEF r
  <2>7. r.gone \subseteq V /\ \A u \in r.gone : ~Exempt(u)
    BY <2>2, <2>4, <2>6
  <2>8. \A k \in 0..n : r.gone \cap Upto(passed, k) = c[k].gone
    <3>1. r.gone \cap V = r.gone
      BY <2>7
    <3>2. ASSUME NEW k \in 0..(n - 1) PROVE r.gone \cap Upto(passed, k) = c[k].gone
      <4>1. t \notin Upto(passed, k)
        BY <1>6, <2>1
      <4>2. r.gone \cap Upto(passed, k) = gone \cap Upto(passed, k)
        BY <2>6, <4>1
      <4> QED BY <2>4, <4>2
    <3> QED BY <1>1, <3>1, <3>2 DEF V, r
  <2>9. ASSUME NEW a \in Actors \ {Network} PROVE r.sum[a] = balances[a] + Total(V \ r.gone, a)
    <3>1. sum[a] = balances[a] + Total(U \ gone, a) /\ U \ gone \in SUBSET Txs
            /\ balances[a] \in Int
      BY <1>4, <2>4 DEF Sound
    <3>2. Total(U \ gone, a) \in Int /\ Effect(t, a) \in Int
      BY <2>2, <3>1, TotalInt, EffectInt
    <3>3. CASE r.gone = gone /\ r.sum[a] = sum[a] + Effect(t, a)
      <4>1. V \ r.gone = (U \ gone) \union {t} /\ t \notin U \ gone
        BY <2>2, <2>4, <3>3
      <4>2. Total(V \ r.gone, a) = Total(U \ gone, a) + Effect(t, a)
        BY <2>2, <3>1, <4>1, TotalAdd
      <4> DEFINE i == balances[a]
                 j == Total(U \ gone, a)
                 e == Effect(t, a)
      <4>3. i \in Int /\ j \in Int /\ e \in Int /\ sum[a] = i + j /\ r.sum[a] = (i + j) + e
            /\ Total(V \ r.gone, a) = j + e
        BY <3>1, <3>2, <3>3, <4>2
      <4> HIDE DEF i, j, e
      <4>4. r.sum[a] = i + (j + e)
        BY <4>3
      <4> QED BY <4>3, <4>4 DEF i
    <3>4. CASE r.gone = gone \union {t} /\ r.sum[a] = sum[a]
      <4>1. V \ r.gone = U \ gone
        BY <2>2, <3>4
      <4> QED BY <3>1, <3>4, <4>1
    <3> QED BY <2>6, <3>3, <3>4
  <2> QED BY <2>6, <2>7, <2>8, <2>9 DEF PassedTo, c, r, V
<1> QED BY <1>7, <1>8

LEMMA PassedAll ==
  ASSUME FirstSection, NEW passed, Sound(passed), NEW n0 \in 0..Cardinality(Txs)
  PROVE  PassedTo(passed, n0)
<1> DEFINE N == Cardinality(Txs)
           C == {n \in 0..N : ~PassedTo(passed, n)}
<1>1. N \in Nat
  BY FS_CardinalityType, LedgerAssumption
<1>2. SUFFICES ASSUME C # {} PROVE FALSE
  OBVIOUS
<1>3. PICK n \in C : \A j \in C : n <= j
  <2>1. C \subseteq Nat
    BY <1>1
  <2> HIDE DEF C
  <2> QED BY <1>2, <2>1, LeastNumber
<1>4. n \in 0..N /\ ~PassedTo(passed, n) /\ n # 0
  BY <1>3, PassedStart
<1>5. n - 1 \in 0..N /\ n \in 1..N /\ ~(n <= n - 1)
  BY <1>1, <1>4
<1>6. PassedTo(passed, n - 1)
  BY <1>3, <1>5
<1> HIDE DEF C
<1> QED BY <1>4, <1>5, <1>6, PassedNext

(* The ids are in the order of the sections, so a section is an id. *)
LEMMA SectionById ==
  ASSUME NEW passed \in SUBSET Txs, NEW x \in Int
  PROVE  \E m \in 0..Cardinality(Txs) : \A t \in passed : t.id <= m <=> t.section <= x
<1> DEFINE N == Cardinality(Txs)
           C == {m \in Nat : \A t \in passed : t.section <= x => t.id <= m}
<1>1. /\ N \in Nat /\ \A t \in Txs : t.id \in 1..N /\ t.section \in Int
      /\ \A t, u \in Txs : (t.id = u.id => t = u) /\ (t.id < u.id => t.section <= u.section)
  BY FS_CardinalityType, LedgerAssumption
<1>2. N \in C
  BY <1>1
<1>3. PICK m \in C : \A j \in C : m <= j
  <2>1. C \subseteq Nat
    OBVIOUS
  <2> HIDE DEF C
  <2> QED BY <1>2, <2>1, LeastNumber
<1>4. m \in 0..N /\ m \in Nat /\ \A t \in passed : t.section <= x => t.id <= m
  BY <1>1, <1>2, <1>3
<1>5. ASSUME NEW t \in passed, t.id <= m PROVE t.section <= x
  <2>1. m - 1 \in Nat /\ ~(m <= m - 1)
    BY <1>1, <1>4, <1>5
  <2>2. PICK u \in passed : u.section <= x /\ ~(u.id <= m - 1)
    BY <1>3, <2>1
  <2>3. u.id <= m
    BY <1>4, <2>2
  <2>4. t.id < u.id \/ t.id = u.id
    BY <1>1, <1>4, <1>5, <2>2, <2>3
  <2>5. t.section <= u.section /\ t.section \in Int /\ u.section \in Int
    BY <1>1, <2>4
  <2> QED BY <2>2, <2>5
<1> QED BY <1>4, <1>5

(* What the sections hold was approved. *)
Accepted ==
    /\ \A s \in Sections : txs[s] \subseteq approved \union Opening
    /\ copy \subseteq approved \union Opening

NoConversions == \A t \in approved : t.type # "ConversionOut"
InCredit == NoConversions => \A a \in Actors \ {Network} : balances[a] >= 0

CreditInv == SumsInv /\ (Undisturbed => Accepted /\ InCredit)

(* The cache takes over what the clearing pass has kept up to the new       *)
(* section, and the pass has kept nobody but the network below zero there. *)
LEMMA CreditCache ==
  ASSUME FirstSection, CachePlace, Placed, Sums, Accepted, InCredit, UpdateCache
  PROVE  InCredit'
<1> SUFFICES ASSUME NoConversions', NEW a \in Actors \ {Network} PROVE balances'[a] >= 0
  BY DEF InCredit
<1>1. /\ step = "cache" /\ CacheDue /\ txs' = Without(Exorcised) /\ UNCHANGED approved
      /\ balances' = [b \in Actors |-> balances[b] + Total(Between(txs', cached + 1, Safe), b)]
  BY DEF UpdateCache
<1>2. NoConversions /\ \A b \in Actors \ {Network} : balances[b] >= 0
  BY <1>1 DEF NoConversions, InCredit
<1> DEFINE passed == Between(txs, cached, current)
           c == Cleared(passed)
           N == Cardinality(Txs)
<1>3. \A t : t \in passed <=> \E s \in Sections : cached <= s /\ s <= current /\ t \in txs[s]
  BY DEF Between
<1>4. \A t : t \in Exorcised <=> t \in passed /\ ~Exempt(t) /\ t \in c[N].gone
  BY DEF Exorcised
<1>5. /\ \A s \in Sections : s \in Int /\ s >= 0
      /\ \A s \in Sections : \A t \in txs[s] : t \in Txs /\ t.section = s
  BY Bounds DEF Sections, Placed
<1>6. /\ cached \in Int /\ cached >= -1 /\ Safe \in Int /\ Safe <= current /\ current \in Int
      /\ cached = -1 \/ (cached \in Sections /\ txs[cached] = {})
  <2>1. current \in Nat /\ current >= Lag /\ cached \in Checkpoints \union {-1}
    BY <1>1 DEF CachePlace, CacheDue
  <2>2. SafeAt(current) \in Nat /\ Safe = SafeAt(current) /\ SafeAt(current) + Lag <= current
    BY <2>1, SafeFacts DEF Safe, SafeAt
  <2>3. cached \in Checkpoints => txs[cached] = {} /\ cached \in Sections /\ cached \in Nat
    BY Bounds DEF Placed, Checkpoints
  <2>4. Safe \in Int /\ Safe <= current /\ current \in Int
    BY <2>1, <2>2, Bounds
  <2> QED BY <2>1, <2>3, <2>4
<1>7. Sound(passed)
  <2>1. \A t \in Opening : t.type = "Balance"
    BY LedgerAssumption
  <2>2. passed \in SUBSET Txs /\ \A t \in passed : t.type # "ConversionOut"
    BY <1>2, <1>3, <1>5, <2>1 DEF Accepted, NoConversions
  <2> QED BY <1>2, <2>2 DEF Sound, Sums
<1>8. N \in Nat
  BY FS_CardinalityType, LedgerAssumption
<1>9. PICK m \in 0..N : \A t \in passed : t.id <= m <=> t.section <= Safe
  BY <1>6, <1>7, SectionById DEF Sound
<1> HIDE DEF passed
<1>10. PassedTo(passed, m) /\ PassedTo(passed, N) /\ N \in 0..N /\ m \in 0..N
  BY <1>7, <1>8, <1>9, PassedAll
<1> HIDE DEF c, N
<1>11. /\ c[m].gone = c[N].gone \cap Upto(passed, m)
       /\ \A t \in c[N].gone : t \in passed /\ ~Exempt(t)
       /\ c[m].sum[a] >= 0 /\ c[m].sum[a] = balances[a] + Total(Upto(passed, m) \ c[m].gone, a)
  BY <1>10 DEF PassedTo, Upto, c
<1>12. \A t : t \in Exorcised <=> t \in c[N].gone
  BY <1>4, <1>11
<1> HIDE DEF Exorcised
<1>13. Between(txs', cached + 1, Safe) = Upto(passed, m) \ c[m].gone
  <2> DEFINE B == Between(txs', cached + 1, Safe)
  <2>1. \A t : t \in B <=> \E s \in Sections : cached + 1 <= s /\ s <= Safe /\ t \in txs'[s]
    BY DEF Between
  <2>2. \A s \in Sections : txs'[s] = txs[s] \ c[N].gone
    BY <1>1, <1>12 DEF Without
  <2> HIDE DEF B
  <2>3. \A t : t \in Upto(passed, m) <=> t \in passed /\ t.section <= Safe
    BY <1>9 DEF Upto
  <2>4. ASSUME NEW t \in B PROVE t \in Upto(passed, m) \ c[m].gone
    <3>1. PICK s \in Sections : cached + 1 <= s /\ s <= Safe /\ t \in txs[s] /\ t \notin c[N].gone
      BY <2>1, <2>2, <2>4
    <3>2. cached <= s /\ s <= current /\ t.section = s
      BY <1>5, <1>6, <3>1
    <3> QED BY <1>3, <1>11, <2>3, <3>1, <3>2
  <2>5. ASSUME NEW t \in Upto(passed, m), t \notin c[m].gone PROVE t \in B
    <3>1. t \in passed /\ t.section <= Safe /\ t \notin c[N].gone
      BY <1>11, <2>3, <2>5
    <3>2. PICK s \in Sections : cached <= s /\ s <= current /\ t \in txs[s]
      BY <1>3, <3>1
    <3>3. t.section = s /\ s # cached
      BY <1>5, <1>6, <3>2
    <3>4. cached + 1 <= s /\ s <= Safe
      BY <1>5, <1>6, <3>1, <3>2, <3>3
    <3> QED BY <2>1, <2>2, <3>1, <3>2, <3>4
  <2>6. B = Upto(passed, m) \ c[m].gone
    BY <2>4, <2>5
  <2> QED BY <2>6 DEF B
<1>14. balances'[a] = balances[a] + Total(Between(txs', cached + 1, Safe), a)
  BY <1>1
<1> QED BY <1>11, <1>13, <1>14

(* Everything else leaves the balances, and saves what was approved. *)
LEMMA CreditKept ==
  ASSUME Accepted, InCredit, UNCHANGED <<txs, balances>>, approved \subseteq approved',
         copy' \subseteq copy \/ \E s \in Sections : copy' = txs[s]
  PROVE  Accepted' /\ InCredit'
<1>1. Accepted'
  BY DEF Accepted
<1>2. NoConversions' => NoConversions
  BY DEF NoConversions
<1> QED BY <1>1, <1>2 DEF InCredit

LEMMA CreditWrite ==
  ASSUME Placed, SaveAbove, Accepted, InCredit, WriteSection
  PROVE  Accepted' /\ InCredit'
<1>1. PICK t \in job : txs' = [txs EXCEPT ![t.section] = copy \union {t}]
  BY DEF WriteSection
<1>2. step = "write" /\ UNCHANGED <<balances, job, copy, approved>>
  BY DEF WriteSection
<1>3. t \in approved
  BY <1>2 DEF SaveAbove, Saving
<1>4. \A s \in Sections : txs'[s] = txs[s] \/ txs'[s] = copy \union {t}
  BY <1>1 DEF Placed
<1>5. Accepted'
  BY <1>2, <1>3, <1>4 DEF Accepted
<1> QED BY <1>2, <1>5 DEF InCredit, NoConversions

LEMMA StepCredit == FirstSection /\ CreditInv /\ [Next]_vars => CreditInv'
<1> SUFFICES ASSUME FirstSection, CreditInv, [Next]_vars PROVE CreditInv'
  OBVIOUS
<1>1. OpeningOnly
  BY DEF FirstSection, OpeningOnly
<1>2. SumsInv /\ ControlInv /\ SumsInv'
  BY <1>1, StepSums DEF CreditInv, SumsInv
<1>3. Undisturbed' => Undisturbed /\ ~Crash /\ \A t \in Own : ~TransactionApproved(t)
  BY <1>2, StaysDisturbed
<1>4. ASSUME Undisturbed' PROVE Accepted' /\ InCredit'
  <2>1. /\ Undisturbed /\ ~Crash /\ \A t \in Own : ~TransactionApproved(t)
        /\ CachePlace /\ Placed /\ SaveAbove /\ Sums /\ Accepted /\ InCredit
    BY <1>2, <1>3, <1>4 DEF ControlInv, SumsInv, CreditInv
  <2>2. ASSUME NEW t \in Txs, NetworkTransaction(t) PROVE Accepted' /\ InCredit'
    <3>1. t.section \in Sections
      BY Bounds
    <3> QED BY <2>1, <2>2, <3>1, CreditKept DEF NetworkTransaction, StartSave, disk
  <2>3. ASSUME NEW t \in Txs, TransactionRefused(t) PROVE Accepted' /\ InCredit'
    BY <2>1, <2>3, CreditKept DEF TransactionRefused, disk, saving
  <2>4. ASSUME NEW t \in Own, SendTransaction(t) \/ TransactionFailed(t)
        PROVE  Accepted' /\ InCredit'
    BY <2>1, <2>4, CreditKept DEF SendTransaction, TransactionFailed, disk, saving
  <2>5. CASE UpdateCache
    <3>1. InCredit'
      BY <2>1, <2>5, CreditCache
    <3>2. Accepted'
      <4>1. txs' = Without(Exorcised) /\ UNCHANGED <<copy, approved>>
        BY <2>5 DEF UpdateCache
      <4>2. \A s \in Sections : txs'[s] \subseteq txs[s]
        BY <4>1 DEF Without
      <4> QED BY <2>1, <4>1, <4>2 DEF Accepted
    <3> QED BY <3>1, <3>2
  <2>6. CASE WriteSection
    BY <2>1, <2>6, CreditWrite
  <2>7. CASE TimePasses \/ CacheNotDue \/ UpdateRange \/ Answer \/ PublishCache
    BY <2>1, <2>7, CreditKept
       DEF TimePasses, CacheNotDue, UpdateRange, Answer, PublishCache, disk, memory, saving
  <2>8. CASE UNCHANGED vars
    BY <2>1, <2>8, CreditKept DEF vars, disk, memory, saving
  <2> QED BY <2>1, <2>2, <2>3, <2>4, <2>5, <2>6, <2>7, <2>8 DEF Next
<1> QED BY <1>2, <1>4 DEF CreditInv

(* Of a node on which Undisturbed holds and that approved no conversion    *)
(* out: however many transactions that spend the same coins were approved, *)
(* in whatever order they came, the clearing pass                          *)
(* (local_clear_less_balances) lets no account but the network's go below  *)
(* zero in the cached balances.                                            *)
THEOREM NobodyOverdrawn == FirstSection => (Spec => []NotOverdrawn)
<1> SUFFICES ASSUME FirstSection PROVE Spec => []NotOverdrawn
  OBVIOUS
<1>1. CreditInv => NotOverdrawn
  BY DEF CreditInv, NotOverdrawn, InCredit, NoConversions
<1>2. CreditInv /\ [Next]_vars => CreditInv'
  BY StepCredit
<1>3. Init => CreditInv
  <2> SUFFICES ASSUME Init PROVE CreditInv
    OBVIOUS
  <2>1. Accepted
    <3>1. \A s \in Sections : txs[s] \subseteq Opening
      BY DEF Init
    <3>2. copy = {}
      BY DEF Init
    <3> QED BY <3>1, <3>2 DEF Accepted
  <2>2. InCredit
    BY DEF Init, InCredit
  <2> QED BY <2>1, <2>2, InitControl, InitSums DEF CreditInv, SumsInv
<1> QED BY <1>1, <1>2, <1>3, PTL DEF Spec

===============================================================================
