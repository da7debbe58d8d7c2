------------------------- MODULE FileDownloadProofs -------------------------
(***************************************************************************)
(* Proofs about FileDownload for every number of peers and of fragments,   *)
(* every limit on requests and every number of lost messages, broken links *)
(* and failed writes.                                                      *)
(***************************************************************************)
EXTENDS FileDownload, TLAPS

\* Every peer's copy is a beginning of the file.
HoldBeginnings == \A p \in Peers : holding[p] \in {1 .. k : k \in 0 .. N}

\* A LoadInfo that has only fragments of the file left to ask for.
IsLoad(d) ==
    \E L, C, A : d \in [list : L, checker : C, amount : A, left : SUBSET Fragments]

RightFragment(m) == m.frag \in Fragments /\ m.amount \in Fragments /\ m.right = TRUE

IsJob(j) == j = [pc |-> j.pc, msg |-> j.msg] /\ RightFragment(j.msg)

\* The inductive invariant: what is asked for are fragments of the file, what
\* arrives has the right content, and a Ready file is whole.
CopiesInv ==
    /\ connected \subseteq Peers
    /\ dl = NoDownload \/ IsLoad(dl)
    /\ good \subseteq Fragments
    /\ row = "Ready" => good = Fragments
    /\ \A m \in DOMAIN reqs : m.frags \subseteq Fragments
    /\ \A m \in DOMAIN resp : RightFragment(m)
    /\ \A j \in DOMAIN jobs : IsJob(j)

DownloadInv == HoldBeginnings => CopiesInv

------------------------------------------------------------------------------
(* Bags, LoadInfo and requests *)

\* Which elements a bag has after messages are put in and taken out.
LEMMA BagFacts ==
    /\ \A B : BagToSet(B) = DOMAIN B
    /\ \A B, C : DOMAIN (B (+) C) = DOMAIN B \union DOMAIN C
    /\ \A S : DOMAIN SetToBag(S) = S
    /\ \A B, x : DOMAIN BagAdd(B, x) = DOMAIN B \union {x}
    /\ \A B, x : DOMAIN BagRemove(B, x) \subseteq DOMAIN B
    /\ \A B, x : BagIn(x, B) => x \in DOMAIN B
    /\ DOMAIN EmptyBag = {}
<1>1. \A B : BagToSet(B) = DOMAIN B
    BY DEF BagToSet
<1>2. \A B, C : DOMAIN (B (+) C) = DOMAIN B \union DOMAIN C
    BY DEF (+)
<1>3. \A S : DOMAIN SetToBag(S) = S
    BY DEF SetToBag
<1>4. \A B, x : DOMAIN BagAdd(B, x) = DOMAIN B \union {x}
    BY DEF BagAdd
<1>5. \A B, x : DOMAIN BagRemove(B, x) \subseteq DOMAIN B
    BY DEF BagRemove
<1>6. \A B, x : BagIn(x, B) => x \in DOMAIN B
    BY DEF BagIn, BagToSet
<1>7. DOMAIN EmptyBag = {}
    BY DEF EmptyBag, SetToBag
<1>8. QED
    BY <1>1, <1>2, <1>3, <1>4, <1>5, <1>6, <1>7

\* Changing the identifiers of a LoadInfo leaves what is left to ask for.
LEMMA LoadFacts ==
    ASSUME NEW d, IsLoad(d)
    PROVE  /\ d.left \subseteq Fragments /\ d # NoDownload
           /\ \A l : IsLoad([d EXCEPT !.list = l])
           /\ \A l, c : IsLoad([d EXCEPT !.list = l, !.checker = c])
           /\ \A a : \A F \in SUBSET Fragments : IsLoad([d EXCEPT !.amount = a, !.left = F])
           /\ \A x : IsLoad([d EXCEPT !.left = @ \ {x}])
<1>1. PICK L, C, A : d \in [list : L, checker : C, amount : A, left : SUBSET Fragments]
    BY DEF IsLoad
<1>2. d.left \subseteq Fragments /\ d # NoDownload
    BY <1>1 DEF NoDownload
<1>3. ASSUME NEW l PROVE IsLoad([d EXCEPT !.list = l])
    <2>1. [d EXCEPT !.list = l]
            \in [list : L \union {l}, checker : C, amount : A, left : SUBSET Fragments]
        BY <1>1
    <2>2. QED
        BY <2>1 DEF IsLoad
<1>4. ASSUME NEW l, NEW c PROVE IsLoad([d EXCEPT !.list = l, !.checker = c])
    <2>1. [d EXCEPT !.list = l, !.checker = c]
            \in [list : L \union {l}, checker : C \union {c}, amount : A,
                 left : SUBSET Fragments]
        BY <1>1
    <2>2. QED
        BY <2>1 DEF IsLoad
<1>5. ASSUME NEW a, NEW F \in SUBSET Fragments
      PROVE  IsLoad([d EXCEPT !.amount = a, !.left = F])
    <2>1. [d EXCEPT !.amount = a, !.left = F]
            \in [list : L, checker : C, amount : A \union {a}, left : SUBSET Fragments]
        BY <1>1
    <2>2. QED
        BY <2>1 DEF IsLoad
<1>6. ASSUME NEW x PROVE IsLoad([d EXCEPT !.left = @ \ {x}])
    <2>1. [d EXCEPT !.left = @ \ {x}]
            \in [list : L, checker : C, amount : A, left : SUBSET Fragments]
        BY <1>1
    <2>2. QED
        BY <2>1 DEF IsLoad
<1>7. QED
    BY <1>2, <1>3, <1>4, <1>5, <1>6

\* timer_runner asks for fragments of the file only.
LEMMA RunnerFacts ==
    ASSUME NEW d, d = NoDownload \/ IsLoad(d), NEW ks, NEW urgent
    PROVE  /\ Runner(d, ks, urgent).dl = NoDownload \/ IsLoad(Runner(d, ks, urgent).dl)
           /\ \A m \in DOMAIN Runner(d, ks, urgent).sent : m.frags \subseteq Fragments
<1>1. ASSUME NEW b, IsLoad(b)
      PROVE  /\ IsLoad(Walk(b, ks, urgent).dl)
             /\ \A m \in DOMAIN Walk(b, ks, urgent).sent : m.frags \subseteq Fragments
    <2>1. PICK l : Walk(b, ks, urgent).dl = [b EXCEPT !.list = l]
        BY DEF Walk
    <2>2. Wanted(b, ks) \subseteq Fragments
        <3>1. b.left \subseteq Fragments
            BY <1>1, LoadFacts
        <3>2. 1 \in Fragments
            BY DownloadAssumption DEF Fragments
        <3>3. QED
            BY <3>1, <3>2 DEF Wanted
    <2>3. PICK p : \/ Walk(b, ks, urgent).sent = SetToBag({[peer |-> p, frags |-> Wanted(b, ks)]})
                   \/ Walk(b, ks, urgent).sent = EmptyBag
        BY DEF Walk
    <2>4. \A m \in DOMAIN Walk(b, ks, urgent).sent : m.frags \subseteq Fragments
        BY <2>2, <2>3, BagFacts
    <2>5. IsLoad([b EXCEPT !.list = l])
        BY <1>1, LoadFacts
    <2>6. QED
        BY <2>1, <2>4, <2>5
<1>2. ASSUME IsLoad(d)
      PROVE  IsLoad(Renewed(d))
    <2>1. PICK l, c : \/ Renewed(d) = [d EXCEPT !.list = l]
                      \/ Renewed(d) = [d EXCEPT !.list = l, !.checker = c]
        BY DEF Renewed
    <2>2. IsLoad([d EXCEPT !.list = l]) /\ IsLoad([d EXCEPT !.list = l, !.checker = c])
        BY <1>2, LoadFacts
    <2>3. QED
        BY <2>1, <2>2
<1>3. \/ Runner(d, ks, urgent).dl = d /\ Runner(d, ks, urgent).sent = EmptyBag
      \/ Runner(d, ks, urgent).dl = NoDownload /\ Runner(d, ks, urgent).sent = EmptyBag
      \/ d # NoDownload /\ Runner(d, ks, urgent) = Walk(Renewed(d), ks, urgent)
    BY DEF Runner
<1>4. QED
    BY <1>1, <1>2, <1>3, BagFacts

\* A step that runs timer_runner for a LoadInfo of the file.
LEMMA RunTimerFacts ==
    ASSUME CopiesInv, NEW d, d = NoDownload \/ IsLoad(d), NEW urgent, RunTimer(d, urgent)
    PROVE  /\ dl' = NoDownload \/ IsLoad(dl')
           /\ \A m \in DOMAIN reqs' : m.frags \subseteq Fragments
<1> DEFINE r == Runner(d, keys, urgent)
<1>1. dl' = r.dl /\ reqs' = reqs (+) r.sent
    BY DEF RunTimer
<1>2. /\ r.dl = NoDownload \/ IsLoad(r.dl)
      /\ \A m \in DOMAIN r.sent : m.frags \subseteq Fragments
    BY RunnerFacts
<1> HIDE DEF r
<1>3. DOMAIN reqs' = DOMAIN reqs \union DOMAIN r.sent
    BY <1>1, BagFacts
<1>4. QED
    BY <1>1, <1>2, <1>3 DEF CopiesInv

\* share_stored_file sends what the copy holds, up to its end.
LEMMA ServedFacts ==
    ASSUME HoldBeginnings, NEW m, m.peer \in Peers, m.frags \subseteq Fragments
    PROVE  \A x \in Served(m) : RightFragment(x)
<1>1. PICK k \in 0 .. N : holding[m.peer] = 1 .. k
    BY DEF HoldBeginnings
<1>2. CASE k = 0
    BY <1>1, <1>2 DEF Served
<1>3. CASE k # 0
    <2>1. k \in Nat \ {0} /\ k \in Fragments
        BY <1>3, DownloadAssumption DEF Fragments
    <2>2. Max(1 .. k) = k
        BY <2>1 DEF Max
    <2>3. ASSUME NEW x \in Served(m)
          PROVE  RightFragment(x)
        <3>1. PICK f \in Upto(m.frags, k) :
                 x = [peer |-> m.peer, frag |-> f, right |-> f \in 1 .. k, amount |-> k]
            BY <1>1, <2>1, <2>2, <2>3 DEF Served
        <3>2. f \in Fragments /\ f \in 1 .. k
            BY <2>1, <3>1, DownloadAssumption DEF Upto, Fragments
        <3>3. QED
            BY <2>1, <3>1, <3>2 DEF RightFragment
    <2>4. QED
        BY <2>3
<1>4. QED
    BY <1>2, <1>3

------------------------------------------------------------------------------
(* The steps *)

\* A job that goes on or ends still carries the right fragment.
LEMMA JobFacts ==
    ASSUME CopiesInv, NEW j, BagIn(j, jobs)
    PROVE  /\ IsJob(j) /\ RightFragment(j.msg)
           /\ \A i \in DOMAIN End(j) : IsJob(i)
           /\ \A pc : \A i \in DOMAIN Step(j, pc) : IsJob(i)
<1>1. IsJob(j) /\ RightFragment(j.msg)
    BY BagFacts DEF CopiesInv, IsJob
<1>2. \A i \in DOMAIN End(j) : IsJob(i)
    BY BagFacts DEF CopiesInv, End
<1>3. ASSUME NEW pc
      PROVE  IsJob([j EXCEPT !.pc = pc])
    <2>1. [j EXCEPT !.pc = pc] = [pc |-> pc, msg |-> j.msg]
        BY <1>1 DEF IsJob
    <2>2. QED
        BY <1>1, <2>1 DEF IsJob
<1>4. ASSUME NEW pc, NEW i \in DOMAIN Step(j, pc)
      PROVE  IsJob(i)
    <2>1. DOMAIN Step(j, pc) = DOMAIN End(j) \union {[j EXCEPT !.pc = pc]}
        BY BagFacts DEF Step, End
    <2>2. QED
        BY <1>2, <1>3, <1>4, <2>1
<1>5. QED
    BY <1>1, <1>2, <1>4

\* The DFS pool: a fragment is checked, written and counted.
LEMMA FragmentStepInv ==
    ASSUME HoldBeginnings, CopiesInv, FragmentStep
    PROVE  CopiesInv'
<1>1. ASSUME NEW m, FragmentAchieved(m)
      PROVE  CopiesInv'
    <2> DEFINE j == [pc |-> "check", msg |-> m]
    <2>1. RightFragment(m)
        BY <1>1, BagFacts DEF FragmentAchieved, CopiesInv
    <2>2. IsJob(j)
        BY <2>1 DEF IsJob
    <2>3. \A i \in DOMAIN jobs' : IsJob(i)
        <3>1. jobs' = BagAdd(jobs, j)
            BY <1>1 DEF FragmentAchieved
        <3> HIDE DEF j
        <3>2. DOMAIN jobs' = DOMAIN jobs \union {j}
            BY <3>1, BagFacts
        <3>3. QED
            BY <2>2, <3>2 DEF CopiesInv
    <2>4. \A x \in DOMAIN resp' : RightFragment(x)
        BY <1>1, BagFacts DEF FragmentAchieved, CopiesInv
    <2>5. QED
        BY <1>1, <2>3, <2>4 DEF FragmentAchieved, CopiesInv
<1>2. ASSUME NEW j, CheckFragment(j)
      PROVE  CopiesInv'
    <2>1. \A i \in DOMAIN jobs' : IsJob(i)
        BY <1>2, JobFacts DEF CheckFragment
    <2>2. QED
        BY <1>2, <2>1 DEF CheckFragment, CopiesInv
<1>3. ASSUME NEW j, WriteFragment(j)
      PROVE  CopiesInv'
    <2>1. /\ \A i \in DOMAIN jobs' : IsJob(i)
          /\ RightFragment(j.msg)
        BY <1>3, JobFacts DEF WriteFragment
    <2>2. good' = good \union {j.msg.frag}
        BY <1>3, <2>1 DEF WriteFragment, RightFragment
    <2>3. good' \subseteq Fragments /\ (row = "Ready" => good' = Fragments)
        BY <2>1, <2>2 DEF RightFragment, CopiesInv
    <2>4. QED
        BY <1>3, <2>1, <2>3 DEF WriteFragment, CopiesInv
<1>4. ASSUME NEW j, FinishFragment(j)
      PROVE  CopiesInv'
    <2> DEFINE credited == Credited(dl, j.msg.peer)
    <2>1. /\ \A i \in DOMAIN jobs' : IsJob(i)
          /\ RightFragment(j.msg)
          /\ UNCHANGED <<connected, good, resp>>
        BY <1>4, JobFacts DEF FinishFragment
    <2>2. ASSUME Active
          PROVE  IsLoad(credited) /\ IsLoad(Progress(credited, j.msg))
        <3>1. IsLoad(dl)
            BY <2>2 DEF Active, CopiesInv
        <3>2. IsLoad(credited)
            BY <3>1, LoadFacts DEF Credited
        <3> HIDE DEF credited
        <3>3. (1 .. j.msg.amount) \ {j.msg.frag} \in SUBSET Fragments
            BY <2>1, DownloadAssumption DEF RightFragment, Fragments
        <3>4. QED
            BY <3>2, <3>3, LoadFacts DEF Progress
    <2>3. CASE UNCHANGED <<row, dl, reqs>>
        BY <2>1, <2>3 DEF CopiesInv
    <2>4. ASSUME Active, NEW d \in {credited, Progress(credited, j.msg)},
                 RunTimer(d, TRUE), UNCHANGED row
          PROVE  CopiesInv'
        <3>1. IsLoad(d)
            BY <2>2, <2>4
        <3>2. /\ dl' = NoDownload \/ IsLoad(dl')
              /\ \A m \in DOMAIN reqs' : m.frags \subseteq Fragments
            BY <2>4, <3>1, RunTimerFacts
        <3>3. QED
            BY <2>1, <2>4, <3>2 DEF CopiesInv
    <2>5. CASE HashMatches /\ row' = "Ready" /\ dl' = NoDownload /\ UNCHANGED reqs
        BY <2>1, <2>5 DEF CopiesInv, HashMatches, Downloaded
    <2>6. QED
        BY <1>4, <2>3, <2>4, <2>5 DEF FinishFragment
<1>5. QED
    BY <1>1, <1>2, <1>3, <1>4 DEF FragmentStep

\* Every step keeps the invariant; the copies of the peers do not change.
LEMMA DownloadStep ==
    ASSUME DownloadInv, [Next]_vars
    PROVE  DownloadInv'
<1>1. UNCHANGED holding
    BY DEF Next, vars, RequestFile, StartStep, StateResponse, AddToQueue, ExistenceReply,
           TimerTick, TenSecondsPass, PeerStep, ShareStoredFile, FragmentStep,
           FragmentAchieved, CheckFragment, WriteFragment, FinishFragment, WriteFails,
           LoseMessage, Disconnect, Reconnect
<1> SUFFICES ASSUME HoldBeginnings, CopiesInv
             PROVE  CopiesInv'
    BY <1>1 DEF DownloadInv, HoldBeginnings
<1>3. CASE RequestFile
    BY <1>3 DEF RequestFile, CopiesInv
<1>4. ASSUME NEW p \in Peers, StateResponse(p) \/ AddToQueue(p) \/ ExistenceReply(p)
      PROVE  CopiesInv'
    <2>1. ASSUME IsLoad(dl) PROVE IsLoad(WithIdentifier(dl, p))
        BY <2>1, LoadFacts DEF WithIdentifier
    <2> DEFINE first == [list |-> <<Fresh(p)>>, checker |-> {p}, amount |-> 0, left |-> {}]
    <2>2. IsLoad(first)
        <3>1. first \in [list : {<<Fresh(p)>>}, checker : {{p}}, amount : {0},
                         left : SUBSET Fragments]
            OBVIOUS
        <3>2. QED
            BY <3>1 DEF IsLoad
    <2>3. dl' = NoDownload \/ IsLoad(dl')
        <3>1. dl' = NoDownload \/ dl' = dl \/ dl' = WithIdentifier(dl, p) \/ dl' = first
            BY <1>4 DEF StateResponse, AddToQueue, ExistenceReply
        <3>2. dl = NoDownload => WithIdentifier(dl, p) = NoDownload
            BY DEF WithIdentifier
        <3> HIDE DEF first
        <3>3. dl = NoDownload \/ IsLoad(dl)
            BY DEF CopiesInv
        <3>4. CASE dl' = first
            BY <2>2, <3>4
        <3>5. CASE dl' = dl
            BY <3>3, <3>5
        <3>6. CASE dl' = WithIdentifier(dl, p)
            BY <2>1, <3>2, <3>3, <3>6
        <3>7. QED
            BY <3>1, <3>4, <3>5, <3>6
    <2>4. UNCHANGED <<connected, good, row, reqs, resp, jobs>>
        BY <1>4 DEF StateResponse, AddToQueue, ExistenceReply
    <2>5. QED
        BY <2>3, <2>4 DEF CopiesInv
<1>5. CASE TimerTick
    <2>1. RunTimer(dl, FALSE) /\ UNCHANGED <<connected, good, row, resp, jobs>>
        BY <1>5 DEF TimerTick
    <2>2. /\ dl' = NoDownload \/ IsLoad(dl')
          /\ \A m \in DOMAIN reqs' : m.frags \subseteq Fragments
        BY <2>1, RunTimerFacts DEF CopiesInv
    <2>3. QED
        BY <2>1, <2>2 DEF CopiesInv
<1>6. CASE TenSecondsPass
    <2>1. IsLoad(dl) /\ UNCHANGED <<connected, good, row, reqs, resp, jobs>>
        BY <1>6 DEF TenSecondsPass, Active, CopiesInv
    <2>2. PICK l : dl' = [dl EXCEPT !.list = l]
        BY <1>6 DEF TenSecondsPass
    <2>3. IsLoad([dl EXCEPT !.list = l])
        BY <2>1, LoadFacts
    <2>4. QED
        BY <2>1, <2>2, <2>3 DEF CopiesInv
<1>7. ASSUME NEW m, ShareStoredFile(m)
      PROVE  CopiesInv'
    <2>1. m.peer \in Peers /\ m.frags \subseteq Fragments
        BY <1>7, BagFacts DEF ShareStoredFile, CopiesInv
    <2>2. \A x \in Served(m) : RightFragment(x)
        BY <2>1, ServedFacts
    <2>3. /\ resp' = resp (+) SetToBag(Served(m)) /\ reqs' = BagRemove(reqs, m)
          /\ UNCHANGED <<connected, dl, good, row, jobs>>
        BY <1>7 DEF ShareStoredFile
    <2>4. DOMAIN resp' = DOMAIN resp \union DOMAIN SetToBag(Served(m))
        BY <2>3, BagFacts, Zenon
    <2>5. DOMAIN SetToBag(Served(m)) = Served(m) /\ DOMAIN reqs' \subseteq DOMAIN reqs
        BY <2>3, BagFacts, Zenon
    <2>6. QED
        BY <2>2, <2>3, <2>4, <2>5 DEF CopiesInv
<1>8. CASE FragmentStep
    BY <1>8, FragmentStepInv
<1>9. ASSUME NEW j, WriteFails(j)
      PROVE  CopiesInv'
    <2>1. /\ \A i \in DOMAIN jobs' : IsJob(i)
          /\ RunTimer(dl, TRUE) /\ UNCHANGED <<connected, good, row, resp>>
        BY <1>9, JobFacts DEF WriteFails
    <2>2. /\ dl' = NoDownload \/ IsLoad(dl')
          /\ \A m \in DOMAIN reqs' : m.frags \subseteq Fragments
        BY <2>1, RunTimerFacts DEF CopiesInv
    <2>3. QED
        BY <2>1, <2>2 DEF CopiesInv
<1>10. CASE LoseMessage
    <2>1. DOMAIN reqs' \subseteq DOMAIN reqs /\ DOMAIN resp' \subseteq DOMAIN resp
        BY <1>10, BagFacts DEF LoseMessage
    <2>2. QED
        BY <1>10, <2>1 DEF LoseMessage, CopiesInv
<1>11. ASSUME NEW p \in Peers, Disconnect(p)
      PROVE  CopiesInv'
    <2>1. DOMAIN reqs' \subseteq DOMAIN reqs /\ DOMAIN resp' \subseteq DOMAIN resp
        BY <1>11, BagFacts DEF Disconnect, Without
    <2>2. QED
        BY <1>11, <2>1 DEF Disconnect, CopiesInv
<1>12. ASSUME NEW p \in Peers, Reconnect(p)
      PROVE  CopiesInv'
    BY <1>12 DEF Reconnect, CopiesInv
<1>13. CASE UNCHANGED vars
    BY <1>13 DEF vars, CopiesInv
<1>14. QED
    BY <1>3, <1>4, <1>5, <1>6, <1>7, <1>8, <1>9, <1>10, <1>11, <1>12, <1>13
    DEF Next, StartStep, PeerStep

\* The inductive invariant holds in every reachable state.
THEOREM DownloadInvariance == Spec => []DownloadInv
<1>1. Init => DownloadInv
    BY BagFacts DEF Init, DownloadInv, CopiesInv
<1>2. DownloadInv /\ [Next]_vars => DownloadInv'
    BY DownloadStep
<1>3. QED
    BY <1>1, <1>2, PTL DEF Spec

\* A file that was reported as downloaded keeps its content, whatever late
\* duplicates, retries and failed writes follow, when the copies of the peers
\* are beginnings of the file.
THEOREM ReadyStaysWhole == Spec => []ReadyIntact
<1>1. DownloadInv => ReadyIntact
    BY DEF DownloadInv, CopiesInv, HoldBeginnings, ReadyIntact
<1>2. QED
    BY <1>1, DownloadInvariance, PTL
=============================================================================
